---------------------------- MODULE GrowingFile ----------------------------
(***************************************************************************)
(* The arithmetic of a media file, on files of every length: the parts it  *)
(* is uploaded in, the keyframes of its encode and the tiles of its        *)
(* scrubbing strip. A step makes the file one byte, one frame and half a   *)
(* second longer.                                                          *)
(***************************************************************************)
EXTENDS UploadParts, Keyframes, SpriteSheet

VARIABLE bytes   \* the declared size

fileVars == <<bytes, ms, fps, frame, last, forced, offgrid>>

FileInit == bytes = 1 /\ ms = 0 /\ KeyframesInit

Grow ==
    /\ bytes < MaxUploadBytes
    /\ bytes' = bytes + 1 /\ ms' = ms + 500
    /\ EncodeFrame

FileSpec == FileInit /\ [][Grow]_fileVars

----------------------------------------------------------------------------

\* PartSizeFor, Create and verifyParts agree with each other and with the provider
\* on every file size: as few doublings as the part limit allows, and parts that
\* are the file.
PartsFitTheFile ==
    PartsWithinLimit(bytes) /\ PartsTile(bytes, PartSizeFor(bytes))
============================================================================

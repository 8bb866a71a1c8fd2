----------------------------- MODULE ProbeTrack -----------------------------
(***************************************************************************)
(* internal/probe/parse.go: from the streams ffprobe lists to the tracks   *)
(* the planner and the validator read. A stream is a record of the fields  *)
(* that planning or validation depends on; languages, roles, titles,       *)
(* bitrates and pixel formats are carried along by the code and are left   *)
(* out. A frame rate is a pair <<num, den>>.                               *)
(***************************************************************************)
EXTENDS EncodeConfig, Sequences, SequencesExt

\* A rate with a zero denominator is no rate.
ParseRational(r) == IF r[2] = 0 THEN NoRate ELSE r

\* The nominal rate is more than 2% off the average one.
IsVFR(nominal, average) ==
    LET n == ParseRational(nominal)
        a == ParseRational(average)
        x == n[1] * a[2]
        y == a[1] * n[2]
    IN  /\ n[1] # 0 /\ a[1] # 0
        /\ (50 * (x - y) > x \/ 50 * (y - x) > x)

\* The lower case of a name, for one name in capitals per format.
ToLower(transfer) ==
    CASE transfer = "SMPTE2084" -> "smpte2084"
      [] transfer = "ARIB-STD-B67" -> "arib-std-b67"
      [] OTHER -> transfer

\* What the transfer characteristics say.
TransferFormat(transfer) ==
    CASE ToLower(transfer) \in {"smpte2084", "smpte st 2084"} -> "hdr10"
      [] ToLower(transfer) = "arib-std-b67" -> "hlg"
      [] OTHER -> "sdr"

\* What one entry of the side data list makes of the format found so far.
WithSideData(format, entry) ==
    CASE entry \in {"mastering", "light"} -> IF format = "sdr" THEN "hdr10" ELSE format
      [] entry = "hdr10plus" -> "hdr10plus"
      [] entry = "dovi" -> "dolby_vision"
      [] OTHER -> format

\* detectHDR: the entries are applied in the order ffprobe lists them.
DetectHDR(s) == FoldLeft(WithSideData, TransferFormat(s.transfer), s.side)

ParseStream(s) ==
    [kind |-> s.kind, codec |-> s.codec, w |-> s.w, h |-> s.h,
     fps |-> ParseRational(s.nominal), vfr |-> IsVFR(s.nominal, s.average),
     rotation |-> s.rotate, primaries |-> s.primaries, transfer |-> s.transfer,
     matrix |-> s.matrix, range |-> s.range, hdr |-> DetectHDR(s), channels |-> s.channels]

\* Parse of a file: its duration in milliseconds and its streams.
Parse(file) ==
    [ms |-> file.ms,
     tracks |-> [i \in 1 .. Len(file.streams) |-> ParseStream(file.streams[i])]]

\* videoTrack, audioTrack and trackOf: the first track of a kind, as a sequence of
\* at most one.
TrackOf(media, kind) ==
    LET found == {i \in DOMAIN media.tracks : media.tracks[i].kind = kind}
    IN  IF found = {} THEN <<>> ELSE <<media.tracks[Min(found)]>>
=============================================================================

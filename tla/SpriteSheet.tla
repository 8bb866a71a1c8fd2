---------------------------- MODULE SpriteSheet ----------------------------
(***************************************************************************)
(* The arithmetic of the scrubbing strip in agent/thumbnail.go: how often  *)
(* a thumbnail is taken, how many there are, how they are laid out in one  *)
(* sheet, and the index that assigns a region of the sheet to each moment. *)
(***************************************************************************)
EXTENDS Integers, FiniteSets

CONSTANTS
    MaxThumbnails,  \* maxThumbnails
    DefaultColumns  \* defaultColumns; planned specs do not name their own

ASSUME SpriteAssumption ==
    /\ MaxThumbnails \in Nat \ {0} /\ DefaultColumns \in Nat \ {0}

minIntervalS == 1

VARIABLE ms   \* the programme's duration, 0 when the probe did not say

\* int(duration.Seconds()) drops the fraction.
Seconds == ms \div 1000

Max2(a, b) == IF a >= b THEN a ELSE b

\* Faulty variant of ThumbnailInterval: the division rounds down.
ThumbnailIntervalDown == Max2(minIntervalS, Seconds \div MaxThumbnails)

\* thumbnailInterval
ThumbnailInterval == Max2(minIntervalS, (Seconds + MaxThumbnails - 1) \div MaxThumbnails)

\* thumbnailCount
ThumbnailCount == Max2(1, Seconds \div ThumbnailInterval)

Columns == IF DefaultColumns <= ThumbnailCount THEN DefaultColumns ELSE ThumbnailCount

Rows == (ThumbnailCount + Columns - 1) \div Columns

\* SpriteIndex: the cue of each tile, in seconds and in tiles.
SpriteIndex ==
    [i \in 0 .. ThumbnailCount - 1 |->
       [start |-> i * ThumbnailInterval, end |-> (i + 1) * ThumbnailInterval,
        column |-> i % Columns, row |-> i \div Columns]]

----------------------------------------------------------------------------

\* thumbnail.go: the interval stretches to keep a sheet a sensible size, at every
\* duration, and not further than it has to: a sheet at the limit's edge is never
\* less than half full.
SheetIsSensible ==
    /\ ThumbnailCount <= MaxThumbnails
    /\ Seconds >= MaxThumbnails => 2 * ThumbnailCount >= MaxThumbnails
    /\ Columns * (Rows - 1) < ThumbnailCount /\ ThumbnailCount <= Columns * Rows

\* Every moment has the region of its own tile: the cues follow each other without
\* gap or overlap from the start, no cue begins after the end or, once there is a
\* whole second of programme, runs past it, less than one interval is left without
\* a cue, and no two cues share a tile or point outside the sheet.
IndexIsExact ==
    LET last == ThumbnailCount - 1
    IN  /\ SpriteIndex[0].start = 0
        /\ \A i \in 1 .. last : SpriteIndex[i].start = SpriteIndex[i - 1].end
        /\ Seconds > 0 => SpriteIndex[last].end * 1000 <= ms
        /\ ms - SpriteIndex[last].end * 1000 < 1000 * (ThumbnailInterval + 1)
        /\ \A i \in 0 .. last : SpriteIndex[i].column < Columns /\ SpriteIndex[i].row < Rows
        /\ Cardinality({ <<SpriteIndex[i].column, SpriteIndex[i].row>> : i \in 0 .. last })
             = ThumbnailCount

\* The strip is right at every duration, the edges of the interval's rounding
\* included: the sheet keeps its limit and the index is exact.
StripIsRight == SheetIsSensible /\ IndexIsExact
============================================================================

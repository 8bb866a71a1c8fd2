----------------------------- MODULE Keyframes -----------------------------
(***************************************************************************)
(* Where an encode configured by internal/encode/args.go puts keyframes.   *)
(* Two of its options place them: -g, a number of frames, and              *)
(* -force_key_frames, a time grid; scene cuts are off. The encoder         *)
(* (external) starts a new group when either says so, and -r makes its     *)
(* frames run at the configured rate.                                      *)
(***************************************************************************)
EXTENDS EncodeConfig, FiniteSets

CONSTANTS
    Rates,     \* frame rates considered, pairs <<num, den>>
    Interval   \* keyframe interval and segment length, in seconds

ASSUME KeyframesAssumption ==
    Rates \subseteq (Nat \ {0}) \X (Nat \ {0}) /\ Interval \in Nat \ {0}

VARIABLES
    fps,      \* the rate in the configuration
    frame,    \* frames encoded
    last,     \* the latest keyframe, -1 before the first frame
    forced,   \* keyframes forced by the time grid so far
    offgrid   \* keyframes the grid did not ask for

KeyframesInit == fps \in Rates /\ frame = 0 /\ last = -1 /\ forced = 0 /\ offgrid = {}

\* expr:gte(t,n_forced*Interval) for frame i, whose time is i * den / num.
Forces(i) == i * fps[2] >= forced * Interval * fps[1]

\* The group before frame i is as long as -g allows.
GroupIsFull(i) == last >= 0 /\ i - last >= Gop(Interval, fps)

EncodeFrame ==
    /\ last' = IF Forces(frame) \/ GroupIsFull(frame) THEN frame ELSE last
    /\ forced' = IF Forces(frame) THEN forced + 1 ELSE forced
    /\ offgrid' = IF GroupIsFull(frame) /\ ~Forces(frame) THEN offgrid \cup {frame}
                                                          ELSE offgrid
    /\ frame' = frame + 1
    /\ UNCHANGED fps

\* Segments are cut on a time grid, and keyframes keep to it: at a whole frame rate
\* the group length in frames that Args derives from the interval never puts one in
\* between; at a fractional rate, where it is rounded down, it puts at most one in
\* each segment, right before the keyframe that is forced anyway.
KeyframesOnGrid ==
    /\ fps[2] = 1 => offgrid = {}
    /\ Cardinality(offgrid) <= forced
    /\ \A f \in offgrid : f + 1 < frame => last >= f + 1
============================================================================

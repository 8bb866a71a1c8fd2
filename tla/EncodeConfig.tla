---------------------------- MODULE EncodeConfig ----------------------------
(***************************************************************************)
(* internal/encode: which configurations Validate accepts, and the frame   *)
(* counts Args derives from one. A configuration is a record; the fields   *)
(* the planner sets to one literal of the vocabulary (container, codec,    *)
(* profile, preset, pixel format, rate control) are valid by that and are  *)
(* left out. A rate is a pair <<num, den>>, <<0, 0>> when it is not known. *)
(***************************************************************************)
EXTENDS Integers

maxDimension == 7680
maxFPS == 240
maxCRF == 63
maxBitrateBPS == 400000000

NoRate == <<0, 0>>

\* The colour values of the encoder's vocabulary; "" is a value not stated.
colorPrimaries == {"", "bt709", "bt470bg", "smpte170m", "bt2020"}
colorTransfers == {"", "bt709", "smpte170m", "smpte2084", "arib-std-b67", "bt2020-10",
                   "bt2020-12"}
colorMatrices == {"", "bt709", "bt470bg", "smpte170m", "bt2020nc", "bt2020c"}
colorRanges == {"", "tv", "pc"}

\* ColorConfig.validate, and with it Supported.
Supported(c) ==
    /\ c.primaries \in colorPrimaries /\ c.transfer \in colorTransfers
    /\ c.matrix \in colorMatrices /\ c.range \in colorRanges

\* A ColorConfig with what is stated of a stream or a track, and with nothing.
ColorConfig(t) ==
    [primaries |-> t.primaries, transfer |-> t.transfer, matrix |-> t.matrix, range |-> t.range]
NoColor == [primaries |-> "", transfer |-> "", matrix |-> "", range |-> ""]

\* VideoConfig.validate.
ValidVideo(v) ==
    /\ v.w \in 1 .. maxDimension /\ v.h \in 1 .. maxDimension
    /\ v.w % 2 = 0 /\ v.h % 2 = 0
    /\ v.fps # NoRate => /\ v.fps[1] > 0 /\ v.fps[2] > 0
                         /\ v.fps[1] <= maxFPS * v.fps[2]
    /\ v.crf \in 0 .. maxCRF
    /\ v.maxrate \in 0 .. maxBitrateBPS
    /\ Supported(v.color)

\* AudioConfig.validate: -1 channels stands for no audio.
ValidAudio(channels) == channels = -1 \/ channels \in 0 .. 16

Validate(c) == ValidVideo(c) /\ ValidAudio(c.channels)

----------------------------------------------------------------------------

\* The frame rate the keyframe hint is computed from: 30 when none is stated.
EffectiveFPS(fps) == IF fps = NoRate THEN <<30, 1>> ELSE fps

\* Faulty variant of Gop: half the keyframe interval.
GopHalved(seconds, fps) ==
    LET gop == (seconds * EffectiveFPS(fps)[1]) \div (2 * EffectiveFPS(fps)[2])
    IN  IF gop < 1 THEN 1 ELSE gop

\* The GOP length, in frames, for a keyframe interval in seconds: truncated.
Gop(seconds, fps) ==
    LET gop == (seconds * EffectiveFPS(fps)[1]) \div EffectiveFPS(fps)[2]
    IN  IF gop < 1 THEN 1 ELSE gop
=============================================================================

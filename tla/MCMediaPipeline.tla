-------------------------- MODULE MCMediaPipeline --------------------------
(* Source files for MediaPipeline. *)
EXTENDS MediaPipeline

Stream(w, h) ==
    [kind |-> "video", codec |-> "hevc", w |-> w, h |-> h, nominal |-> <<30, 1>>,
     average |-> <<30, 1>>, rotate |-> 0, primaries |-> "bt709", transfer |-> "bt709",
     matrix |-> "bt709", range |-> "tv", side |-> <<>>, channels |-> 0]

AudioStream(channels) ==
    [Stream(0, 0) EXCEPT !.kind = "audio", !.codec = "ac3", !.channels = channels]

File(streams) == [ms |-> 60000, streams |-> streams]

\* Around every rung and every limit of the encoder.
Sides == {2, 3, 100, 359, 360, 361, 480, 640, 719, 853, 1080, 1279, 1920, 2160, 7680, 7682}

\* Every shape, with sound and without.
Shapes == {File(<<Stream(w, h)>>) : w \in Sides, h \in Sides}
            \cup {File(<<AudioStream(6), Stream(w, w)>>) : w \in Sides}
            \cup {File(<<AudioStream(2)>>)}

\* Sources of a few shapes and of every colour the planner can state.
Colours ==
    {File(<<[Stream(s[1], s[2]) EXCEPT !.transfer = t, !.primaries = p], AudioStream(c)>>) :
       s \in {<<1920, 1080>>, <<608, 1080>>, <<300, 200>>}, c \in {0, 1, 6},
       t \in {"", "bt709", "smpte2084", "arib-std-b67"}, p \in {"", "bt709", "bt2020"}}

\* HDR and not, by every name, with a matrix and a range that the encoder knows, that
\* it does not, or that are not stated.
Tagged ==
    {File(<<[Stream(854, 480) EXCEPT !.transfer = t, !.matrix = m, !.range = r]>>) :
       t \in {"bt709", "smpte2084", "SMPTE2084", "smpte st 2084", "arib-std-b67"},
       m \in {"", "bt2020nc", "ictcp", "gbr"}, r \in {"", "pc", "unknown"}}

\* A phone held any way, recording dynamic HDR or not.
Phones ==
    {File(<<[Stream(1920, 1080) EXCEPT !.rotate = r, !.transfer = "smpte2084", !.side = s]>>) :
       r \in {0, 90, 180, 270}, s \in {<<>>, <<"dovi">>, <<"hdr10plus">>, <<"hdr10plus", "dovi">>}}

\* What a property has to make an exception for: formats that are stated beside the
\* stream or that the encoder has no word for, short sources, and slivers.
Odd ==
    {File(<<[Stream(854, 480) EXCEPT !.transfer = t, !.primaries = p, !.side = s]>>) :
       t \in {"bt709", "smpte2084", "gamma28"}, p \in {"bt2020", "ebu3213"},
       s \in {<<>>, <<"mastering">>, <<"light", "mastering">>, <<"other">>}}
    \cup {[File(<<Stream(854, 480)>>) EXCEPT !.ms = d] : d \in {0, 1, 1000, 1001}}
    \cup {File(<<Stream(s[1], s[2])>>) : s \in {<<1, 1>>, <<1, 1080>>, <<1920, 1>>, <<0, 0>>}}

AllSources == Shapes \cup Colours \cup Tagged \cup Phones \cup Odd
============================================================================

------------------------------ MODULE Planning ------------------------------
(***************************************************************************)
(* internal/pipeline and internal/validate: the presets, the task graph    *)
(* Plan derives from a preset and a probed source, and the checks an       *)
(* output is put through. Sizes are computed exactly, with rationals as    *)
(* pairs of integers, where the code computes in float64. Operators only.  *)
(***************************************************************************)
EXTENDS ProbeTrack, FiniteSets

Rung(label, w, h, crf, maxrate) ==
    [label |-> label, w |-> w, h |-> h, crf |-> crf, maxrate |-> maxrate]

Ladder ==
    << Rung("1080p", 1920, 1080, 22, 8000000), Rung("720p", 1280, 720, 23, 4000000),
       Rung("480p", 854, 480, 24, 1800000), Rung("360p", 640, 360, 25, 900000) >>

Presets ==
    [probe |-> [ladder |-> <<>>, package |-> FALSE],
     transcode |-> [ladder |-> <<Rung("720p", 1280, 720, 23, 4000000)>>, package |-> FALSE],
     ladder |-> [ladder |-> Ladder, package |-> FALSE],
     stream |-> [ladder |-> Ladder, package |-> TRUE]]

NeedsProbe(p) == Presets[p].ladder # <<>>

----------------------------------------------------------------------------
(* Sizes *)

\* even of p/q: the nearest even number, ties downwards, at least 2.
Even(p, q) ==
    LET n == 2 * (-((q - p) \div (2 * q)))
    IN  IF n < 2 THEN 2 ELSE n

\* fit: the size of rung r for a source of w x h.
Fit(r, w, h) ==
    IF w <= 0 \/ h <= 0 THEN <<Even(r.w, 1), Even(r.h, 1)>>
    ELSE IF w <= r.w /\ h <= r.h THEN <<Even(w, 1), Even(h, 1)>>
    ELSE IF r.w * h <= r.h * w
         THEN <<Even(r.w, 1), Even(h * r.w, w)>>
         ELSE <<Even(w * r.h, h), Even(r.h, 1)>>

\* The loop of rungsFor: Filled(ladder, h)[i] are the rungs among the first i that
\* a source of height h can fill. A height of 0 is not known.
Filled(ladder, h) ==
    LET kept[i \in 0 .. Len(ladder)] ==
          IF i = 0 THEN <<>>
          ELSE IF h > 0 /\ ladder[i].h > h THEN kept[i - 1]
          ELSE Append(kept[i - 1], ladder[i])
    IN  kept

\* rungsFor: the rungs the source can fill, or the smallest at the source's size.
RungsFor(ladder, v) ==
    LET filled == Filled(ladder, v.h)[Len(ladder)]
    IN  IF filled # <<>> \/ ladder = <<>> THEN filled
        ELSE << [Last(ladder) EXCEPT !.w = v.w, !.h = v.h] >>

\* colorOf: the source's colour if the encoder knows all of it.
ColorOf(v) == IF Supported(ColorConfig(v)) THEN ColorConfig(v) ELSE NoColor

----------------------------------------------------------------------------
(* Plan *)

\* The configuration of one rung: -1 channels when the source has no audio.
ConfigFor(rung, v, media) ==
    LET size == Fit(rung, v.w, v.h)
        audio == TrackOf(media, "audio")
    IN  [w |-> size[1], h |-> size[2], crf |-> rung.crf, maxrate |-> rung.maxrate,
         fps |-> IF v.fps[1] > 0 /\ v.fps[2] > 0 THEN v.fps ELSE NoRate,
         color |-> ColorOf(v),
         channels |-> IF audio = <<>> THEN -1
                      ELSE IF audio[1].channels < 2 THEN audio[1].channels ELSE 2]

\* What validation is told to expect of the rung's output. An hdr of "" and a
\* duration of 0 are not checked.
ExpectationFor(rung, cfg, v, media) ==
    [label |-> rung.label, codec |-> "h264", w |-> cfg.w, h |-> cfg.h, ms |-> media.ms,
     audio |-> IF cfg.channels = -1 THEN "" ELSE "aac", hdr |-> v.hdr]

NoPlan == [error |-> TRUE, configs |-> <<>>, expect |-> <<>>, tasks |-> <<>>]

Task(key, deps) == [key |-> key, deps |-> deps]

\* Faulty variant of PlanTasks: packaging waits for the encodes only.
PlanTasksEager(p, labels) ==
    LET encodes == [i \in 1 .. Len(labels) |-> Task(<<"encode", labels[i]>>, {})]
        keys == {encodes[i].key : i \in DOMAIN encodes}
    IN  encodes
        \o (IF Presets[p].package THEN <<Task(<<"thumbnails">>, {})>> ELSE <<>>)
        \o <<Task(<<"validate">>, keys)>>
        \o (IF Presets[p].package THEN <<Task(<<"package">>, keys)>> ELSE <<>>)

\* The task graph over the planned renditions.
PlanTasks(p, labels) ==
    LET encodes == [i \in 1 .. Len(labels) |-> Task(<<"encode", labels[i]>>, {})]
        keys == {encodes[i].key : i \in DOMAIN encodes}
    IN  encodes
        \o (IF Presets[p].package THEN <<Task(<<"thumbnails">>, {})>> ELSE <<>>)
        \o <<Task(<<"validate">>, keys)>>
        \o (IF Presets[p].package THEN <<Task(<<"package">>, keys \cup {<<"validate">>})>>
                                  ELSE <<>>)

\* Plan of preset p for a source: an error when it has no video track or a rung's
\* configuration is refused.
Plan(p, media) ==
    IF ~NeedsProbe(p)
    THEN [NoPlan EXCEPT !.error = FALSE, !.tasks = <<Task(<<"probe">>, {})>>]
    ELSE IF TrackOf(media, "video") = <<>> THEN NoPlan
    ELSE LET v == TrackOf(media, "video")[1]
             rungs == RungsFor(Presets[p].ladder, v)
             configs == [i \in DOMAIN rungs |-> ConfigFor(rungs[i], v, media)]
         IN  IF \E i \in DOMAIN configs : ~Validate(configs[i]) THEN NoPlan
             ELSE [error |-> FALSE, configs |-> configs,
                   expect |-> [i \in DOMAIN rungs |->
                                 ExpectationFor(rungs[i], configs[i], v, media)],
                   tasks |-> PlanTasks(p, [i \in DOMAIN rungs |-> rungs[i].label])]

----------------------------------------------------------------------------
(* Validation *)

DurationToleranceMS == 500

\* Faulty variant of Compare: an output may be short.
CompareNoDuration(exp, actual) ==
    LET video == TrackOf(actual, "video")
        audio == TrackOf(actual, "audio")
    IN  IF video = <<>> THEN {"video_present"}
        ELSE {c \in {"codec", "resolution", "audio_present", "audio_codec", "hdr_format"} :
                CASE c = "codec" -> video[1].codec # exp.codec
                  [] c = "resolution" -> video[1].w # exp.w \/ video[1].h # exp.h
                  [] c = "audio_present" -> exp.audio # "" /\ audio = <<>>
                  [] c = "audio_codec" -> exp.audio # "" /\ audio # <<>>
                                          /\ audio[1].codec # exp.audio
                  [] c = "hdr_format" -> exp.hdr # "" /\ video[1].hdr # exp.hdr}

\* Compare: the checks of the expectation that the probed output fails.
Compare(exp, actual) ==
    LET video == TrackOf(actual, "video")
        audio == TrackOf(actual, "audio")
        drift == IF actual.ms < exp.ms THEN exp.ms - actual.ms ELSE actual.ms - exp.ms
    IN  IF video = <<>> THEN {"video_present"}
        ELSE {c \in {"codec", "resolution", "duration", "audio_present", "audio_codec",
                     "hdr_format"} :
                CASE c = "codec" -> video[1].codec # exp.codec
                  [] c = "resolution" -> video[1].w # exp.w \/ video[1].h # exp.h
                  [] c = "duration" -> exp.ms > 0 /\ drift > DurationToleranceMS
                  [] c = "audio_present" -> exp.audio # "" /\ audio = <<>>
                  [] c = "audio_codec" -> exp.audio # "" /\ audio # <<>>
                                          /\ audio[1].codec # exp.audio
                  [] c = "hdr_format" -> exp.hdr # "" /\ video[1].hdr # exp.hdr}

\* CheckIntegrity: the stored bytes are the ones registered. Bytes are compared as
\* a whole; equal bytes have equal sizes and checksums.
CheckIntegrity(registered, fetched) == IF registered = fetched THEN {} ELSE {"checksum"}
=============================================================================

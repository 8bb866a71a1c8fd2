---------------------------- MODULE MediaPipeline ----------------------------
(***************************************************************************)
(* One source through the pipeline: it is probed, a job is created for it  *)
(* with a preset, its renditions are encoded and the outputs are           *)
(* validated. Composes ProbeTrack, Planning and EncodeConfig; the media    *)
(* tools are external and do what their arguments say, except that a       *)
(* bounded number of outputs may come out damaged.                         *)
(***************************************************************************)
EXTENDS Planning

CONSTANTS
    Sources,     \* source files, as ffprobe describes them
    Damages,     \* how an output may come out wrong
    MaxDamaged   \* outputs that do

\* What ffprobe says of a stream and of a file. A size, a rate, a duration of 0 is
\* one it could not tell.
Streams == [kind : STRING, codec : STRING, w : Nat, h : Nat, nominal : Nat \X Nat,
            average : Nat \X Nat, rotate : Int, primaries : STRING, transfer : STRING,
            matrix : STRING, range : STRING, side : Seq(STRING), channels : Nat]
Files == [ms : Nat, streams : Seq(Streams)]

ASSUME PipelineAssumption ==
    /\ Sources \subseteq Files
    /\ Damages \subseteq {"truncated", "silent", "resized", "corrupted"}
    /\ MaxDamaged \in Nat

VARIABLES
    source,    \* the uploaded file
    verified,  \* its upload has been completed and checked
    probe,     \* <<>> or <<the stored probe>>
    job,       \* the preset of the job, "none" before there is one
    answer,    \* the last answer to a request for a job
    plan,      \* what Plan returned for the job
    outputs,   \* outputs[i]: <<>> or <<the output of rendition i>>
    verdict    \* of the validate task: "none", "passed" or "failed"

pipelineVars == <<source, verified, probe, job, answer, plan, outputs, verdict>>

Answers == {"none", "source_unverified", "probe_required", "cannot_plan", "created"}

\* What ffmpeg makes of a source file with configuration cfg. Colour that is stated
\* is tagged; colour that is not is up to the build. Side data is not kept by the
\* h264 encoder.
Encodings(original, cfg) ==
    LET in == TrackOf(Parse(original), "video")[1]
        Tags == IF cfg.color # NoColor THEN {cfg.color}
                ELSE {NoColor, ColorConfig(in)}
        Video(tag) ==
          [kind |-> "video", codec |-> "h264", w |-> cfg.w, h |-> cfg.h,
           nominal |-> cfg.fps, average |-> cfg.fps, rotate |-> 0,
           primaries |-> tag.primaries, transfer |-> tag.transfer, matrix |-> tag.matrix,
           range |-> tag.range, side |-> <<>>, channels |-> 0]
        Audio == [Video(NoColor) EXCEPT !.kind = "audio", !.codec = "aac",
                                        !.channels = cfg.channels]
    IN  { [ms |-> original.ms, intact |-> TRUE,
           streams |-> IF cfg.channels = -1 THEN <<Video(tag)>> ELSE <<Video(tag), Audio>>]
          : tag \in Tags }

\* The same output, damaged: cut short, without sound, at another size, or changed
\* in storage after it was registered.
Damaged(file, d) ==
    CASE d = "truncated" -> [file EXCEPT !.ms = @ \div 2]
      [] d = "silent"    -> [file EXCEPT !.streams = SubSeq(@, 1, 1)]
      [] d = "resized"   -> [file EXCEPT !.streams[1].h = @ + 2]
      [] d = "corrupted" -> [file EXCEPT !.intact = FALSE]

Honest(i) == outputs[i] # <<>> /\ outputs[i][1] \in Encodings(source, plan.configs[i])

PipelineInit ==
    /\ source \in Sources /\ verified = FALSE /\ probe = <<>>
    /\ job = "none" /\ answer = "none" /\ plan = NoPlan
    /\ outputs = <<>> /\ verdict = "none"

----------------------------------------------------------------------------

\* The upload completes (see Upload).
VerifySource ==
    /\ ~verified /\ verified' = TRUE
    /\ UNCHANGED <<source, probe, job, answer, plan, outputs, verdict>>

\* The probe job is done: probe.Store.Record replaces what was stored.
RecordProbe ==
    /\ verified /\ probe' = <<Parse(source)>>
    /\ UNCHANGED <<source, verified, job, answer, plan, outputs, verdict>>

\* handleCreateJob: a verified source, a probe if the preset plans against one,
\* and a plan.
CreateJob(p) ==
    /\ job = "none"
    /\ \/ ~verified /\ answer' = "source_unverified" /\ UNCHANGED <<job, plan, outputs>>
       \/ /\ verified /\ NeedsProbe(p) /\ probe = <<>>
          /\ answer' = "probe_required" /\ UNCHANGED <<job, plan, outputs>>
       \/ /\ verified /\ (NeedsProbe(p) => probe # <<>>)
          /\ LET result == Plan(p, IF NeedsProbe(p) THEN probe[1] ELSE Parse(source))
             IN  IF result.error
                 THEN answer' = "cannot_plan" /\ UNCHANGED <<job, plan, outputs>>
                 ELSE /\ answer' = "created" /\ job' = p /\ plan' = result
                      /\ outputs' = [i \in DOMAIN result.configs |-> <<>>]
    /\ UNCHANGED <<source, verified, probe, verdict>>

\* An encode task succeeds.
Encode(i) ==
    /\ outputs[i] = <<>>
    /\ \E file \in Encodings(source, plan.configs[i]) :
         \/ outputs' = [outputs EXCEPT ![i] = <<file>>]
         \/ /\ Cardinality({k \in DOMAIN outputs : outputs[k] # <<>> /\ ~Honest(k)}) < MaxDamaged
            /\ \E d \in Damages :
                 /\ d = "silent" => plan.configs[i].channels >= 0
                 /\ outputs' = [outputs EXCEPT ![i] = <<Damaged(file, d)>>]
    /\ UNCHANGED <<source, verified, probe, job, answer, plan, verdict>>

\* The validate task: every expected output is there, is the one that was
\* registered, and is what was asked for.
ValidateOutputs ==
    /\ plan.expect # <<>> /\ verdict = "none"
    /\ \A i \in DOMAIN outputs : outputs[i] # <<>>
    /\ verdict' = IF \A i \in DOMAIN outputs :
                       /\ CheckIntegrity(TRUE, outputs[i][1].intact) = {}
                       /\ Compare(plan.expect[i], Parse(outputs[i][1])) = {}
                  THEN "passed" ELSE "failed"
    /\ UNCHANGED <<source, verified, probe, job, answer, plan, outputs>>

PipelineNext ==
    \/ VerifySource \/ RecordProbe
    \/ \E p \in DOMAIN Presets : CreateJob(p)
    \/ \E i \in DOMAIN outputs : Encode(i)
    \/ ValidateOutputs

PipelineSpec == PipelineInit /\ [][PipelineNext]_pipelineVars

----------------------------------------------------------------------------
(* Properties *)

PipelineTypeOK ==
    /\ source \in Sources /\ verified \in BOOLEAN /\ Len(probe) <= 1
    /\ job \in DOMAIN Presets \cup {"none"} /\ answer \in Answers
    /\ DOMAIN outputs = DOMAIN plan.configs /\ DOMAIN plan.expect = DOMAIN plan.configs
    /\ verdict \in {"none", "passed", "failed"}

Video == TrackOf(Parse(source), "video")[1]

\* There is a plan for a picture of some size. A side of 1 is encoded as 2.
Planned == job # "none" /\ NeedsProbe(job)
HasPicture == Video.w >= 2 /\ Video.h >= 2

\* Renditions are worth choosing between: a ladder has at least one, none is
\* larger than the source in either dimension, and each is smaller than the one
\* before it. Sizes are even.
RenditionsDescend ==
    (Planned /\ HasPicture) =>
      /\ plan.configs # <<>>
      /\ \A i \in DOMAIN plan.configs :
           LET c == plan.configs[i] IN
           /\ c.w <= Video.w /\ c.h <= Video.h /\ c.w % 2 = 0 /\ c.h % 2 = 0
           /\ i > 1 => /\ c.w <= plan.configs[i - 1].w /\ c.h <= plan.configs[i - 1].h
                       /\ <<c.w, c.h>> # <<plan.configs[i - 1].w, plan.configs[i - 1].h>>

\* Keys are unique, a task only waits for tasks before it, validation waits for
\* every encode and expects exactly its label, and nothing but a thumbnail is made
\* from unvalidated renditions: packaging comes after validation.
GraphIsSound ==
    LET tasks == plan.tasks
        Key(i) == tasks[i].key
        Position(k) == CHOOSE i \in DOMAIN tasks : Key(i) = k
        encodes == {i \in DOMAIN tasks : Key(i)[1] = "encode"}
    IN  /\ \A i, k \in DOMAIN tasks : Key(i) = Key(k) => i = k
        /\ \A i \in DOMAIN tasks : \A d \in tasks[i].deps :
             \E k \in 1 .. i - 1 : Key(k) = d
        /\ Planned =>
             /\ {Key(i) : i \in encodes} = tasks[Position(<<"validate">>)].deps
             /\ {Key(i)[2] : i \in encodes}
                  = {plan.expect[i].label : i \in DOMAIN plan.expect}
             /\ \A i \in DOMAIN tasks : Key(i) = <<"package">> =>
                  <<"validate">> \in tasks[i].deps

\* A rendition has the shape of the picture it shows, up to the rounding of its
\* size. This is said of sources that are shown as they are stored: the size is
\* planned from the stored picture, and ffmpeg turns a rotated one first.
ShapeKept ==
    (Planned /\ HasPicture /\ Video.rotation \in {0, 180}) =>
      \A i \in DOMAIN plan.configs :
        LET c == plan.configs[i]
            skew == c.w * Video.h - c.h * Video.w
            rounding == 2 * (Video.w + Video.h)
        IN  skew <= rounding /\ -skew <= rounding

\* The encode can give the output the HDR format of the source: the format is the
\* one of its transfer characteristics, and the encoder has a word for them and for
\* the primaries, the matrix and the range beside them, since colorOf drops all four
\* for one it does not know. Metadata beside the stream is not carried over although
\* the check asks for what it says.
FormatIsKept ==
    /\ Video.hdr = TransferFormat(Video.transfer)
    /\ Video.hdr = "sdr" \/ Supported(ColorConfig(Video))

\* Validation expects what was asked for: when every encode does exactly what its
\* configuration says and can keep the format of the source, the set passes.
HonestEncodePasses ==
    (verdict # "none" /\ FormatIsKept /\ \A i \in DOMAIN outputs : Honest(i))
      => verdict = "passed"

\* A set with a damaged output does not pass. This is said of sources long enough
\* for half of them to be missed.
DamageIsCaught ==
    (verdict = "passed" /\ source.ms > 2 * DurationToleranceMS)
      => \A i \in DOMAIN outputs : Honest(i)

\* A plan can be carried out and is worth it: its renditions, their shapes and the
\* graph of its tasks.
PlanIsSound == PipelineTypeOK /\ RenditionsDescend /\ ShapeKept /\ GraphIsSound

\* The verdict on a finished set is the right one, both ways.
VerdictIsRight == HonestEncodePasses /\ DamageIsCaught
==============================================================================

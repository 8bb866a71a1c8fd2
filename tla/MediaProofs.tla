---------------------------- MODULE MediaProofs -----------------------------
(***************************************************************************)
(* Proofs about Executors, MediaRun and MediaTask, for any renditions, any *)
(* number of attempts and faults, any processes and any grace period: what *)
(* an executor reports as done is whole, what it blames on the media is    *)
(* the media's doing, and a run of a tool is over when Run returns.        *)
(***************************************************************************)
EXTENDS MediaTask, TLAPS

USE ExecutorsAssumption, RunAssumption

----------------------------------------------------------------------------
(* The invariant of the executors *)

\* An executor is where its operation goes, and has nothing in storage before it
\* uploads; from then on a file is either stored or still to be sent.
Placed ==
    /\ kind = "encode" => pc \notin {"fetch", "check", "poster"}
    /\ kind = "package" => pc \notin {"check", "poster"}
    /\ kind = "thumbnail" => pc \notin {"fetch", "check"}
    /\ kind = "validate" => pc \in {"start", "fetch", "check", "returned"}
    /\ kind = "probe" => pc \in {"start", "tool", "returned"}
    /\ pc \notin {"upload", "returned"} => stored = {}
    /\ pc = "upload" => todo \subseteq made /\ made \subseteq stored \cup todo
    /\ state # "running" => pc = "returned"

\* Files come from a tool that succeeded, so the media was sound.
MadeFromMedia ==
    /\ pc \in {"inspect", "upload"} => sound
    /\ kind = "encode" /\ pc \in {"inspect", "upload"} => made = {"output"}
    /\ kind = "thumbnail" /\ pc = "upload" => made = ThumbnailFiles
    /\ kind = "package" /\ pc \notin {"start", "returned"} => given # {}
    /\ kind \in {"validate", "probe"} => made = {}
    /\ kind = "probe" => todo = {}

\* A validation without a failing check has seen every output it was given, except
\* those it has still to fetch; a failing check has a cause.
Validated ==
    /\ kind = "validate" /\ pc = "fetch" /\ ~failing => given = Labels /\ (sound \/ todo = given)
    /\ kind = "validate" /\ pc = "check" /\ ~failing => given = Labels
    /\ kind = "validate" /\ failing => ~sound \/ given # Labels \/ faults["host"] > 0 \/ ~live

\* Why an executor returned what it did.
Blamed ==
    /\ out = "permanent_config" => ~spec \/ (kind = "package" /\ given = {})
    /\ kind = "package" /\ out = "permanent_input" => ~sound \/ faults["host"] > 0
    /\ kind \in ReadsFromUrl /\ out = "permanent_input" =>
         ~sound \/ faults["host"] > 0 \/ faults["storage"] > 0
    /\ out = "permanent_input" => stored = {}
    /\ out = "ctx" => ~live
    /\ state = "failed" => live /\ ~Retrying(Class, attempt, MaxAttempts)

ExecutorInvariant ==
    /\ TypeOK /\ Placed /\ MadeFromMedia /\ Validated /\ Blamed
    /\ SuccessIsWhole /\ VerdictIsFair

----------------------------------------------------------------------------
(* The invariant of a run *)

\* A run is under way only where the executor calls Run. Until the tool has exited,
\* and until nobody holds the pipes, Run does not get past its waits; a signal is
\* only ever sent after the context has ended.
RunInvariant ==
    /\ TaskTypeOK
    /\ ~CallsRun => main = "idle"
    /\ main = "idle" => alive = {} /\ pipes = {} /\ exit = "none" /\ result = "none" /\ killer = "done"
    /\ main # "idle" => (exit = "none" <=> Leader \in alive)
    /\ main # "idle" => \A g \in Tool!Readers : reader[g] = "done" => pipes = {}
    /\ main \in {"wait", "stopped", "returned"} => pipes = {}
    /\ main \in {"stopped", "returned"} => exit # "none"
    /\ exit = "signal" \/ killer = "grace" => ~live
    /\ result # "none" => main = "returned"
    /\ SignalIsNotFailure

----------------------------------------------------------------------------
(* The steps executors are made of *)

\* Faults are only ever counted up.
LEMMA FaultCounted ==
    ASSUME TypeOK, NEW f \in Faults, Fault(f)
    PROVE  /\ faults' \in [Faults -> Nat] /\ faults'["host"] >= faults["host"]
           /\ faults'["storage"] >= faults["storage"]
           /\ f \in {"host", "storage"} => faults'[f] > 0
<1>1. faults \in [Faults -> Nat] /\ {"host", "storage"} \subseteq Faults
  BY DEF TypeOK, Faults
<1> QED
  BY <1>1 DEF Fault

\* What may happen to the counters in any step.
Counted ==
    /\ faults' \in [Faults -> Nat] /\ faults'["host"] >= faults["host"]
    /\ faults'["storage"] >= faults["storage"]

LEMMA NotCounted ==
    ASSUME TypeOK, faults' = faults
    PROVE  Counted
BY DEF TypeOK, Counted, Faults

\* Before it returns, an executor is running and has no outcome.
LEMMA NotYet ==
    ASSUME ExecutorInvariant, pc # "returned"
    PROVE  out = "none" /\ state = "running"
BY DEF ExecutorInvariant, TypeOK, Placed

\* An executor may return o.
MayReturn(o) ==
    /\ o \in Outcomes \ {"none"}
    /\ o = "success" =>
         /\ stored = made /\ todo = {} /\ sound
         /\ kind = "encode" => made = {"output"}
         /\ kind = "package" => given # {} /\ {"hls", "dash"} \subseteq made
         /\ kind = "thumbnail" => made = ThumbnailFiles
         /\ kind = "validate" => given = Labels
    /\ o = "permanent_config" => ~spec \/ (kind = "package" /\ given = {})
    /\ o = "permanent_input" =>
         /\ kind # "validate" => live
         /\ stored = {}
         /\ kind = "package" => ~sound \/ faults'["host"] > 0
         /\ kind \in ReadsFromUrl => ~sound \/ faults'["host"] > 0 \/ faults'["storage"] > 0
         /\ kind = "validate" => ~sound \/ given # Labels \/ faults'["host"] > 0 \/ ~live
    /\ o = "ctx" => ~live

\* Returning keeps the invariant.
LEMMA ReturnStep ==
    ASSUME ExecutorInvariant, NEW o, pc # "returned", Return(o), MayReturn(o), Counted,
           UNCHANGED <<todo, made, failing>>,
           stored' \subseteq made, o \in {"success", "permanent_input"} => stored' = stored
    PROVE  ExecutorInvariant'
<1>1. out = "none" /\ state = "running"
  BY NotYet
<1>2. /\ out' = o /\ pc' = "returned"
      /\ UNCHANGED <<kind, spec, sound, given, attempt, live, state, todo, made, failing>>
  BY DEF Return, task
<1>3. TypeOK'
  BY <1>2 DEF ExecutorInvariant, TypeOK, Counted, MayReturn
<1>4. Placed' /\ MadeFromMedia'
  BY <1>1, <1>2 DEF ExecutorInvariant, Placed, MadeFromMedia
<1>5. Validated'
  BY <1>2 DEF ExecutorInvariant, TypeOK, Faults, Validated, Counted
<1>6. Blamed'
  BY <1>1, <1>2 DEF Blamed, MayReturn
<1>7. SuccessIsWhole'
  BY <1>2 DEF SuccessIsWhole, MayReturn
<1>8. VerdictIsFair'
  BY <1>1, <1>2 DEF VerdictIsFair, StoppedToolIsNoVerdict, TroubleIsRetried,
     VerdictIsAboutOutputs,
                    MayReturn
<1> QED
  BY <1>3, <1>4, <1>5, <1>6, <1>7, <1>8 DEF ExecutorInvariant

\* Going on keeps what is said of outcomes.
LEMMA GoOnStep ==
    ASSUME ExecutorInvariant, pc # "returned", pc' # "returned", UNCHANGED <<out, state>>,
           TypeOK', Placed', MadeFromMedia', Validated'
    PROVE  ExecutorInvariant'
<1>1. out = "none" /\ state = "running"
  BY NotYet
<1>2. Blamed' /\ SuccessIsWhole' /\ VerdictIsFair'
  BY <1>1 DEF Blamed, SuccessIsWhole, VerdictIsFair, StoppedToolIsNoVerdict,
     TroubleIsRetried,
              VerdictIsAboutOutputs
<1> QED
  BY <1>2 DEF ExecutorInvariant

\* Moving on to another place.
LEMMA GoToStep ==
    ASSUME ExecutorInvariant, pc # "returned", NEW p, NEW next, GoTo(p, next), Counted,
           p \in {"fetch", "check", "poster", "tool", "inspect", "upload"},
           next \subseteq Labels \cup Files, made' \subseteq Files, stored' \subseteq made',
           Placed', MadeFromMedia', Validated'
    PROVE  ExecutorInvariant'
<1>1. /\ pc' = p /\ todo' = next
      /\ UNCHANGED <<kind, spec, sound, given, attempt, live, failing, out, state>>
  BY DEF GoTo, task
<1>2. TypeOK'
  BY <1>1 DEF ExecutorInvariant, TypeOK, Counted
<1> QED
  BY <1>1, <1>2, GoOnStep

\* The start of an executor that is not a validation.
LEMMA StartStep ==
    ASSUME ExecutorInvariant, NEW p, NEW next, NEW accepted \in BOOLEAN, kind # "validate",
           Start(p, next, accepted),
           ~accepted => kind = "package" /\ given = {},
           \/ kind \in {"encode", "probe"} /\ p = "tool" /\ next = {}
           \/ kind = "thumbnail" /\ p = "poster" /\ next = {}
           \/ kind = "package" /\ p = "fetch" /\ next = given /\ (accepted => given # {})
    PROVE  ExecutorInvariant'
<1>0. pc = "start" /\ TypeOK /\ spec \in BOOLEAN
  BY DEF Start, ExecutorInvariant, TypeOK
<1>1. CASE ~(spec /\ accepted) /\ Return("permanent_config")
           /\ UNCHANGED <<faults, todo, made, stored, failing>>
  <2>1. MayReturn("permanent_config")
    BY <1>0, <1>1 DEF MayReturn, Outcomes
  <2> QED
    BY <1>0, <1>1, <2>1, NotCounted, ReturnStep DEF TypeOK
<1>2. CASE spec /\ accepted /\ Fault("host") /\ Return("error")
           /\ UNCHANGED <<todo, made, stored, failing>>
  <2>1. MayReturn("error")
    BY DEF MayReturn, Outcomes
  <2>2. Counted
    BY <1>0, <1>2, FaultCounted DEF Counted, Faults
  <2> QED
    BY <1>0, <1>2, <2>1, <2>2, ReturnStep DEF TypeOK
<1>3. CASE spec /\ accepted /\ GoTo(p, next) /\ UNCHANGED <<faults, made, stored>>
  <2>1. /\ pc' = p /\ todo' = next
        /\ UNCHANGED <<kind, spec, sound, given, attempt, live, failing, out, state>>
    BY <1>3 DEF GoTo, task
  <2>2. Placed'
    BY <1>0, <1>3, <2>1 DEF ExecutorInvariant, Placed
  <2>3. MadeFromMedia'
    BY <1>0, <1>3, <2>1 DEF ExecutorInvariant, MadeFromMedia
  <2>4. Validated'
    BY <2>1 DEF Validated
  <2>5. next \subseteq Labels \cup Files
    BY <1>0 DEF TypeOK
  <2> QED
    BY <1>0, <1>3, <2>2, <2>3, <2>4, <2>5, NotCounted, GoToStep DEF TypeOK
<1> QED
  BY <1>1, <1>2, <1>3 DEF Start

\* A tool that fails. Only a tool that reads the source's URL suffers from storage.
LEMMA ToolFailsStep ==
    ASSUME ExecutorInvariant, NEW at, NEW reads \in BOOLEAN, at # "returned", kind # "validate",
           ToolFails(at, reads), at # "upload", kind = "package" => ~reads
    PROVE  ExecutorInvariant'
<1> DEFINE o == IF live THEN "permanent_input" ELSE "ctx"
<1>0. TypeOK /\ pc # "returned" /\ stored \subseteq made /\ Return(o)
      /\ UNCHANGED <<todo, made, stored, failing>>
  BY DEF ToolFails, ExecutorInvariant, TypeOK
<1>1. \/ (~sound \/ ~live) /\ UNCHANGED faults
      \/ \E f \in (IF reads THEN {"storage", "host"} ELSE {"host"}) : Fault(f)
  BY DEF ToolFails
<1>2. Counted /\ (~sound \/ ~live \/ faults'["host"] > 0 \/ (reads /\ faults'["storage"] > 0))
  <2>1. CASE (~sound \/ ~live) /\ UNCHANGED faults
    BY <1>0, <2>1, NotCounted
  <2>2. CASE \E f \in (IF reads THEN {"storage", "host"} ELSE {"host"}) : Fault(f)
    BY <1>0, <2>2, FaultCounted DEF Counted, Faults
  <2> QED
    BY <1>1, <2>1, <2>2
<1>3. MayReturn(o)
  <2>1. stored = {}
    BY DEF ToolFails, ExecutorInvariant, Placed
  <2> QED
    BY <1>2, <2>1 DEF MayReturn, Outcomes
<1> HIDE DEF o
<1>4. stored' = stored
  BY <1>0
<1> QED
  BY <1>0, <1>2, <1>3, <1>4, ReturnStep

\* Something on the worker's host goes wrong.
LEMMA HostStep ==
    ASSUME ExecutorInvariant, NEW at, at # "returned", Unknown(at) \/ HostFails(at)
    PROVE  ExecutorInvariant'
<1>0. /\ TypeOK /\ pc # "returned" /\ stored \subseteq made /\ Fault("host")
      /\ Return("unknown") \/ Return("error")
      /\ UNCHANGED <<todo, made, stored, failing>>
  BY DEF Unknown, HostFails, ExecutorInvariant, TypeOK
<1>1. Counted
  BY <1>0, FaultCounted DEF Counted, Faults
<1>2. MayReturn("unknown") /\ MayReturn("error")
  BY DEF MayReturn, Outcomes
<1> QED
  BY <1>0, <1>1, <1>2, ReturnStep

\* A file is sent, or is not.
LEMMA UploadStep ==
    ASSUME ExecutorInvariant, kind \in {"encode", "package", "thumbnail"}, Upload
    PROVE  ExecutorInvariant'
<1>0. /\ TypeOK /\ pc = "upload" /\ todo \subseteq made /\ made \subseteq stored \cup todo
      /\ stored \subseteq made
  BY DEF Upload, ExecutorInvariant, Placed, TypeOK
<1>1. ASSUME NEW f \in todo, live, GoTo("upload", todo \ {f}), stored' = stored \cup {f},
             UNCHANGED <<faults, made>>
      PROVE  ExecutorInvariant'
  <2>1. /\ pc' = "upload" /\ todo' = todo \ {f}
        /\ UNCHANGED <<kind, spec, sound, given, attempt, live, failing, out, state>>
    BY <1>1 DEF GoTo, task
  <2>2. Placed'
    BY <1>0, <1>1, <2>1 DEF ExecutorInvariant, Placed
  <2>3. MadeFromMedia' /\ Validated'
    BY <1>0, <1>1, <2>1 DEF ExecutorInvariant, MadeFromMedia, Validated
  <2>4. Counted
    BY <1>0, <1>1, NotCounted
  <2>5. /\ todo \ {f} \subseteq Labels \cup Files /\ made' \subseteq Files
        /\ stored' \subseteq made'
    BY <1>0, <1>1 DEF TypeOK
  <2> QED
    BY <1>0, <1>1, <2>2, <2>3, <2>4, <2>5, GoToStep
<1>2. ASSUME NEW f \in todo, IF live THEN Fault("storage") ELSE UNCHANGED faults,
             stored' \in {stored, stored \cup {f}}, Return("transient"),
             UNCHANGED <<todo, made, failing>>
      PROVE  ExecutorInvariant'
  <2>1. Counted
    <3>1. CASE live
      BY <1>0, <1>2, <3>1, FaultCounted DEF Counted, Faults
    <3>2. CASE ~live
      BY <1>0, <1>2, <3>2, NotCounted
    <3> QED
      BY <3>1, <3>2
  <2>2. MayReturn("transient")
    BY DEF MayReturn, Outcomes
  <2>3. stored' \subseteq made
    BY <1>0, <1>2
  <2> QED
    BY <1>0, <1>2, <2>1, <2>2, <2>3, ReturnStep
<1> QED
  BY <1>1, <1>2 DEF Upload

\* Everything is sent.
LEMMA FinishStep ==
    ASSUME ExecutorInvariant, NEW o \in {"success", "unknown"}, Finish(o),
           kind \in {"encode", "package", "thumbnail"},
           kind = "package" /\ o = "success" => {"hls", "dash"} \subseteq made
    PROVE  ExecutorInvariant'
<1>0. /\ TypeOK /\ pc = "upload" /\ todo = {} /\ made \subseteq stored /\ stored \subseteq made
      /\ Return(o) /\ UNCHANGED <<faults, todo, made, stored, failing>>
  BY DEF Finish, ExecutorInvariant, Placed, TypeOK
<1>1. MayReturn(o)
  BY <1>0 DEF MayReturn, Outcomes, ExecutorInvariant, MadeFromMedia
<1> QED
  BY <1>0, <1>1, NotCounted, ReturnStep

\* The tool ends well, and the executor goes on with what it left.
LEMMA ToolEndsStep ==
    ASSUME ExecutorInvariant, NEW at, NEW p, NEW F \in SUBSET Files, ToolEnds(at, p, F), Counted,
           \/ kind = "encode" /\ at = "tool" /\ p = "inspect" /\ F = {"output"}
           \/ kind = "package" /\ at = "tool" /\ p = "inspect"
           \/ kind = "thumbnail" /\ at = "poster" /\ p = "tool"
           \/ kind = "thumbnail" /\ at = "tool" /\ p = "inspect"
    PROVE  ExecutorInvariant'
<1>0. /\ TypeOK /\ pc = at /\ sound /\ pc # "returned" /\ stored = {}
      /\ GoTo(p, F) /\ made' = F /\ stored' = stored
  BY DEF ToolEnds, ExecutorInvariant, Placed
<1>1. /\ pc' = p /\ todo' = F
      /\ UNCHANGED <<kind, spec, sound, given, attempt, live, failing, out, state>>
  BY <1>0 DEF GoTo, task
<1>2. Placed'
  BY <1>0, <1>1 DEF ExecutorInvariant, Placed
<1>3. MadeFromMedia' /\ Validated'
  BY <1>0, <1>1 DEF ExecutorInvariant, MadeFromMedia, Validated
<1> QED
  BY <1>0, <1>2, <1>3, GoToStep

\* A file is fetched, or is not.
LEMMA FetchStep ==
    ASSUME ExecutorInvariant, NEW i \in todo, NEW p, Fetch(i, p, todo \ {i}),
           \/ kind = "package" /\ p = "fetch"
           \/ kind = "validate" /\ p = "check"
    PROVE  ExecutorInvariant'
<1>0. TypeOK /\ pc = "fetch" /\ stored = {}
  BY DEF Fetch, ExecutorInvariant, Placed
<1>1. CASE live /\ GoTo(p, todo \ {i}) /\ UNCHANGED <<faults, made, stored>>
  <2>1. /\ pc' = p /\ todo' = todo \ {i}
        /\ UNCHANGED <<kind, spec, sound, given, attempt, live, failing, out, state>>
    BY <1>1 DEF GoTo, task
  <2>2. Placed' /\ MadeFromMedia'
    BY <1>0, <1>1, <2>1 DEF ExecutorInvariant, Placed, MadeFromMedia
  <2>3. Validated'
    BY <1>0, <1>1, <2>1 DEF ExecutorInvariant, Validated
  <2>4. Counted
    BY <1>0, <1>1, NotCounted
  <2>5. todo \ {i} \subseteq Labels \cup Files /\ made' \subseteq Files /\ stored' \subseteq made'
    BY <1>0, <1>1 DEF TypeOK
  <2> QED
    BY <1>0, <1>1, <2>2, <2>3, <2>4, <2>5, GoToStep
<1>2. CASE ~live /\ Return("ctx") /\ UNCHANGED <<faults, todo, made, stored, failing>>
  <2>1. MayReturn("ctx") /\ Counted
    BY <1>0, <1>2, NotCounted DEF MayReturn, Outcomes
  <2> QED
    BY <1>0, <1>2, <2>1, ReturnStep
<1>3. CASE (\E f \in {"storage", "host"} : Fault(f) /\ Return("transient"))
           /\ UNCHANGED <<todo, made, stored, failing>>
  <2>1. MayReturn("transient") /\ Counted
    BY <1>0, <1>3, FaultCounted DEF MayReturn, Outcomes, Counted, Faults
  <2> QED
    BY <1>0, <1>3, <2>1, ReturnStep
<1> QED
  BY <1>1, <1>2, <1>3 DEF Fetch

----------------------------------------------------------------------------
(* The executors, one by one *)

LEMMA EncodeSteps ==
    ASSUME ExecutorInvariant, EncodeStart \/ EncodeRun \/ EncodeUpload
    PROVE  ExecutorInvariant'
<1>0. TypeOK
  BY DEF ExecutorInvariant
<1>1. CASE EncodeStart
  BY <1>1, StartStep DEF EncodeStart
<1>2. CASE EncodeRun
  <2>0. kind = "encode"
    BY <1>2 DEF EncodeRun
  <2>1. CASE ToolFails("tool", TRUE)
    BY <2>0, <2>1, ToolFailsStep
  <2>2. CASE ToolEnds("tool", "inspect", {"output"}) /\ UNCHANGED faults
    <3>1. Counted
      BY <1>0, <2>2, NotCounted
    <3> QED
      BY <2>0, <2>2, <3>1, ToolEndsStep DEF Files
  <2>3. CASE Unknown("inspect")
    BY <2>3, HostStep
  <2>4. CASE pc = "inspect" /\ GoTo("upload", made) /\ UNCHANGED <<faults, made, stored>>
    <3>1. /\ pc' = "upload" /\ todo' = made
          /\ UNCHANGED <<kind, spec, sound, given, attempt, live, failing, out, state>>
      BY <2>4 DEF GoTo, task
    <3>2. Placed' /\ MadeFromMedia' /\ Validated'
      BY <2>0, <2>4, <3>1 DEF ExecutorInvariant, Placed, MadeFromMedia, Validated
    <3>3. Counted
      BY <1>0, <2>4, NotCounted
    <3>4. made \subseteq Labels \cup Files /\ made' \subseteq Files /\ stored' \subseteq made'
      BY <1>0, <2>4 DEF TypeOK
    <3> QED
      BY <2>4, <3>2, <3>3, <3>4, GoToStep
  <2> QED
    BY <1>2, <2>1, <2>2, <2>3, <2>4 DEF EncodeRun
<1>3. CASE EncodeUpload
  BY <1>3, UploadStep, FinishStep DEF EncodeUpload
<1> QED
  BY <1>1, <1>2, <1>3

LEMMA PackageSteps ==
    ASSUME ExecutorInvariant,
           PackageStart \/ PackageFetch \/ PackageRun \/ PackageUpload \/ PackageFinish
    PROVE  ExecutorInvariant'
<1>0. TypeOK
  BY DEF ExecutorInvariant
<1>1. CASE PackageStart
  BY <1>1, StartStep DEF PackageStart
<1>2. CASE PackageFetch
  <2>1. CASE \E i \in todo : Fetch(i, "fetch", todo \ {i})
    BY <1>2, <2>1, FetchStep DEF PackageFetch
  <2>2. CASE pc = "fetch" /\ todo = {} /\ GoTo("tool", {}) /\ UNCHANGED <<faults, made, stored>>
    <3>1. /\ pc' = "tool" /\ todo' = {} /\ kind = "package"
          /\ UNCHANGED <<kind, spec, sound, given, attempt, live, failing, out, state>>
      BY <1>2, <2>2 DEF GoTo, task, PackageFetch
    <3>2. Placed' /\ MadeFromMedia' /\ Validated'
      BY <2>2, <3>1 DEF ExecutorInvariant, Placed, MadeFromMedia, Validated
    <3>3. Counted
      BY <1>0, <2>2, NotCounted
    <3>4. made' \subseteq Files /\ stored' \subseteq made'
      BY <1>0, <2>2 DEF TypeOK
    <3> QED
      BY <2>2, <3>2, <3>3, <3>4, GoToStep
  <2> QED
    BY <1>2, <2>1, <2>2 DEF PackageFetch
<1>3. CASE PackageRun
  <2>0. kind = "package"
    BY <1>3 DEF PackageRun
  <2>1. CASE HostFails("tool") \/ HostFails("inspect")
    BY <2>1, HostStep
  <2>2. CASE ToolFails("tool", FALSE)
    BY <2>0, <2>2, ToolFailsStep
  <2>3. CASE ToolEnds("tool", "inspect", PackageFiles) /\ UNCHANGED faults
    <3>1. Counted
      BY <1>0, <2>3, NotCounted
    <3>2. PackageFiles \in SUBSET Files
      BY DEF Files
    <3> QED
      BY <2>0, <2>3, <3>1, <3>2, ToolEndsStep
  <2>4. ASSUME NEW F \in SUBSET PackageFiles, ToolEnds("tool", "inspect", F), Fault("host")
        PROVE  ExecutorInvariant'
    <3>1. Counted
      BY <1>0, <2>4, FaultCounted DEF Counted, Faults
    <3>2. F \in SUBSET Files
      BY DEF Files
    <3> QED
      BY <2>0, <2>4, <3>1, <3>2, ToolEndsStep
  <2>5. CASE pc = "inspect" /\ made = {} /\ Return("unknown")
             /\ UNCHANGED <<faults, todo, made, stored, failing>>
    <3>1. MayReturn("unknown") /\ Counted
      BY <1>0, <2>5, NotCounted DEF MayReturn, Outcomes
    <3> QED
      BY <1>0, <2>5, <3>1, ReturnStep DEF TypeOK
  <2>6. CASE pc = "inspect" /\ made # {} /\ GoTo("upload", made)
             /\ UNCHANGED <<faults, made, stored>>
    <3>1. /\ pc' = "upload" /\ todo' = made
          /\ UNCHANGED <<kind, spec, sound, given, attempt, live, failing, out, state>>
      BY <2>6 DEF GoTo, task
    <3>2. Placed' /\ MadeFromMedia' /\ Validated'
      BY <2>0, <2>6, <3>1 DEF ExecutorInvariant, Placed, MadeFromMedia, Validated
    <3>3. Counted
      BY <1>0, <2>6, NotCounted
    <3>4. made \subseteq Labels \cup Files /\ made' \subseteq Files /\ stored' \subseteq made'
      BY <1>0, <2>6 DEF TypeOK
    <3> QED
      BY <2>6, <3>2, <3>3, <3>4, GoToStep
  <2> QED
    BY <1>3, <2>1, <2>2, <2>3, <2>4, <2>5, <2>6 DEF PackageRun
<1>4. CASE PackageUpload
  BY <1>4, UploadStep, HostStep DEF PackageUpload
<1>5. CASE PackageFinish
  <2> DEFINE o == IF {"hls", "dash"} \subseteq made THEN "success" ELSE "unknown"
  <2>1. Finish(o) /\ kind = "package" /\ o \in {"success", "unknown"}
    BY <1>5 DEF PackageFinish
  <2>2. o = "success" => {"hls", "dash"} \subseteq made
    OBVIOUS
  <2> HIDE DEF o
  <2> QED
    BY <2>1, <2>2, FinishStep
<1> QED
  BY <1>1, <1>2, <1>3, <1>4, <1>5

LEMMA ThumbnailSteps ==
    ASSUME ExecutorInvariant,
           \/ ThumbnailStart \/ ThumbnailPoster \/ ThumbnailSprite \/ ThumbnailIndex
           \/ ThumbnailUpload
    PROVE  ExecutorInvariant'
<1>0. TypeOK
  BY DEF ExecutorInvariant
<1>1. CASE ThumbnailStart
  BY <1>1, StartStep DEF ThumbnailStart
<1>2. CASE ThumbnailPoster
  <2>1. CASE ToolFails("poster", TRUE)
    BY <1>2, <2>1, ToolFailsStep DEF ThumbnailPoster
  <2>2. CASE ToolEnds("poster", "tool", {"poster"}) /\ UNCHANGED faults
    <3>1. Counted /\ {"poster"} \in SUBSET Files
      BY <1>0, <2>2, NotCounted DEF Files, ThumbnailFiles
    <3> QED
      BY <1>2, <2>2, <3>1, ToolEndsStep DEF ThumbnailPoster
  <2> QED
    BY <1>2, <2>1, <2>2 DEF ThumbnailPoster
<1>3. CASE ThumbnailSprite
  <2>1. CASE ToolFails("tool", TRUE)
    BY <1>3, <2>1, ToolFailsStep DEF ThumbnailSprite
  <2>2. CASE ToolEnds("tool", "inspect", {"poster", "sprite"}) /\ UNCHANGED faults
    <3>1. Counted /\ {"poster", "sprite"} \in SUBSET Files
      BY <1>0, <2>2, NotCounted DEF Files, ThumbnailFiles
    <3> QED
      BY <1>3, <2>2, <3>1, ToolEndsStep DEF ThumbnailSprite
  <2> QED
    BY <1>3, <2>1, <2>2 DEF ThumbnailSprite
<1>4. CASE ThumbnailIndex
  <2>1. CASE Unknown("inspect") \/ HostFails("inspect")
    BY <2>1, HostStep
  <2>2. CASE pc = "inspect" /\ made' = ThumbnailFiles /\ GoTo("upload", ThumbnailFiles)
             /\ UNCHANGED <<faults, stored>>
    <3>1. /\ pc' = "upload" /\ todo' = ThumbnailFiles /\ kind = "thumbnail"
          /\ UNCHANGED <<kind, spec, sound, given, attempt, live, failing, out, state>>
      BY <1>4, <2>2 DEF GoTo, task, ThumbnailIndex
    <3>2. Placed' /\ MadeFromMedia' /\ Validated'
      BY <2>2, <3>1 DEF ExecutorInvariant, Placed, MadeFromMedia, Validated
    <3>3. Counted
      BY <1>0, <2>2, NotCounted
    <3>4. /\ ThumbnailFiles \subseteq Labels \cup Files /\ made' \subseteq Files
          /\ stored' \subseteq made'
      BY <2>2, <3>1 DEF Files, ExecutorInvariant, Placed
    <3> QED
      BY <2>2, <3>2, <3>3, <3>4, GoToStep
  <2> QED
    BY <1>4, <2>1, <2>2 DEF ThumbnailIndex
<1>5. CASE ThumbnailUpload
  BY <1>5, UploadStep, HostStep, FinishStep DEF ThumbnailUpload
<1> QED
  BY <1>1, <1>2, <1>3, <1>4, <1>5

LEMMA ValidateSteps ==
    ASSUME ExecutorInvariant, ValidateStart \/ ValidateFetch \/ ValidateCheck \/ ValidateVerdict
    PROVE  ExecutorInvariant'
<1>0. TypeOK /\ stored \subseteq made
  BY DEF ExecutorInvariant, TypeOK
<1>1. CASE ValidateStart
  <2>0. kind = "validate" /\ pc = "start"
    BY <1>1 DEF ValidateStart
  <2>1. CASE ~spec /\ Return("permanent_config")
             /\ UNCHANGED <<faults, todo, made, stored, failing>>
    <3>1. MayReturn("permanent_config") /\ Counted
      BY <1>0, <2>1, NotCounted DEF MayReturn, Outcomes
    <3> QED
      BY <1>0, <2>0, <2>1, <3>1, ReturnStep
  <2>2. CASE spec /\ Fault("host") /\ Return("error") /\ UNCHANGED <<todo, made, stored, failing>>
    <3>1. MayReturn("error") /\ Counted
      BY <1>0, <2>2, FaultCounted DEF MayReturn, Outcomes, Counted, Faults
    <3> QED
      BY <1>0, <2>0, <2>2, <3>1, ReturnStep
  <2>3. CASE /\ spec /\ pc' = "fetch" /\ todo' = given /\ failing' = (given # Labels)
             /\ UNCHANGED <<task, attempt, faults, live, made, stored, out, state>>
    <3>1. UNCHANGED <<kind, spec, sound, given, attempt, faults, live, made, stored, out, state>>
      BY <2>3 DEF task
    <3>2. TypeOK'
      BY <1>0, <2>0, <2>3, <3>1 DEF TypeOK
    <3>3. Placed' /\ MadeFromMedia' /\ Validated'
      BY <2>0, <2>3, <3>1 DEF ExecutorInvariant, Placed, MadeFromMedia, Validated
    <3> QED
      BY <2>0, <2>3, <3>1, <3>2, <3>3, GoOnStep
  <2> QED
    BY <1>1, <2>1, <2>2, <2>3 DEF ValidateStart
<1>2. CASE ValidateFetch
  BY <1>2, FetchStep DEF ValidateFetch
<1>3. CASE ValidateCheck
  <2>1. /\ kind = "validate" /\ pc = "check" /\ pc' = "fetch"
        /\ UNCHANGED <<kind, spec, sound, given, attempt, live, todo, made, stored, out, state>>
    BY <1>3 DEF ValidateCheck, task
  <2>2. /\ Counted
        /\ \/ sound /\ live /\ failing' = failing
           \/ failing' = TRUE /\ (~sound \/ ~live \/ faults'["host"] > 0)
    <3>1. CASE sound /\ live /\ UNCHANGED <<faults, failing>>
      BY <1>0, <3>1, NotCounted
    <3>2. CASE (~sound \/ ~live) /\ failing' = TRUE /\ UNCHANGED faults
      BY <1>0, <3>2, NotCounted
    <3>3. CASE Fault("host") /\ failing' = TRUE
      BY <1>0, <3>3, FaultCounted DEF Counted, Faults
    <3> QED
      BY <1>3, <3>1, <3>2, <3>3 DEF ValidateCheck
  <2>3. TypeOK'
    BY <1>0, <2>1, <2>2 DEF TypeOK, Counted
  <2>4. Placed' /\ MadeFromMedia'
    BY <2>1 DEF ExecutorInvariant, Placed, MadeFromMedia
  <2>5. Validated'
    <3>1. faults["host"] > 0 => faults'["host"] > 0
      BY <1>0, <2>2 DEF Counted, TypeOK, Faults
    <3> QED
      BY <1>0, <2>1, <2>2, <3>1 DEF ExecutorInvariant, Validated
  <2> QED
    BY <2>1, <2>3, <2>4, <2>5, GoOnStep
<1>4. CASE ValidateVerdict
  <2> DEFINE o == IF failing THEN "permanent_input" ELSE "success"
  <2>1. /\ kind = "validate" /\ pc = "fetch" /\ todo = {} /\ Return(o)
        /\ UNCHANGED <<faults, todo, made, stored, failing>>
    BY <1>4 DEF ValidateVerdict
  <2>2. stored = made
    BY <2>1 DEF ExecutorInvariant, Placed, MadeFromMedia
  <2>3. MayReturn(o)
    <3>1. CASE failing
      BY <2>1, <3>1 DEF MayReturn, Outcomes, ExecutorInvariant, Validated, Placed, ReadsFromUrl
    <3>2. CASE ~failing
      BY <2>1, <2>2, <3>2 DEF MayReturn, Outcomes, ExecutorInvariant, Validated
    <3> QED
      BY <3>1, <3>2
  <2>4. Counted
    BY <1>0, <2>1, NotCounted
  <2> HIDE DEF o
  <2> QED
    BY <1>0, <2>1, <2>3, <2>4, ReturnStep
<1> QED
  BY <1>1, <1>2, <1>3, <1>4

LEMMA ProbeSteps ==
    ASSUME ExecutorInvariant, ProbeTask
    PROVE  ExecutorInvariant'
<1>0. TypeOK /\ stored \subseteq made /\ kind = "probe"
  BY DEF ExecutorInvariant, TypeOK, ProbeTask
<1>1. CASE Start("tool", {}, TRUE)
  BY <1>0, <1>1, StartStep
<1>2. CASE ToolFails("tool", TRUE)
  BY <1>0, <1>2, ToolFailsStep
<1>3. CASE HostFails("tool") \/ Unknown("tool")
  BY <1>3, HostStep
<1>4. CASE pc = "tool" /\ sound /\ Return("success")
           /\ UNCHANGED <<faults, todo, made, stored, failing>>
  <2>1. MayReturn("success")
    BY <1>0, <1>4 DEF MayReturn, Outcomes, ExecutorInvariant, Placed, MadeFromMedia
  <2>2. Counted
    BY <1>0, <1>4, NotCounted
  <2> QED
    BY <1>0, <1>4, <2>1, <2>2, ReturnStep
<1> QED
  BY <1>1, <1>2, <1>3, <1>4 DEF ProbeTask

\* The context ends while the executor works.
LEMMA StopStep ==
    ASSUME ExecutorInvariant, Stop
    PROVE  ExecutorInvariant'
<1>1. /\ live /\ pc # "returned" /\ Fault("stop") /\ live' = FALSE
      /\ UNCHANGED <<kind, spec, sound, given, attempt, pc, todo, made, stored, failing, out, state>>
  BY DEF Stop, task
<1>2. faults' \in [Faults -> Nat]
  BY <1>1, FaultCounted DEF ExecutorInvariant, Faults
<1>3. TypeOK'
  BY <1>1, <1>2 DEF ExecutorInvariant, TypeOK
<1>4. Placed' /\ MadeFromMedia' /\ Validated'
  BY <1>1 DEF ExecutorInvariant, Placed, MadeFromMedia, Validated
<1> QED
  BY <1>1, <1>3, <1>4, GoOnStep

\* The attempt is over: the task ends, or is tried again.
LEMMA SettleStep ==
    ASSUME ExecutorInvariant, Settle
    PROVE  ExecutorInvariant'
<1>0. /\ TypeOK /\ pc = "returned" /\ state = "running" /\ out # "none"
      /\ UNCHANGED <<kind, spec, sound, given, faults>>
  BY DEF Settle, task, ExecutorInvariant, TypeOK
<1>1. ASSUME NEW s \in {"stopped", "succeeded", "failed"}, End(s),
             s = "failed" => live /\ out # "success" /\ ~Retrying(Class, attempt, MaxAttempts)
      PROVE  ExecutorInvariant'
  <2>1. state' = s /\ UNCHANGED <<attempt, pc, live, todo, made, stored, failing, out>>
    BY <1>1 DEF End
  <2>2. TypeOK'
    BY <1>0, <2>1 DEF TypeOK
  <2>3. Placed' /\ MadeFromMedia' /\ Validated'
    BY <1>0, <2>1 DEF ExecutorInvariant, Placed, MadeFromMedia, Validated
  <2>4. Blamed'
    BY <1>0, <1>1, <2>1 DEF ExecutorInvariant, Blamed, Class
  <2>5. SuccessIsWhole'
    BY <1>0, <2>1 DEF ExecutorInvariant, SuccessIsWhole
  <2>6. StoppedToolIsNoVerdict' /\ VerdictIsAboutOutputs'
    BY <1>0, <2>1 DEF ExecutorInvariant, VerdictIsFair, StoppedToolIsNoVerdict,
       VerdictIsAboutOutputs
  <2>7. TroubleIsRetried'
    <3> SUFFICES ASSUME s = "failed", attempt < MaxAttempts, sound, spec,
                        kind \in {"package", "validate"} => given = Labels
                 PROVE  /\ out = "permanent_input" /\ stored = {}
                        /\ \/ faults["host"] > 0
                           \/ kind \in ReadsFromUrl /\ faults["storage"] > 0
      BY <1>0, <2>1 DEF TroubleIsRetried
    <3>1. live /\ out # "success" /\ ~Retrying(Class, attempt, MaxAttempts)
      BY <1>1
    <3>2. out # "ctx" /\ out # "permanent_config"
      BY <3>1 DEF ExecutorInvariant, Blamed
    <3>3. out = "permanent_input"
      <4>1. out \notin {"error", "transient", "unknown"}
        BY <3>1 DEF Class, Retrying, Retryable, FailureClasses
      <4> QED
        BY <1>0, <3>1, <3>2, <4>1 DEF TypeOK, Outcomes
    <3>4. stored = {} /\ kind \in ReadsFromUrl \cup {"package", "validate"}
      BY <1>0, <3>3 DEF ExecutorInvariant, Blamed, TypeOK, ReadsFromUrl
    <3> QED
      BY <3>1, <3>3, <3>4 DEF ExecutorInvariant, Blamed, VerdictIsFair, VerdictIsAboutOutputs
  <2> QED
    BY <2>2, <2>3, <2>4, <2>5, <2>6, <2>7 DEF ExecutorInvariant, VerdictIsFair
<1>2. ASSUME TryAgain, Retrying(Class, attempt, MaxAttempts)
      PROVE  ExecutorInvariant'
  <2>1. /\ attempt' = attempt + 1 /\ pc' = "start" /\ live' = TRUE /\ out' = "none"
        /\ todo' = {} /\ made' = {} /\ stored' = {} /\ failing' = FALSE /\ state' = state
    BY <1>2 DEF TryAgain
  <2>2. attempt < MaxAttempts
    BY <1>2 DEF Retrying
  <2>3. TypeOK'
    <3>1. attempt' \in 1 .. MaxAttempts
      BY <1>0, <2>1, <2>2 DEF TypeOK
    <3> QED
      BY <1>0, <2>1, <3>1 DEF TypeOK, Outcomes
  <2>4. Placed' /\ MadeFromMedia' /\ Validated'
    BY <1>0, <2>1 DEF Placed, MadeFromMedia, Validated
  <2>5. Blamed' /\ SuccessIsWhole' /\ VerdictIsFair'
    BY <1>0, <2>1 DEF Blamed, SuccessIsWhole, VerdictIsFair, StoppedToolIsNoVerdict,
                      TroubleIsRetried, VerdictIsAboutOutputs
  <2> QED
    BY <2>3, <2>4, <2>5 DEF ExecutorInvariant
<1> QED
  BY <1>1, <1>2 DEF Settle

LEMMA ExecutorStep == ExecutorInvariant /\ [Next]_vars => ExecutorInvariant'
<1> SUFFICES ASSUME ExecutorInvariant, [Next]_vars PROVE ExecutorInvariant'
  OBVIOUS
<1>1. CASE Next
  BY <1>1, EncodeSteps, PackageSteps, ThumbnailSteps, ValidateSteps, ProbeSteps,
     StopStep,
     SettleStep DEF Next
<1>2. CASE UNCHANGED vars
  <2>1. /\ UNCHANGED <<kind, spec, sound, given, attempt, faults, pc, live, todo, made, stored>>
        /\ UNCHANGED <<failing, out, state>>
    BY <1>2 DEF vars, task
  <2>2. TypeOK' /\ Placed' /\ MadeFromMedia' /\ Validated' /\ Blamed' /\ SuccessIsWhole'
    BY <2>1 DEF ExecutorInvariant, TypeOK, Placed, MadeFromMedia, Validated, Blamed,
       Class,
                SuccessIsWhole
  <2>3. VerdictIsFair'
    BY <2>1 DEF ExecutorInvariant, VerdictIsFair, StoppedToolIsNoVerdict,
       TroubleIsRetried,
                VerdictIsAboutOutputs
  <2> QED
    BY <2>2, <2>3 DEF ExecutorInvariant
<1> QED
  BY <1>1, <1>2

LEMMA ExecutorInit == Init => ExecutorInvariant
<1> SUFFICES ASSUME Init PROVE ExecutorInvariant
  OBVIOUS
<1>1. TypeOK
  <2>1. attempt \in 1 .. MaxAttempts /\ faults \in [Faults -> Nat]
    BY DEF Init
  <2>2. out \in Outcomes /\ (out # "none" <=> pc = "returned")
    BY DEF Init, Outcomes
  <2> QED
    BY <2>1, <2>2 DEF Init, TypeOK
<1>2. Placed /\ MadeFromMedia /\ Validated /\ Blamed /\ SuccessIsWhole
  BY DEF Init, Placed, MadeFromMedia, Validated, Blamed, SuccessIsWhole
<1>3. VerdictIsFair
  BY DEF Init, VerdictIsFair, StoppedToolIsNoVerdict, TroubleIsRetried,
     VerdictIsAboutOutputs
<1> QED
  BY <1>1, <1>2, <1>3 DEF ExecutorInvariant

----------------------------------------------------------------------------
(* An executor and its runs *)

\* Whatever a task does, its executor makes a step of its own or none: MediaTask
\* implements Executors.
LEMMA TaskStep == [TaskNext]_allVars => [Next]_vars
BY DEF TaskNext, ExecutorAlone, RunFails, StartRun, RunGoesOn, RunReturns, allVars

\* A context that has ended stays so while the executor is where it calls Run, and
\* an executor that is not there goes on without a run.
LEMMA ContextEnds ==
    ASSUME ExecutorInvariant, Next, live' # live
    PROVE  \/ live' = FALSE /\ UNCHANGED <<pc, kind>>
           \/ ~CallsRun /\ pc' = "start"
<1>1. CASE Stop
  BY <1>1 DEF Stop, task
<1>2. CASE Settle
  BY <1>2 DEF Settle, End, TryAgain, CallsRun
<1>3. CASE ~Stop /\ ~Settle
  <2>1. live' = live
    <3>1. CASE EncodeStart \/ PackageStart \/ ThumbnailStart
      BY <3>1 DEF EncodeStart, PackageStart, ThumbnailStart, Start, Return, GoTo
    <3>2. CASE EncodeRun \/ EncodeUpload
      BY <3>2 DEF EncodeRun, EncodeUpload, ToolFails, ToolEnds, Unknown, Upload,
         Finish, Return, GoTo
    <3>3. CASE PackageFetch \/ PackageRun \/ PackageUpload \/ PackageFinish
      BY <3>3 DEF PackageFetch, PackageRun, PackageUpload, PackageFinish, Fetch,
         ToolFails, ToolEnds,
                  HostFails, Upload, Finish, Return, GoTo
    <3>4. CASE ThumbnailPoster \/ ThumbnailSprite \/ ThumbnailIndex \/ ThumbnailUpload
      BY <3>4 DEF ThumbnailPoster, ThumbnailSprite, ThumbnailIndex, ThumbnailUpload,
         ToolFails,
                  ToolEnds, HostFails, Unknown, Upload, Finish, Return, GoTo
    <3>5. CASE ValidateStart \/ ValidateFetch \/ ValidateCheck \/ ValidateVerdict
      BY <3>5 DEF ValidateStart, ValidateFetch, ValidateCheck, ValidateVerdict, Fetch,
         Return, GoTo
    <3>6. CASE ProbeTask
      BY <3>6 DEF ProbeTask, Start, ToolFails, HostFails, Unknown, Return, GoTo
    <3> QED
      BY <1>3, <3>1, <3>2, <3>3, <3>4, <3>5, <3>6 DEF Next
  <2> QED
    BY <2>1
<1> QED
  BY <1>1, <1>2, <1>3

\* While no run is under way, nothing is said but that the tool is gone.
LEMMA IdleStep ==
    ASSUME RunInvariant, TypeOK', main' = "idle", UNCHANGED <<reader, grace>>,
           alive' = {}, pipes' = {}, deaf' \subseteq deaf, exit' = "none", result' = "none",
           killer' = "done"
    PROVE  RunInvariant'
<1>1. Tool!TypeOK'
  BY DEF RunInvariant, TaskTypeOK, TypeOK, Tool!TypeOK
<1> QED
  BY <1>1 DEF RunInvariant, TaskTypeOK, SignalIsNotFailure

\* The executor makes a step without its tool.
LEMMA AloneStep ==
    ASSUME ExecutorInvariant, RunInvariant, TypeOK', ExecutorAlone
    PROVE  RunInvariant'
<1>0. Next /\ UNCHANGED <<alive, pipes, deaf, exit, reader, killer, grace, main, result>>
  BY DEF ExecutorAlone, tool
<1>1. CASE ~CallsRun
  BY <1>0, <1>1, IdleStep DEF RunInvariant, TaskTypeOK, Tool!TypeOK
<1>2. CASE CallsRun
  <2>1. live' # live
    BY <1>2 DEF ExecutorAlone
  <2>2. live' = FALSE /\ UNCHANGED <<pc, kind>>
    BY <1>0, <1>2, <2>1, ContextEnds
  <2>3. CallsRun'
    BY <1>2, <2>2 DEF CallsRun
  <2>4. Tool!TypeOK'
    BY <1>0, <2>2 DEF RunInvariant, TaskTypeOK, Tool!TypeOK
  <2> QED
    BY <1>0, <2>2, <2>3, <2>4 DEF RunInvariant, TaskTypeOK, SignalIsNotFailure
<1> QED
  BY <1>1, <1>2

\* Run cannot start its tool, or has returned and is forgotten.
LEMMA EndsOfRun ==
    ASSUME RunInvariant, TypeOK', RunFails \/ RunReturns
    PROVE  RunInvariant'
<1>1. CASE RunFails
  BY <1>1, IdleStep DEF RunFails, tool, RunInvariant, TaskTypeOK, Tool!TypeOK
<1>2. CASE RunReturns
  <2>1. Tool!Forget
    BY <1>2 DEF RunReturns
  <2>2. Tool!TypeOK'
    BY <2>1 DEF Tool!Forget, RunInvariant, TaskTypeOK, TypeOK, Tool!TypeOK
  <2> QED
    BY <2>1, <2>2 DEF Tool!Forget, RunInvariant, TaskTypeOK, SignalIsNotFailure
<1> QED
  BY <1>1, <1>2

\* What a run needs of the executor, which waits for it.
LEMMA ExecutorWaits ==
    ASSUME RunInvariant, CallsRun, UNCHANGED vars
    PROVE  TypeOK' /\ CallsRun' /\ live' = live /\ live \in BOOLEAN
<1>1. /\ UNCHANGED <<kind, spec, sound, given, attempt, faults, pc, live, todo, made, stored>>
      /\ UNCHANGED <<failing, out, state>>
  BY DEF vars, task
<1>2. TypeOK
  BY DEF RunInvariant, TaskTypeOK
<1>3. TypeOK'
  BY <1>1, <1>2 DEF TypeOK
<1> QED
  BY <1>1, <1>2, <1>3 DEF CallsRun, TypeOK

LEMMA StartStepOfRun ==
    ASSUME RunInvariant, StartRun
    PROVE  RunInvariant'
<1>1. CallsRun /\ main = "idle" /\ UNCHANGED vars /\ Tool!Start
  BY DEF StartRun
<1>2. TypeOK' /\ CallsRun' /\ live' = live /\ live \in BOOLEAN
  BY <1>1, ExecutorWaits
<1>3. PICK H \in SUBSET Helpers : /\ alive' = {Leader} \cup H /\ pipes' = {Leader} \cup H
                                 /\ deaf' \in SUBSET ({Leader} \cup H)
  BY <1>1 DEF Tool!Start
<1>4. /\ exit' = "none" /\ result' = "none" /\ reader' = [g \in Tool!Readers |-> "reading"]
      /\ killer' = "waiting" /\ grace' = 0 /\ main' = "pipes"
  BY <1>1 DEF Tool!Start
<1>5. Tool!TypeOK'
  BY <1>2, <1>3, <1>4 DEF Tool!TypeOK, Tool!Group
<1>6. \A g \in Tool!Readers : reader'[g] # "done"
  BY <1>4
<1> QED
  BY <1>2, <1>3, <1>4, <1>5, <1>6 DEF RunInvariant, TaskTypeOK, SignalIsNotFailure

\* Processes end, by themselves or by a signal that a cancelled run sent.
LEMMA DieStep ==
    ASSUME RunInvariant, CallsRun, UNCHANGED vars, main # "idle",
           NEW S, NEW status \in {"zero", "error", "signal"}, Tool!Die(S, status),
           status = "signal" => ~live,
           UNCHANGED <<deaf, reader, main, result>>,
           killer' \in {killer, "grace", "done"}, grace' \in 0 .. Grace,
           killer' = "grace" => ~live
    PROVE  RunInvariant'
<1>1. TypeOK' /\ CallsRun' /\ live' = live /\ live \in BOOLEAN
  BY ExecutorWaits
<1>2. /\ alive' = alive \ S /\ pipes' = pipes \ S
      /\ exit' = IF Leader \in S \cap alive THEN status ELSE exit
  BY DEF Tool!Die
<1>3. Tool!TypeOK'
  BY <1>1, <1>2 DEF RunInvariant, TaskTypeOK, Tool!TypeOK
<1>4. exit' = "none" <=> Leader \in alive'
  BY <1>2 DEF RunInvariant
<1>5. main \in {"stopped", "returned"} => exit' = exit
  BY <1>2 DEF RunInvariant
<1>6. exit' = "signal" => ~live
  BY <1>2 DEF RunInvariant
<1>7. SignalIsNotFailure'
  BY <1>5 DEF RunInvariant, SignalIsNotFailure
<1> QED
  BY <1>1, <1>2, <1>3, <1>4, <1>5, <1>6, <1>7 DEF RunInvariant, TaskTypeOK

LEMMA RunStep ==
    ASSUME RunInvariant, RunGoesOn
    PROVE  RunInvariant'
<1>0. CallsRun /\ UNCHANGED vars /\ Tool!Step
  BY DEF RunGoesOn
<1>00. TypeOK' /\ CallsRun' /\ live' = live /\ live \in BOOLEAN
  BY <1>0, ExecutorWaits
<1>1. ASSUME NEW p \in Tool!Group, Tool!ProcessExits(p) PROVE RunInvariant'
  <2>1. main # "idle" /\ UNCHANGED <<deaf, reader, killer, grace, main, result>>
    BY <1>1 DEF Tool!ProcessExits, RunInvariant
  <2>2. PICK status \in {"zero", "error"} : Tool!Die({p}, status)
    BY <1>1 DEF Tool!ProcessExits
  <2> QED
    BY <1>0, <2>1, <2>2, DieStep DEF RunInvariant, TaskTypeOK, Tool!TypeOK
<1>2. ASSUME NEW p \in Tool!Group, Tool!ClosesPipes(p) PROVE RunInvariant'
  <2>1. /\ pipes' = pipes \ {p}
        /\ UNCHANGED <<alive, deaf, exit, reader, killer, grace, main, result>>
    BY <1>2 DEF Tool!ClosesPipes
  <2>2. Tool!TypeOK'
    BY <1>00, <2>1 DEF RunInvariant, TaskTypeOK, Tool!TypeOK
  <2> QED
    BY <1>00, <2>1, <2>2 DEF RunInvariant, TaskTypeOK, SignalIsNotFailure
<1>3. CASE Tool!Terminate
  <2>1. /\ killer = "waiting" /\ ~live /\ Tool!Die(alive \ deaf, "signal")
        /\ killer' = "grace" /\ grace' = Grace /\ UNCHANGED <<deaf, reader, main, result>>
    BY <1>3 DEF Tool!Terminate
  <2>2. main # "idle"
    BY <2>1 DEF RunInvariant
  <2> QED
    BY <1>0, <2>1, <2>2, DieStep
<1>4. CASE Tool!Kill
  <2>1. /\ killer = "grace" /\ Tool!Die(alive, "signal") /\ killer' = "done"
        /\ UNCHANGED <<deaf, reader, grace, main, result>>
    BY <1>4 DEF Tool!Kill
  <2>2. main # "idle" /\ ~live /\ grace \in 0 .. Grace
    BY <2>1 DEF RunInvariant, TaskTypeOK, Tool!TypeOK
  <2> QED
    BY <1>0, <2>1, <2>2, DieStep
<1>5. CASE Tool!KillerStops \/ Tool!Tick
  <2>1. /\ UNCHANGED <<alive, pipes, deaf, exit, reader, main, result>>
        /\ killer' \in {killer, "done"} /\ grace' \in 0 .. Grace
    BY <1>5 DEF Tool!KillerStops, Tool!Tick, RunInvariant, TaskTypeOK, Tool!TypeOK
  <2>2. Tool!TypeOK'
    BY <1>00, <2>1 DEF RunInvariant, TaskTypeOK, Tool!TypeOK
  <2> QED
    BY <1>00, <2>1, <2>2 DEF RunInvariant, TaskTypeOK, SignalIsNotFailure
<1>6. CASE Tool!ParseProgress \/ Tool!TailCopy
  <2>1. /\ UNCHANGED <<alive, pipes, deaf, exit, killer, grace, main, result>>
        /\ pipes = {} /\ reader' \in [Tool!Readers -> {"reading", "done"}]
    BY <1>6 DEF Tool!ParseProgress, Tool!TailCopy, RunInvariant, TaskTypeOK, Tool!TypeOK
  <2>2. Tool!TypeOK'
    BY <1>00, <2>1 DEF RunInvariant, TaskTypeOK, Tool!TypeOK
  <2> QED
    BY <1>00, <2>1, <2>2 DEF RunInvariant, TaskTypeOK, SignalIsNotFailure
<1>7. CASE Tool!WaitReaders
  <2>1. /\ main = "pipes" /\ main' = "wait" /\ \A g \in Tool!Readers : reader[g] = "done"
        /\ UNCHANGED <<alive, pipes, deaf, exit, reader, killer, grace, result>>
    BY <1>7 DEF Tool!WaitReaders
  <2>2. pipes = {}
    BY <2>1 DEF RunInvariant, Tool!Readers
  <2>3. Tool!TypeOK'
    BY <1>00, <2>1 DEF RunInvariant, TaskTypeOK, Tool!TypeOK
  <2> QED
    BY <1>00, <2>1, <2>2, <2>3 DEF RunInvariant, TaskTypeOK, SignalIsNotFailure
<1>8. CASE Tool!Wait
  <2>1. /\ main = "wait" /\ main' = "stopped" /\ exit # "none"
        /\ UNCHANGED <<alive, pipes, deaf, exit, reader, killer, grace, result>>
    BY <1>8 DEF Tool!Wait
  <2>2. Tool!TypeOK'
    BY <1>00, <2>1 DEF RunInvariant, TaskTypeOK, Tool!TypeOK
  <2> QED
    BY <1>00, <2>1, <2>2 DEF RunInvariant, TaskTypeOK, SignalIsNotFailure
<1>9. CASE Tool!Return
  <2>1. /\ main = "stopped" /\ main' = "returned"
        /\ result' = IF ~live THEN "ctx" ELSE IF exit # "zero" THEN "exit" ELSE "ok"
        /\ UNCHANGED <<alive, pipes, deaf, exit, reader, killer, grace>>
    BY <1>9 DEF Tool!Return, Tool!Outcome
  <2>2. Tool!TypeOK'
    BY <1>00, <2>1 DEF RunInvariant, TaskTypeOK, Tool!TypeOK
  <2>3. SignalIsNotFailure'
    BY <2>1 DEF RunInvariant, TaskTypeOK, Tool!TypeOK, SignalIsNotFailure
  <2> QED
    BY <1>00, <2>1, <2>2, <2>3 DEF RunInvariant, TaskTypeOK
<1> QED
  BY <1>0, <1>1, <1>2, <1>3, <1>4, <1>5, <1>6, <1>7, <1>8, <1>9 DEF Tool!Step,
     Tool!Supervise

\* Both invariants, together.
TaskInvariant == ExecutorInvariant /\ RunInvariant

LEMMA TaskInvariantStep == TaskInvariant /\ [TaskNext]_allVars => TaskInvariant'
<1> SUFFICES ASSUME TaskInvariant, [TaskNext]_allVars PROVE TaskInvariant'
  OBVIOUS
<1>1. ExecutorInvariant'
  BY TaskStep, ExecutorStep DEF TaskInvariant
<1>2. TypeOK'
  BY <1>1 DEF ExecutorInvariant
<1>3. CASE ExecutorAlone
  BY <1>1, <1>2, <1>3, AloneStep DEF TaskInvariant
<1>4. CASE RunFails \/ RunReturns
  BY <1>1, <1>2, <1>4, EndsOfRun DEF TaskInvariant
<1>5. CASE StartRun
  BY <1>1, <1>5, StartStepOfRun DEF TaskInvariant
<1>6. CASE RunGoesOn
  BY <1>1, <1>6, RunStep DEF TaskInvariant
<1>7. CASE UNCHANGED allVars
  <2>1. /\ UNCHANGED <<kind, pc, live, alive, pipes, deaf, exit, reader, killer, grace, main>>
        /\ UNCHANGED result
    BY <1>7 DEF allVars, vars, task, tool
  <2>2. Tool!TypeOK'
    BY <2>1 DEF TaskInvariant, RunInvariant, TaskTypeOK, Tool!TypeOK
  <2>3. RunInvariant'
    BY <1>2, <2>1, <2>2 DEF TaskInvariant, RunInvariant, TaskTypeOK, CallsRun,
       SignalIsNotFailure
  <2> QED
    BY <1>1, <2>3 DEF TaskInvariant
<1> QED
  BY <1>3, <1>4, <1>5, <1>6, <1>7 DEF TaskNext

LEMMA TaskInvariantInit == TaskInit => TaskInvariant
<1> SUFFICES ASSUME TaskInit PROVE TaskInvariant
  OBVIOUS
<1>1. ExecutorInvariant
  BY ExecutorInit DEF TaskInit
<1>2. Tool!TypeOK
  BY <1>1 DEF TaskInit, Tool!Init, Tool!TypeOK, ExecutorInvariant, TypeOK
<1>3. RunInvariant
  BY <1>1, <1>2 DEF TaskInit, Tool!Init, RunInvariant, TaskTypeOK, ExecutorInvariant,
                    SignalIsNotFailure
<1> QED
  BY <1>1, <1>3 DEF TaskInvariant

\* A task whose next-state relation is TaskNext keeps both invariants, whatever
\* fairness is asked of it.
LEMMA TaskAlways == TaskSpec => []TaskInvariant
BY TaskInvariantInit, TaskInvariantStep, PTL DEF TaskSpec

----------------------------------------------------------------------------
(* Theorems *)

\* What an executor reports as done is all there (encodeTask, packageTask,
\* thumbnailTask, validateTask, probeTask): every file its tool left is in storage,
\* none of those its operation owes is missing, and its media was sound. The
\* argument is that, from the first upload on, a file is stored or still to be sent.
THEOREM SuccessMeansWhole == TaskSpec => []SuccessIsWhole
<1>1. TaskInvariant => SuccessIsWhole
  BY DEF TaskInvariant, ExecutorInvariant
<1> QED
  BY <1>1, TaskAlways, PTL

\* The class of a failure is fair: a tool that was killed for its context gives no
\* verdict on the media, trouble with storage costs a package, a validation or an
\* upload no more than an attempt and is taken for a verdict only by a tool that
\* reads the source from its URL, and a failed validation is about the outputs. Every
\* return of an executor is shown to have the cause its class names.
THEOREM VerdictsAreFair == TaskSpec => []VerdictIsFair
<1>1. TaskInvariant => VerdictIsFair
  BY DEF TaskInvariant, ExecutorInvariant
<1> QED
  BY <1>1, TaskAlways, PTL

\* When Run returns, the tool has exited and nobody holds its pipes, whatever the
\* tool started and whoever ignores SIGTERM; and Run does not report the status of
\* a tool it has signalled itself as a failure of the tool.
THEOREM RunsAreOver == TaskSpec => []RunIsOver
<1>1. TaskInvariant => RunIsOver
  <2> SUFFICES ASSUME RunInvariant PROVE RunIsOver
    BY DEF TaskInvariant
  <2>1. NobodyHoldsPipes
    BY DEF RunInvariant, NobodyHoldsPipes
  <2> QED
    BY <2>1 DEF RunInvariant, RunIsOver
<1> QED
  BY <1>1, TaskAlways, PTL

\* Running the tools with MediaRun adds nothing to what the executors may do: every
\* task of MediaTask is a behaviour of Executors.
THEOREM TaskImplementsExecutors == TaskSpec => Spec
<1>1. TaskInit => Init
  BY DEF TaskInit
<1> QED
  BY <1>1, TaskStep, PTL DEF TaskSpec, Spec
=============================================================================

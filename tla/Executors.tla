----------------------------- MODULE Executors -----------------------------
(***************************************************************************)
(* The executors of internal/agent: encodeTask, packageTask,               *)
(* thumbnailTask, validateTask and probeTask. Each prepares a scratch      *)
(* directory, fetches inputs, runs a tool, inspects what the tool left and *)
(* uploads it; a step that fails is classified, and the class decides      *)
(* whether the task is tried again. One task is followed through all its   *)
(* attempts; leases and reports are the business of WorkerAgent.           *)
(***************************************************************************)
EXTENDS JobStates, FiniteSets

CONSTANTS
    Kinds,        \* the operations considered
    Labels,       \* the renditions a package or validate task is given
    MaxAttempts,  \* attempts a task may take
    MaxFaults     \* MaxFaults[f]: how often "storage", "host" and "stop" go wrong

ASSUME ExecutorsAssumption ==
    /\ Kinds \subseteq {"encode", "package", "thumbnail", "validate", "probe"}
    /\ Labels # {}   \* a plan has at least one rendition
    /\ MaxAttempts \in Nat \ {0}
    /\ MaxFaults \in [{"storage", "host", "stop"} -> Nat]

Faults == {"storage", "host", "stop"}

VARIABLES
    kind,     \* the operation of the task
    spec,     \* its spec is one the executor accepts
    sound,    \* its media is what it should be: a tool that gets at it succeeds
    given,    \* labels registered when the task was leased
    attempt,  \* attempts taken
    faults,   \* faults[f]: how often f has gone wrong so far
    pc,       \* where the executor is
    live,     \* its context is live
    todo,     \* inputs to fetch, or files to upload
    made,     \* files the tool left
    stored,   \* files storage received from this attempt
    failing,  \* the validation report has a failing check
    out,      \* what the executor returned
    state     \* of the task: "running", "succeeded", "failed" or "stopped"

task == <<kind, spec, sound, given>>
vars == <<task, attempt, faults, pc, live, todo, made, stored, failing, out, state>>

PackageFiles == {"hls", "dash", "segment"}
ThumbnailFiles == {"poster", "sprite", "index"}
Files == PackageFiles \cup ThumbnailFiles \cup {"output"}
Outcomes == {"none", "success", "ctx", "error", "permanent_config", "permanent_input",
             "transient", "unknown"}

TypeOK ==
    /\ kind \in Kinds /\ spec \in BOOLEAN /\ sound \in BOOLEAN /\ given \subseteq Labels
    /\ attempt \in 1 .. MaxAttempts /\ faults \in [Faults -> Nat]
    /\ pc \in {"start", "fetch", "check", "poster", "tool", "inspect", "upload", "returned"}
    /\ live \in BOOLEAN /\ failing \in BOOLEAN
    /\ todo \subseteq Labels \cup Files /\ made \subseteq Files /\ stored \subseteq made
    /\ out \in Outcomes /\ (out # "none" <=> pc = "returned")
    /\ state \in {"running", "succeeded", "failed", "stopped"}

Init ==
    /\ kind \in Kinds /\ spec \in BOOLEAN /\ sound \in BOOLEAN /\ given \in SUBSET Labels
    /\ attempt = 1 /\ faults = [f \in Faults |-> 0] /\ state = "running"
    /\ pc = "start" /\ live = TRUE /\ todo = {} /\ made = {} /\ stored = {}
    /\ failing = FALSE /\ out = "none"

----------------------------------------------------------------------------
(* The steps every executor is made of *)

\* Something of kind f goes wrong outside the executor.
Fault(f) == faults[f] < MaxFaults[f] /\ faults' = [faults EXCEPT ![f] = @ + 1]

\* The executor returns.
Return(o) ==
    /\ out' = o /\ pc' = "returned"
    /\ UNCHANGED <<task, attempt, live, state>>

\* The next step is p, with the files in `next` ahead of it.
GoTo(p, next) ==
    /\ pc' = p /\ todo' = next
    /\ UNCHANGED <<task, attempt, live, failing, out, state>>

\* Refuse the spec, or make the scratch directory and go on.
Start(p, next, accepted) ==
    /\ pc = "start"
    /\ \/ ~(spec /\ accepted) /\ Return("permanent_config")
          /\ UNCHANGED <<faults, todo, made, stored, failing>>
       \/ spec /\ accepted /\ Fault("host") /\ Return("error")
          /\ UNCHANGED <<todo, made, stored, failing>>
       \/ spec /\ accepted /\ GoTo(p, next)
          /\ UNCHANGED <<faults, made, stored>>

\* download: a failure is the context's if that has ended, storage's otherwise.
Fetch(i, p, next) ==
    /\ pc = "fetch" /\ i \in todo
    /\ \/ live /\ GoTo(p, next)
          /\ UNCHANGED <<faults, made, stored>>
       \/ /\ \/ ~live /\ Return("ctx") /\ UNCHANGED faults
             \/ live /\ \E f \in {"storage", "host"} : Fault(f) /\ Return("transient")
          /\ UNCHANGED <<todo, made, stored, failing>>

\* Faulty variant of ToolFails: a tool that was killed is taken at its word.
ToolFailsVerdict(at, reads) ==
    /\ pc = at
    /\ \/ (~sound \/ ~live) /\ UNCHANGED faults
       \/ \E f \in (IF reads THEN {"storage", "host"} ELSE {"host"}) : Fault(f)
    /\ Return("permanent_input")
    /\ UNCHANGED <<todo, made, stored, failing>>

\* Run or cmd.Run returns an error: the media is at fault, or the worker's host,
\* or, for a tool that is given a URL, storage; or the context ended and the tool
\* was killed, which is told from the context.
ToolFails(at, reads) ==
    /\ pc = at
    /\ \/ (~sound \/ ~live) /\ UNCHANGED faults
       \/ \E f \in (IF reads THEN {"storage", "host"} ELSE {"host"}) : Fault(f)
    /\ Return(IF live THEN "permanent_input" ELSE "ctx")
    /\ UNCHANGED <<todo, made, stored, failing>>

\* The tool exits with zero and leaves the files F.
ToolEnds(at, p, F) ==
    /\ pc = at /\ sound
    /\ GoTo(p, F) /\ made' = F
    /\ UNCHANGED stored

\* Faulty variant of Upload: a refused upload is logged and passed over.
UploadBestEffort ==
    /\ pc = "upload"
    /\ \E f \in todo :
         /\ \/ live /\ stored' = stored \cup {f} /\ UNCHANGED faults
            \/ (IF live THEN Fault("storage") ELSE UNCHANGED faults) /\ UNCHANGED stored
         /\ GoTo("upload", todo \ {f})
         /\ UNCHANGED made

\* Ask for a destination and send a file to it. A failure is transient whatever
\* its cause, an ended context included; the object may have been stored.
Upload ==
    /\ pc = "upload"
    /\ \E f \in todo :
         \/ /\ live /\ GoTo("upload", todo \ {f})
            /\ stored' = stored \cup {f}
            /\ UNCHANGED <<faults, made>>
         \/ /\ IF live THEN Fault("storage") ELSE UNCHANGED faults
            /\ stored' \in {stored, stored \cup {f}}
            /\ Return("transient")
            /\ UNCHANGED <<todo, made, failing>>

\* All files are uploaded.
Finish(o) ==
    /\ pc = "upload" /\ todo = {}
    /\ Return(o)
    /\ UNCHANGED <<faults, todo, made, stored, failing>>

\* What the tool left is not what was asked for: Run said success.
Unknown(at) ==
    /\ pc = at /\ Fault("host")
    /\ Return("unknown")
    /\ UNCHANGED <<todo, made, stored, failing>>

\* A call of the operating system fails: a directory, a listing, a stat, a write.
HostFails(at) ==
    /\ pc = at /\ Fault("host")
    /\ Return("error")
    /\ UNCHANGED <<todo, made, stored, failing>>

----------------------------------------------------------------------------
(* encodeTask: the tool reads the source from its URL *)

EncodeStart == kind = "encode" /\ Start("tool", {}, TRUE)

EncodeRun ==
    /\ kind = "encode"
    /\ \/ ToolFails("tool", TRUE)
       \/ ToolEnds("tool", "inspect", {"output"}) /\ UNCHANGED faults
       \/ Unknown("inspect")
       \/ pc = "inspect" /\ GoTo("upload", made) /\ UNCHANGED <<faults, made, stored>>

EncodeUpload == kind = "encode" /\ (Upload \/ Finish("success"))

----------------------------------------------------------------------------
(* packageTask: the renditions are fetched, the tool reads them locally *)

PackageStart == kind = "package" /\ Start("fetch", given, given # {})

PackageFetch ==
    /\ kind = "package"
    /\ \/ \E i \in todo : Fetch(i, "fetch", todo \ {i})
       \/ /\ pc = "fetch" /\ todo = {}
          /\ GoTo("tool", {}) /\ UNCHANGED <<faults, made, stored>>

\* The packager normally leaves every file; a directory that lacks some is the
\* host's doing.
PackageRun ==
    /\ kind = "package"
    /\ \/ HostFails("tool") \/ HostFails("inspect")
       \/ ToolFails("tool", FALSE)
       \/ ToolEnds("tool", "inspect", PackageFiles) /\ UNCHANGED faults
       \/ \E F \in SUBSET PackageFiles : ToolEnds("tool", "inspect", F) /\ Fault("host")
       \/ /\ pc = "inspect" /\ made = {} /\ Return("unknown")
          /\ UNCHANGED <<faults, todo, made, stored, failing>>
       \/ /\ pc = "inspect" /\ made # {}
          /\ GoTo("upload", made) /\ UNCHANGED <<faults, made, stored>>

PackageUpload ==
    kind = "package" /\ (Upload \/ (todo # {} /\ HostFails("upload")))

\* Both manifests must exist.
PackageFinish ==
    kind = "package" /\ Finish(IF {"hls", "dash"} \subseteq made THEN "success" ELSE "unknown")

----------------------------------------------------------------------------
(* thumbnailTask: two runs of the tool, both on the source's URL *)

ThumbnailStart == kind = "thumbnail" /\ Start("poster", {}, TRUE)

ThumbnailPoster ==
    /\ kind = "thumbnail"
    /\ \/ ToolFails("poster", TRUE)
       \/ ToolEnds("poster", "tool", {"poster"}) /\ UNCHANGED faults

ThumbnailSprite ==
    /\ kind = "thumbnail"
    /\ \/ ToolFails("tool", TRUE)
       \/ ToolEnds("tool", "inspect", {"poster", "sprite"}) /\ UNCHANGED faults

\* Measure the sheet and write its index.
ThumbnailIndex ==
    /\ kind = "thumbnail"
    /\ \/ Unknown("inspect")
       \/ HostFails("inspect")
       \/ /\ pc = "inspect" /\ made' = ThumbnailFiles
          /\ GoTo("upload", ThumbnailFiles) /\ UNCHANGED <<faults, stored>>

ThumbnailUpload ==
    kind = "thumbnail" /\ (Upload \/ (todo # {} /\ HostFails("upload")) \/ Finish("success"))

----------------------------------------------------------------------------
(* validateTask: every expected output is fetched and probed *)

\* The labels that are missing fail their check before anything is fetched.
ValidateStart ==
    /\ kind = "validate" /\ pc = "start"
    /\ \/ ~spec /\ Return("permanent_config") /\ UNCHANGED <<faults, todo, made, stored, failing>>
       \/ spec /\ Fault("host") /\ Return("error") /\ UNCHANGED <<todo, made, stored, failing>>
       \/ /\ spec /\ pc' = "fetch" /\ todo' = given /\ failing' = (given # Labels)
          /\ UNCHANGED <<task, attempt, faults, live, made, stored, out, state>>

ValidateFetch ==
    kind = "validate" /\ \E i \in todo : Fetch(i, "check", todo \ {i})

\* CheckIntegrity, probeFile and Compare on the output just fetched. A probe that
\* fails is a failing check, whether the file, the host or the context was at fault.
ValidateCheck ==
    /\ kind = "validate" /\ pc = "check"
    /\ \/ sound /\ live /\ UNCHANGED <<faults, failing>>
       \/ (~sound \/ ~live) /\ failing' = TRUE /\ UNCHANGED faults
       \/ Fault("host") /\ failing' = TRUE
    /\ pc' = "fetch"
    /\ UNCHANGED <<task, attempt, live, todo, made, stored, out, state>>

ValidateVerdict ==
    /\ kind = "validate" /\ pc = "fetch" /\ todo = {}
    /\ Return(IF failing THEN "permanent_input" ELSE "success")
    /\ UNCHANGED <<faults, todo, made, stored, failing>>

----------------------------------------------------------------------------
(* probeTask: its context also ends after ProbeTimeout, which is not a verdict *)

ProbeTask ==
    /\ kind = "probe"
    /\ \/ Start("tool", {}, TRUE)
       \/ ToolFails("tool", TRUE)
       \/ HostFails("tool")
       \/ Unknown("tool")
       \/ /\ pc = "tool" /\ sound /\ Return("success")
          /\ UNCHANGED <<faults, todo, made, stored, failing>>

----------------------------------------------------------------------------
(* Around the executor *)

\* The control plane cancelled the task, or its lease was lost.
Stop ==
    /\ live /\ pc # "returned" /\ Fault("stop")
    /\ live' = FALSE
    /\ UNCHANGED <<task, attempt, pc, todo, made, stored, failing, out, state>>

\* An error is "unknown" to the agent; a stopped task is nobody's business any
\* more; a failure is retried if its class allows and attempts are left.
Class == IF out = "error" THEN "unknown" ELSE out

End(s) ==
    /\ state' = s
    /\ UNCHANGED <<attempt, pc, live, todo, made, stored, failing, out>>

\* A fresh attempt, with a fresh context and directory.
TryAgain ==
    /\ attempt' = attempt + 1 /\ pc' = "start" /\ live' = TRUE /\ out' = "none"
    /\ todo' = {} /\ made' = {} /\ stored' = {} /\ failing' = FALSE
    /\ UNCHANGED state

Settle ==
    /\ pc = "returned" /\ state = "running"
    /\ \/ ~live /\ End("stopped")
       \/ live /\ out = "success" /\ End("succeeded")
       \/ live /\ out # "success" /\ ~Retrying(Class, attempt, MaxAttempts) /\ End("failed")
       \/ live /\ out # "success" /\ Retrying(Class, attempt, MaxAttempts) /\ TryAgain
    /\ UNCHANGED <<task, faults>>

Next ==
    \/ EncodeStart \/ EncodeRun \/ EncodeUpload
    \/ PackageStart \/ PackageFetch \/ PackageRun \/ PackageUpload \/ PackageFinish
    \/ ThumbnailStart \/ ThumbnailPoster \/ ThumbnailSprite \/ ThumbnailIndex
    \/ ThumbnailUpload
    \/ ValidateStart \/ ValidateFetch \/ ValidateCheck \/ ValidateVerdict
    \/ ProbeTask \/ Stop \/ Settle

Spec == Init /\ [][Next]_vars

----------------------------------------------------------------------------
(* Properties *)

\* What an executor reports as done is all there: every file the tool left is in
\* storage (a manifest is useless without its segments), a package has both
\* manifests, a thumbnail task its three files, and a validated set has every
\* expected output and none that is wrong.
SuccessIsWhole ==
    out = "success" =>
      /\ stored = made /\ todo = {} /\ sound
      /\ kind = "encode" => made = {"output"}
      /\ kind = "package" => given # {} /\ {"hls", "dash"} \subseteq made
      /\ kind = "thumbnail" => made = ThumbnailFiles
      /\ kind = "validate" => given = Labels

\* A tool that was killed because its task was stopped says nothing about the
\* media: outside validation, an attempt ends as permanent_input only while its
\* context is live, so a task stopped here may still succeed elsewhere.
StoppedToolIsNoVerdict ==
    (kind # "validate" /\ out = "permanent_input") => live

\* The executors whose tool reads the source from its URL.
ReadsFromUrl == {"encode", "thumbnail", "probe"}

\* Trouble that has nothing to do with the media ends a task for good, before its
\* attempts are used up, in two ways only: the worker's host failed under it, or
\* storage failed while a tool was reading the source from its URL, which encodeTask,
\* thumbnailTask and probeTask cannot tell from bad media. What an executor fetches
\* or uploads itself is always tried again: nothing was uploaded when the task was
\* given up, and packageTask and validateTask survive storage altogether.
TroubleIsRetried ==
    (/\ state = "failed" /\ attempt < MaxAttempts
     /\ sound /\ spec /\ (kind \in {"package", "validate"} => given = Labels))
      => /\ out = "permanent_input" /\ stored = {}
         /\ faults["host"] > 0 \/ (kind \in ReadsFromUrl /\ faults["storage"] > 0)

\* A failed validation is about the outputs: one is missing or wrong, and another
\* worker would come to the same verdict. Only a probe that the host or the end of
\* the context spoiled is mistaken for one.
VerdictIsAboutOutputs ==
    (kind = "validate" /\ out = "permanent_input")
      => ~sound \/ given # Labels \/ faults["host"] > 0 \/ ~live
============================================================================

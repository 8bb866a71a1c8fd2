----------------------------- MODULE MediaTask -----------------------------
(***************************************************************************)
(* An executor and the tools it runs: Executors, with the runs of encode,  *)
(* package and thumbnail tasks made by MediaRun under the executor's       *)
(* context. probeTask and validateTask call ffprobe by other means, and    *)
(* their runs stay single steps.                                           *)
(***************************************************************************)
EXTENDS Executors

CONSTANTS Leader, Helpers, Grace, Daemons   \* see MediaRun

ASSUME RunAssumption == Leader \notin Helpers /\ Grace \in Nat /\ Daemons \in BOOLEAN

VARIABLES alive, pipes, deaf, exit, reader, killer, grace, main, result

tool == <<alive, pipes, deaf, exit, reader, killer, grace, main, result>>

Tool == INSTANCE MediaRun WITH cancelled <- ~live

TaskInit == Init /\ Tool!Init

\* The executor is where it calls Run.
CallsRun == kind \in {"encode", "package", "thumbnail"} /\ pc \in {"poster", "tool"}

\* Steps of the executor that have no part in a run, Stop included.
ExecutorAlone == Next /\ (~CallsRun \/ live' # live) /\ UNCHANGED tool

\* Run cannot start its tool, or the executor fails before it calls Run.
RunFails ==
    /\ CallsRun /\ main = "idle"
    /\ Next /\ faults' # faults /\ pc' = "returned"
    /\ UNCHANGED tool

StartRun == CallsRun /\ main = "idle" /\ UNCHANGED vars /\ Tool!Start

RunGoesOn == CallsRun /\ UNCHANGED vars /\ Tool!Step

\* Run has returned, and the executor acts on it.
RunReturns ==
    /\ CallsRun /\ main = "returned"
    /\ Next /\ live' = live /\ out' # "error"
    /\ (result = "ok") <=> (pc' # "returned")
    /\ Tool!Forget

TaskNext == ExecutorAlone \/ RunFails \/ StartRun \/ RunGoesOn \/ RunReturns

allVars == <<vars, tool>>

(* The goroutines of a run go on and time passes; a tool need never exit by
   itself. *)
TaskSpec ==
    /\ TaskInit /\ [][TaskNext]_allVars
    /\ WF_allVars(UNCHANGED vars /\ (Tool!Terminate \/ Tool!Kill \/ Tool!KillerStops))
    /\ WF_allVars(UNCHANGED vars /\ Tool!Tick)
    /\ WF_allVars(UNCHANGED vars /\ Tool!ParseProgress)
    /\ WF_allVars(UNCHANGED vars /\ Tool!TailCopy)
    /\ WF_allVars(UNCHANGED vars /\ Tool!Supervise)

----------------------------------------------------------------------------
(* Properties *)

TaskTypeOK == TypeOK /\ Tool!TypeOK

\* Run waits for the pipes, not only for the tool: once it has returned, and so
\* whenever the executor is past a run, no process of the group can write to the
\* files that are about to be used and removed, unless it gave the pipes up.
NobodyHoldsPipes ==
    main \in {"idle", "returned"} \/ ~CallsRun => Leader \notin alive /\ pipes = {}

\* "A cancelled run is a cancellation, not a tool failure": Run never returns the
\* status of a tool that it has signalled itself.
SignalIsNotFailure == result = "exit" => exit = "error"

\* Cancellation always ends the run, whoever ignores SIGTERM and whatever still
\* holds a pipe: otherwise the worker's only poll loop is stuck for good.
CancelEndsRun == ~live ~> (main \in {"idle", "returned"})

\* A run leaves nothing behind that its caller could trip over: no process with the
\* pipes open, and no status of a tool that Run has stopped itself.
RunIsOver == TaskTypeOK /\ NobodyHoldsPipes /\ SignalIsNotFailure

\* How a failure is classified decides whether anybody tries again. No executor takes
\* a tool that was stopped for a verdict on the media, except a validation, whose
\* attempt is nobody's by then. Trouble with storage is taken for one only where a
\* tool reads the source itself (encode, thumbnail, probe), never where the executor
\* moves files (package, validate, and every upload).
VerdictIsFair == StoppedToolIsNoVerdict /\ TroubleIsRetried /\ VerdictIsAboutOutputs
============================================================================

------------------------------ MODULE MediaRun ------------------------------
(***************************************************************************)
(* internal/agent/ffmpeg.go: Run, which starts a media tool in a process   *)
(* group of its own and supervises it with three goroutines: one that      *)
(* signals the group when the context ends, one that reads the progress    *)
(* pipe and one that keeps the tail of stderr. The processes, their        *)
(* signals and their pipes are the environment. MediaTask composes it with *)
(* the executors, which call Run and whose context it is given.            *)
(***************************************************************************)
EXTENDS Naturals, FiniteSets

CONSTANTS
    Leader,    \* the media tool itself
    Helpers,   \* the processes it may start
    Grace,     \* time units between SIGTERM and SIGKILL
    Daemons    \* helpers may give up the pipes they inherited

Group == {Leader} \cup Helpers

VARIABLES
    alive,      \* processes of the group that run
    pipes,      \* those that hold the write ends of stdout and stderr
    deaf,       \* those that ignore SIGTERM
    exit,       \* the tool's exit status: "none", "zero", "error" or "signal"
    cancelled,  \* ctx.Done()
    reader,     \* reader[g]: the goroutine that reads a pipe is "reading" or "done"
    killer,     \* the goroutine that signals: "waiting", "grace" or "done"
    grace,      \* time left until it sends SIGKILL
    main,       \* "idle", "pipes" (wg.Wait), "wait" (cmd.Wait), "stopped", "returned"
    result      \* what Run returns: "none", "ok", "exit" or "ctx"

vars == <<alive, pipes, deaf, exit, cancelled, reader, killer, grace, main, result>>

Readers == {"progress", "stderr"}

TypeOK ==
    /\ alive \subseteq Group /\ pipes \subseteq alive /\ deaf \subseteq Group
    /\ exit \in {"none", "zero", "error", "signal"}
    /\ cancelled \in BOOLEAN
    /\ reader \in [Readers -> {"reading", "done"}]
    /\ killer \in {"waiting", "grace", "done"} /\ grace \in 0 .. Grace
    /\ main \in {"idle", "pipes", "wait", "stopped", "returned"}
    /\ result \in {"none", "ok", "exit", "ctx"}

Init ==
    /\ alive = {} /\ pipes = {} /\ deaf = {} /\ exit = "none" /\ cancelled = FALSE
    /\ reader = [g \in Readers |-> "done"] /\ killer = "done" /\ grace = 0
    /\ main = "idle" /\ result = "none"

\* cmd.Start succeeds and the goroutines start. The helpers that run, and who
\* ignores SIGTERM, are up to the tool.
Start ==
    /\ main = "idle"
    /\ \E H \in SUBSET Helpers : /\ alive' = {Leader} \cup H
                               /\ pipes' = {Leader} \cup H
                               /\ deaf' \in SUBSET ({Leader} \cup H)
    /\ exit' = "none" /\ result' = "none"
    /\ reader' = [g \in Readers |-> "reading"]
    /\ killer' = "waiting" /\ grace' = 0
    /\ main' = "pipes"
    /\ UNCHANGED cancelled

----------------------------------------------------------------------------
(* The processes *)

\* Processes S end; the pipes they held are closed, and the tool's status is kept
\* for cmd.Wait.
Die(S, status) ==
    /\ alive' = alive \ S
    /\ pipes' = pipes \ S
    /\ exit' = IF Leader \in S \cap alive THEN status ELSE exit

ProcessExits(p) ==
    /\ p \in alive
    /\ \E status \in {"zero", "error"} : Die({p}, status)
    /\ UNCHANGED <<deaf, cancelled, reader, killer, grace, main, result>>

\* A helper that redirects its output.
ClosesPipes(p) ==
    /\ Daemons /\ p \in pipes \cap Helpers
    /\ pipes' = pipes \ {p}
    /\ UNCHANGED <<alive, deaf, exit, cancelled, reader, killer, grace, main, result>>

----------------------------------------------------------------------------
(* The goroutine that signals *)

\* ctx.Done: SIGTERM to the group, then the grace period begins.
Terminate ==
    /\ killer = "waiting" /\ cancelled
    /\ Die(alive \ deaf, "signal")
    /\ killer' = "grace" /\ grace' = Grace
    /\ UNCHANGED <<deaf, cancelled, reader, main, result>>

\* Faulty variant of Kill: the process is killed, not its group.
KillLeader ==
    /\ killer = "grace" /\ grace = 0
    /\ Die({Leader}, "signal")
    /\ killer' = "done"
    /\ UNCHANGED <<deaf, cancelled, reader, grace, main, result>>

\* The grace period is over: SIGKILL to the group, which nobody ignores.
Kill ==
    /\ killer = "grace" /\ grace = 0
    /\ Die(alive, "signal")
    /\ killer' = "done"
    /\ UNCHANGED <<deaf, cancelled, reader, grace, main, result>>

\* `stopped` is closed: the goroutine returns, whatever it was waiting for.
KillerStops ==
    /\ killer # "done" /\ main \in {"stopped", "returned"}
    /\ killer' = "done"
    /\ UNCHANGED <<alive, pipes, deaf, exit, cancelled, reader, grace, main, result>>

Tick ==
    /\ killer = "grace" /\ grace > 0
    /\ grace' = grace - 1
    /\ UNCHANGED <<alive, pipes, deaf, exit, cancelled, reader, killer, main, result>>

----------------------------------------------------------------------------
(* Readers and Run itself *)

\* parseProgress reads to the end of stdout, tailCopy to the end of stderr: until
\* no process of the group has the pipe open.
ParseProgress ==
    /\ reader["progress"] = "reading" /\ pipes = {}
    /\ reader' = [reader EXCEPT !["progress"] = "done"]
    /\ UNCHANGED <<alive, pipes, deaf, exit, cancelled, killer, grace, main, result>>

TailCopy ==
    /\ reader["stderr"] = "reading" /\ pipes = {}
    /\ reader' = [reader EXCEPT !["stderr"] = "done"]
    /\ UNCHANGED <<alive, pipes, deaf, exit, cancelled, killer, grace, main, result>>

\* Faulty variant of WaitReaders: the readers are not waited for.
WaitReadersNot ==
    /\ main = "pipes"
    /\ main' = "wait"
    /\ UNCHANGED <<alive, pipes, deaf, exit, cancelled, reader, killer, grace, result>>

\* wg.Wait.
WaitReaders ==
    /\ main = "pipes" /\ \A g \in Readers : reader[g] = "done"
    /\ main' = "wait"
    /\ UNCHANGED <<alive, pipes, deaf, exit, cancelled, reader, killer, grace, result>>

\* cmd.Wait, then close(stopped).
Wait ==
    /\ main = "wait" /\ exit # "none"
    /\ main' = "stopped"
    /\ UNCHANGED <<alive, pipes, deaf, exit, cancelled, reader, killer, grace, result>>

\* The context first, then the status.
Outcome == IF cancelled THEN "ctx" ELSE IF exit # "zero" THEN "exit" ELSE "ok"

Return ==
    /\ main = "stopped"
    /\ main' = "returned" /\ result' = Outcome
    /\ UNCHANGED <<alive, pipes, deaf, exit, cancelled, reader, killer, grace>>

Supervise == WaitReaders \/ Wait \/ Return

\* The caller goes on; what is left of the group is out of its sight.
Forget ==
    /\ main = "returned" /\ main' = "idle" /\ result' = "none" /\ exit' = "none"
    /\ alive' = {} /\ pipes' = {} /\ deaf' = {} /\ killer' = "done" /\ grace' = 0
    /\ UNCHANGED reader

\* What happens while a tool runs, its context aside.
Step ==
    \/ \E p \in Group : ProcessExits(p) \/ ClosesPipes(p)
    \/ Terminate \/ Kill \/ KillerStops \/ Tick
    \/ ParseProgress \/ TailCopy
    \/ Supervise
=============================================================================

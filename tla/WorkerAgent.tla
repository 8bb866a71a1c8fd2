----------------------------- MODULE WorkerAgent ----------------------------
(***************************************************************************)
(* internal/agent: one assignment from the answer to the poll to the end   *)
(* of its report: execute, its keepAlive goroutine, and the calls both     *)
(* make to the control plane, each of which is a request that is sent,     *)
(* served and answered, and may be slow, lost or time out.                 *)
(*                                                                         *)
(* Of the job store it has the attempt, its lease and whether its task has *)
(* been cancelled. A tick of its clock is a fraction of the lease; a call  *)
(* that fails before its client gives up has been waiting any time.        *)
(***************************************************************************)
EXTENDS Naturals, Sequences, JobStates

CONSTANTS
    LeaseTTL,     \* the lease, in time units
    CallTimeout,  \* http.Client.Timeout
    Backoff,      \* report's waits after its tries
    Artifacts,    \* the most outputs a task registers
    Failures,     \* what else an execution may end with
    MaxLosses,    \* calls that fail or time out
    Cancels       \* a user may cancel the job

ASSUME AgentAssumption ==
    /\ LeaseTTL \in Nat \ {0} /\ CallTimeout \in Nat
    /\ Backoff \in Seq(Nat) /\ Backoff # <<>> /\ Artifacts \in Nat /\ MaxLosses \in Nat
    /\ Failures \subseteq FailureClasses /\ Cancels \in BOOLEAN

VARIABLES
    att,         \* the attempt's state
    ttl,         \* time left until lease_expires_at
    cancelled,   \* the task is cancelled
    main,        \* where execute is
    keep,        \* the keepAlive goroutine: "off", "waiting", "calling" or "ending"
    ticker,      \* time until its ticker fires, for as long as the goroutine lives
    fired,       \* the ticker's channel, which holds one tick
    call,        \* call[k]: the call main or keep is waiting for
    stopped,     \* runCtx is cancelled
    result,      \* what report will say
    left,        \* outputs still to be registered; a probe or a validation has none
    try,         \* report's try, and how long it still sleeps before the next
    sleep,
    losses,      \* calls lost so far
    slow         \* a call has taken more than one time unit

store == <<att, ttl, cancelled>>
agent == <<main, keep, ticker, fired, call, stopped, result, left, try, sleep>>
vars == <<store, agent, losses, slow>>

NoCall == [kind |-> "none", at |-> "none", ans |-> "none", age |-> 0]
Call(kind) == [NoCall EXCEPT !.kind = kind, !.at = "sent"]

TypeOK ==
    /\ att \in AttemptStates /\ ttl \in 0 .. LeaseTTL /\ cancelled \in BOOLEAN
    /\ main \in {"polling", "starting", "tool", "upload", "register", "report", "backoff", "done"}
    /\ keep \in {"off", "waiting", "calling", "ending"}
    /\ ticker \in 0 .. LeaseTTL /\ fired \in BOOLEAN
    /\ call \in [{"main", "keep"} ->
                  [kind : {"none", "start", "progress", "register", "complete"},
                   at : {"none", "sent", "answered"},
                   ans : {"none", "ok", "cancel", "stale", "error"}, age : 0 .. CallTimeout]]
    /\ stopped \in BOOLEAN /\ result \in {"none", "success"} \cup FailureClasses
    /\ left \in 0 .. Artifacts /\ try \in 0 .. Len(Backoff)
    /\ sleep \in Nat /\ losses \in 0 .. MaxLosses /\ slow \in BOOLEAN

\* Faulty variant of RenewEvery: once per lease.
RenewEveryTTL == LeaseTTL

\* keepAlive's ticker: a third of the lease, and at least one tick.
RenewEvery == IF LeaseTTL \div 3 < 1 THEN 1 ELSE LeaseTTL \div 3

\* The task has just been leased and the answer to the poll is on its way.
Init ==
    /\ att = "leased" /\ ttl = LeaseTTL /\ cancelled = FALSE
    /\ main = "polling" /\ keep = "off" /\ ticker = 0 /\ fired = FALSE
    /\ call = [k \in {"main", "keep"} |-> NoCall]
    /\ stopped = FALSE /\ result = "none" /\ left \in 0 .. Artifacts /\ try = 0 /\ sleep = 0
    /\ losses = 0 /\ slow = FALSE

----------------------------------------------------------------------------
(* The control plane *)

\* handleWorkerStarted.
HandleStarted ==
    \/ /\ att \notin Live
       /\ call' = [call EXCEPT !["main"].at = "answered", !["main"].ans = "stale"]
       /\ UNCHANGED store
    \/ /\ att = "leased"
       /\ att' = IF cancelled THEN "cancelled" ELSE "running"
       /\ ttl' = IF cancelled THEN ttl ELSE LeaseTTL
       /\ call' = [call EXCEPT !["main"].at = "answered", !["main"].ans = "ok"]
       /\ UNCHANGED cancelled

\* handleWorkerProgress: the lease is renewed, or the worker is told to stop.
HandleProgress ==
    LET answer == CASE att \notin Live -> "stale"
                    [] att \in Live /\ cancelled -> "cancel"
                    [] OTHER -> "ok"
    IN  /\ ttl' = IF answer = "ok" THEN LeaseTTL ELSE ttl
        /\ call' = [call EXCEPT !["keep"].at = "answered", !["keep"].ans = answer]
        /\ UNCHANGED <<att, cancelled>>

\* handleRegisterArtifact as far as the lease is concerned, which it checks and
\* does not renew.
HandleRegister ==
    /\ call' = [call EXCEPT !["main"].at = "answered",
                            !["main"].ans = IF att \in Live /\ ~cancelled THEN "ok" ELSE "stale"]
    /\ UNCHANGED store

\* handleWorkerComplete: refused when stale, and an internal error when the state
\* machine does not allow the move.
HandleComplete ==
    LET to == IF cancelled THEN "cancelled" ELSE IF result = "success" THEN "succeeded" ELSE "failed"
        legal == cancelled \/ CanTransitionAttempt(att, to)
    IN  /\ att' = IF att \in Live /\ legal THEN to ELSE att
        /\ call' = [call EXCEPT !["main"].at = "answered",
                                !["main"].ans = IF att \notin Live THEN "stale"
                                                ELSE IF legal THEN "ok" ELSE "error"]
        /\ UNCHANGED <<ttl, cancelled>>

Serve(k) ==
    /\ call[k].at = "sent"
    /\ \/ call[k].kind = "start" /\ HandleStarted
       \/ call[k].kind = "progress" /\ HandleProgress
       \/ call[k].kind = "register" /\ HandleRegister
       \/ call[k].kind = "complete" /\ HandleComplete
    /\ UNCHANGED <<main, keep, ticker, fired, stopped, result, left, try, sleep, losses, slow>>

\* Faulty variant of Expire: only attempts that were reported started are looked at.
ExpireStarted ==
    /\ att = "running" /\ ttl = 0
    /\ att' = "expired"
    /\ UNCHANGED <<ttl, cancelled, agent, losses, slow>>

\* ExpireLeases.
Expire ==
    /\ att \in Live /\ ttl = 0
    /\ att' = "expired"
    /\ UNCHANGED <<ttl, cancelled, agent, losses, slow>>

Cancel ==
    /\ Cancels /\ ~cancelled /\ att \in Live
    /\ cancelled' = TRUE
    /\ UNCHANGED <<att, ttl, agent, losses, slow>>

\* A call fails, at once or when the client has waited for as long as it will, and
\* before or after it has had its effect.
LoseCall(k) ==
    /\ call[k].at # "none" /\ call[k].ans # "error"
    /\ losses < MaxLosses /\ losses' = losses + 1
    /\ call' = [call EXCEPT ![k].at = "answered", ![k].ans = "error"]
    /\ UNCHANGED <<store, main, keep, ticker, fired, stopped, result, left, try, sleep, slow>>

----------------------------------------------------------------------------
(* execute *)

\* The answer to the poll arrives; Started is called.
ReceiveAssignment ==
    /\ main = "polling"
    /\ main' = "starting"
    /\ call' = [call EXCEPT !["main"] = Call("start")]
    /\ UNCHANGED <<store, keep, ticker, fired, stopped, result, left, try, sleep, losses, slow>>

\* The answer is lost, or resolveSpec fails after the lease has committed.
LoseAssignment ==
    /\ main = "polling" /\ losses < MaxLosses
    /\ main' = "done" /\ losses' = losses + 1
    /\ UNCHANGED <<store, keep, ticker, fired, call, stopped, result, left, try, sleep, slow>>

\* An operation this worker has no executor for is reported at once.
NoExecutor ==
    /\ main = "polling" /\ "permanent_config" \in Failures
    /\ main' = "report" /\ result' = "permanent_config" /\ try' = 1
    /\ call' = [call EXCEPT !["main"] = Call("complete")]
    /\ UNCHANGED <<store, keep, ticker, fired, stopped, left, sleep, losses, slow>>

\* Started is answered. Only a stale attempt keeps execute from going on.
AnswerStarted ==
    /\ main = "starting" /\ call["main"].at = "answered"
    /\ IF call["main"].ans = "stale"
       THEN main' = "done" /\ UNCHANGED <<keep, ticker>>
       ELSE main' = "tool" /\ keep' = "waiting" /\ ticker' = RenewEvery
    /\ call' = [call EXCEPT !["main"] = NoCall]
    /\ UNCHANGED <<store, fired, stopped, result, left, try, sleep, losses, slow>>

\* The media tool is done, in time or just before it would have been killed, and the
\* executor goes on to upload.
ToolEnds ==
    /\ main = "tool"
    /\ main' = "upload"
    /\ UNCHANGED <<store, keep, ticker, fired, call, stopped, result, left, try, sleep, losses, slow>>

\* close(done): keepAlive returns, after the call it is in.
CloseDone == keep' = IF keep = "calling" THEN "ending" ELSE "off"

\* What execute does with a result: register the outputs of a success, report
\* anything else.
Deliver(r, next) ==
    /\ result' = r
    /\ main' = next
    /\ try' = IF next = "report" THEN 1 ELSE try
    /\ call' = [call EXCEPT !["main"] = Call(IF next = "report" THEN "complete" ELSE "register")]

\* The executor returns an outcome, which execute delivers even when the run was
\* stopped: the work was done already, an upload that runCtx interrupted is a
\* transient failure like any other, and a validation whose probe was killed finds
\* its media unplayable.
ExecutorReturns ==
    /\ CloseDone
    /\ \/ main = "upload" /\ Deliver("success", IF left = 0 THEN "report" ELSE "register")
       \/ /\ main \in {"tool", "upload"}
          /\ \E class \in Failures : Deliver(class, "report")
       \/ main = "upload" /\ stopped /\ Deliver("transient", "report")
    /\ UNCHANGED <<store, ticker, fired, stopped, left, sleep, losses, slow>>

\* A stopped executor returns ctx.Err(), and nothing is reported.
TaskCancelled ==
    /\ main = "tool" /\ stopped
    /\ CloseDone
    /\ main' = "done"
    /\ UNCHANGED <<store, ticker, fired, call, stopped, result, left, try, sleep, losses, slow>>

\* Faulty variant of AnswerRegister: whatever the first answer is, it will do.
AnswerRegisterFirst ==
    LET ans == call["main"].ans
    IN  /\ main = "register" /\ call["main"].at = "answered"
        /\ left' = IF ans = "ok" THEN left - 1 ELSE left
        /\ Deliver("success", "report")
        /\ UNCHANGED <<store, keep, ticker, fired, stopped, sleep, losses, slow>>

\* The loop over outcome.Artifacts.
AnswerRegister ==
    LET ans == call["main"].ans
    IN  /\ main = "register" /\ call["main"].at = "answered"
        /\ \/ /\ ans = "stale"
              /\ main' = "done" /\ call' = [call EXCEPT !["main"] = NoCall]
              /\ UNCHANGED <<result, try, left>>
           \/ /\ ans = "error"
              /\ Deliver("transient", "report") /\ UNCHANGED left
           \/ /\ ans = "ok"
              /\ left' = left - 1
              /\ Deliver("success", IF left = 1 THEN "report" ELSE "register")
        /\ UNCHANGED <<store, keep, ticker, fired, stopped, sleep, losses, slow>>

----------------------------------------------------------------------------
(* report *)

AnswerComplete ==
    /\ main = "report" /\ call["main"].at = "answered"
    /\ call' = [call EXCEPT !["main"] = NoCall]
    /\ IF call["main"].ans = "error"
       THEN main' = "backoff" /\ sleep' = Backoff[try]
       ELSE main' = "done" /\ sleep' = 0
    /\ UNCHANGED <<store, keep, ticker, fired, stopped, result, left, try, losses, slow>>

\* The wait is over: the next try, or none.
Retry ==
    /\ main = "backoff" /\ sleep = 0
    /\ IF try < Len(Backoff)
       THEN /\ main' = "report" /\ try' = try + 1
            /\ call' = [call EXCEPT !["main"] = Call("complete")]
       ELSE main' = "done" /\ UNCHANGED <<try, call>>
    /\ UNCHANGED <<store, keep, ticker, fired, stopped, result, left, sleep, losses, slow>>

----------------------------------------------------------------------------
(* keepAlive *)

SendProgress ==
    /\ keep = "waiting" /\ fired
    /\ keep' = "calling" /\ fired' = FALSE
    /\ call' = [call EXCEPT !["keep"] = Call("progress")]
    /\ UNCHANGED <<store, main, ticker, stopped, result, left, try, sleep, losses, slow>>

\* Faulty variant of AnswerProgress: only a cancellation stops the run.
AnswerProgressIgnoresStale ==
    /\ keep \in {"calling", "ending"} /\ call["keep"].at = "answered"
    /\ call' = [call EXCEPT !["keep"] = NoCall]
    /\ LET stop == call["keep"].ans = "cancel"
       IN  /\ stopped' = (stopped \/ (stop /\ keep = "calling"))
           /\ keep' = IF stop \/ keep = "ending" THEN "off" ELSE "waiting"
    /\ UNCHANGED <<store, main, ticker, fired, result, left, try, sleep, losses, slow>>

\* Progress is answered: cancelled and stale stop the run, an error does not.
AnswerProgress ==
    /\ keep \in {"calling", "ending"} /\ call["keep"].at = "answered"
    /\ call' = [call EXCEPT !["keep"] = NoCall]
    /\ LET stop == call["keep"].ans \in {"stale", "cancel"}
       IN  /\ stopped' = (stopped \/ (stop /\ keep = "calling"))
           /\ keep' = IF stop \/ keep = "ending" THEN "off" ELSE "waiting"
    /\ UNCHANGED <<store, main, ticker, fired, result, left, try, sleep, losses, slow>>

----------------------------------------------------------------------------

\* Time passes, but no call outlasts CallTimeout, and what the agent does by itself
\* it does at once.
Tick ==
    /\ \A k \in {"main", "keep"} : call[k].at # "none" => call[k].age < CallTimeout /\ call[k].ans # "error"
    /\ keep = "waiting" => ~fired
    /\ ~(main = "backoff" /\ sleep = 0) /\ main # "polling"
    /\ ~(main \in {"tool", "upload"} /\ stopped)
    /\ ttl' = IF ttl > 0 THEN ttl - 1 ELSE 0
    /\ ticker' = CASE keep = "off" -> 0 [] ticker > 1 -> ticker - 1 [] OTHER -> RenewEvery
    /\ fired' = (keep # "off" /\ (fired \/ ticker = 1))
    /\ sleep' = IF sleep > 0 THEN sleep - 1 ELSE 0
    /\ call' = [k \in {"main", "keep"} |->
                  IF call[k].at = "none" THEN NoCall ELSE [call[k] EXCEPT !.age = @ + 1]]
    /\ slow' = (slow \/ \E k \in {"main", "keep"} : call'[k].age > 1)
    /\ UNCHANGED <<att, cancelled, main, keep, stopped, result, left, try, losses>>

Execute == ReceiveAssignment \/ NoExecutor \/ AnswerStarted \/ TaskCancelled
             \/ AnswerRegister \/ AnswerComplete \/ Retry
KeepAlive == SendProgress \/ AnswerProgress

Next ==
    \/ Execute \/ ToolEnds \/ ExecutorReturns \/ KeepAlive \/ LoseAssignment
    \/ \E k \in {"main", "keep"} : Serve(k) \/ LoseCall(k)
    \/ Expire \/ Cancel \/ Tick

Spec == Init /\ [][Next]_vars

(* The agent's steps, the control plane's and time go on. The media tool may run
   for ever; an executor whose context has ended returns. *)
LiveSpec ==
    /\ Spec
    /\ WF_vars(Execute) /\ WF_vars(KeepAlive) /\ WF_vars(Expire) /\ WF_vars(Tick)
    /\ WF_vars(stopped /\ ExecutorReturns)
    /\ \A k \in {"main", "keep"} : WF_vars(Serve(k))

----------------------------------------------------------------------------
(* Properties *)

Executing == main \in {"tool", "upload"}

\* keepAlive: "frequent enough that a slow encode is never reclaimed out from under
\* us". However the renewals fall between the ticks, and although one call is lost,
\* the attempt does not expire while the executor runs, as long as calls are
\* answered or fail promptly.
LeaseHeldWhileWorking == (Executing /\ losses <= 1 /\ ~slow) => att # "expired"

\* client.go: a set is never closed with an artifact missing. A success is recorded
\* only for an attempt all of whose outputs have been registered.
SuccessIsRegistered == att = "succeeded" => result = "success" /\ left = 0

\* execute: "Cancelled by the control plane. It already knows". A run that was told
\* to stop may still report a success or a failure, its outcome being there already,
\* but the control plane records neither: the success nobody accepts, and the failure
\* would start a retry of work nobody wants.
StoppedWorkLeavesNoTrace == stopped => att \notin {"succeeded", "failed"}

\* The control plane's only word to a worker is the answer to its progress report:
\* a run whose lease is gone or whose task is cancelled is stopped, although calls
\* are lost and the tool itself would never end.
LostWorkStops == (Executing /\ (att \notin Live \/ cancelled)) ~> ~Executing

\* The attempt of an assignment always ends once its work has: the poll's answer,
\* the start or every report may be lost, but whoever stops renewing is found by
\* the sweep.
AttemptEnds == (main # "polling" /\ ~Executing) ~> (att \notin Live \/ Executing)

\* Each of the agent's two goroutines waits for the call of the place it is at; only
\* an executor that runs is kept alive; a report has a try, a registration something
\* left to register; and what a progress report was told is still so.
CallsOK ==
    /\ main \in {"polling", "tool", "upload", "backoff", "done"} <=> call["main"].at = "none"
    /\ main = "starting" => call["main"].kind = "start"
    /\ main = "register" => call["main"].kind = "register" /\ left > 0
    /\ main = "report" => call["main"].kind = "complete"
    /\ main \in {"report", "backoff"} => try # 0
    /\ keep \in {"off", "waiting"} <=> call["keep"].at = "none"
    /\ keep \in {"calling", "ending"} => call["keep"].kind = "progress"
    /\ keep \in {"waiting", "calling"} => Executing
    /\ keep = "ending" => main \in {"register", "report", "backoff", "done"}
    /\ call["keep"].at = "answered" => call["keep"].ans # "none"
    /\ call["keep"].ans = "stale" => att \notin Live
    /\ call["keep"].ans = "cancel" => cancelled

\* What the control plane has on record of an attempt is true of it, whatever was
\* lost, refused or stopped in between. A verdict comes from a report, and a report of
\* a success from an attempt with everything registered.
RecordIsTrue ==
    /\ TypeOK /\ SuccessIsRegistered /\ StoppedWorkLeavesNoTrace /\ CallsOK
    /\ att \in {"succeeded", "failed"} => main \in {"report", "backoff", "done"}
    /\ main \in {"report", "backoff"} /\ result = "success" => left = 0
    /\ stopped => att \notin Live \/ cancelled
=============================================================================

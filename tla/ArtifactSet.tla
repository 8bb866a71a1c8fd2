---------------------------- MODULE ArtifactSet -----------------------------
(***************************************************************************)
(* internal/artifact and the handlers that chain it to the job store: how  *)
(* the outputs of one job reach storage, become artifacts, are validated   *)
(* and are delivered. The job has encode tasks, one output each, and a     *)
(* validate task that depends on all of them.                              *)
(*                                                                         *)
(* A transaction of the job store has up to three moments here, between    *)
(* which anything may happen: it reads the attempt and, without a lock,    *)
(* the task; it locks the task, writes it and sees what other transactions *)
(* have committed; it writes the job from what it saw, and commits.        *)
(* JobStore takes the second moment apart. An attempt row is locked by one *)
(* transaction at a time, so task and number name a transaction too.       *)
(*                                                                         *)
(* The PUT to a presigned URL needs no lease, and all attempts of a task   *)
(* write the same object, because its key is made of the job and the label.*)
(***************************************************************************)
EXTENDS Naturals, JobStates

CONSTANTS
    Outputs,      \* encode tasks, each named by the label of its output
    Check,        \* the validate task
    MaxAttempts,
    Contents,     \* what an encode may produce; two runs need not agree
    SizeOf,       \* [Contents -> Nat]
    Failures,     \* the classes an execution may fail with
    MaxFaults,    \* processes and connections that fail
    MaxLapses,    \* leases of workers that are alive that lapse
    Cancels,      \* a user may cancel the job
    MaxTroubles,  \* failures, lapses and a cancellation together
    None

ASSUME ArtifactAssumption ==
    /\ Outputs # {} /\ Check \notin Outputs
    /\ MaxAttempts \in Nat \ {0}
    /\ SizeOf \in [Contents -> Nat]
    /\ Failures \subseteq FailureClasses
    /\ MaxFaults \in Nat /\ MaxLapses \in Nat /\ MaxTroubles \in Nat /\ Cancels \in BOOLEAN
    /\ None \notin Contents

Tasks == Outputs \cup {Check}
Numbers == 1 .. MaxAttempts

VARIABLES
    task,    \* task[t]: state and attempt_count
    att,     \* att[t][n]: state of the attempt
    job,     \* state of the job
    step,    \* step[t][n]: how far the transaction on the attempt has come
    new,     \* new[t][n]: what it has written and not committed
    cancelled, \* a user has cancelled the job
    pc,      \* pc[t][n]: where the attempt's worker, or its last request, is
    made,    \* made[t][n]: what the attempt produced
    list,    \* list[n]: the artifacts attempt n of Check was given
    res,     \* res[t][n]: what the worker is about to report
    obj,     \* obj[o]: the object in storage
    set,     \* state of the job's artifact set
    art,     \* art[o]: what the artifact row says its object is
    faults,  \* failures so far
    lapses   \* lapses so far

store == <<task, att, job, step, new, cancelled>>
vars == <<store, pc, made, list, res, obj, set, art, faults, lapses>>

Unregistered == [o \in Outputs |-> None]

Places == {"none", "spec", "run", "register", "head", "set", "insert", "row", "create",
           "report", "close", "complete", "fail", "over"}

\* A transaction's writes: the states of its task, attempt and job, and whether it
\* releases Check.
Writes == [task : TaskStates, att : AttemptStates, job : JobStates, release : BOOLEAN]
NoWrite == [task |-> "absent", att |-> "absent", job |-> "absent", release |-> FALSE]

TypeOK ==
    /\ task \in [Tasks -> [state : TaskStates, count : 0 .. MaxAttempts]]
    /\ att \in [Tasks -> [Numbers -> AttemptStates]]
    /\ job \in JobStates
    /\ step \in [Tasks -> [Numbers -> {"none", "report", "sweep", "write"}]]
    /\ new \in [Tasks -> [Numbers -> Writes]]
    /\ cancelled \in BOOLEAN
    /\ pc \in [Tasks -> [Numbers -> Places]]
    /\ made \in [Outputs -> [Numbers -> Contents \cup {None}]]
    /\ list \in [Numbers -> [Outputs -> Contents \cup {None}]]
    /\ res \in [Tasks -> [Numbers -> {"none", "success"} \cup FailureClasses]]
    /\ obj \in [Outputs -> Contents \cup {None}]
    /\ set \in {"none", "building", "complete", "failed"}
    /\ art \in [Outputs -> Contents \cup {None}]
    /\ faults \in 0 .. MaxFaults /\ lapses \in 0 .. MaxLapses

Init ==
    /\ task = [t \in Tasks |-> [state |-> IF t = Check THEN "pending" ELSE "queued", count |-> 0]]
    /\ att = [t \in Tasks |-> [n \in Numbers |-> "absent"]]
    /\ job = "pending"
    /\ step = [t \in Tasks |-> [n \in Numbers |-> "none"]]
    /\ new = [t \in Tasks |-> [n \in Numbers |-> NoWrite]]
    /\ cancelled = FALSE
    /\ pc = [t \in Tasks |-> [n \in Numbers |-> "none"]]
    /\ made = [o \in Outputs |-> [n \in Numbers |-> None]]
    /\ list = [n \in Numbers |-> Unregistered]
    /\ res = [t \in Tasks |-> [n \in Numbers |-> "none"]]
    /\ obj = Unregistered
    /\ set = "none"
    /\ art = Unregistered
    /\ faults = 0 /\ lapses = 0

Goto(t, n, place) == pc' = [pc EXCEPT ![t][n] = place]

Open(t, n) == att[t][n] \in Live

\* The bound on troubles has room for one more.
Room == faults + lapses + (IF cancelled THEN 1 ELSE 0) < MaxTroubles

----------------------------------------------------------------------------
(* Transactions of the job store *)

\* The row of task t is locked, by a transaction on one of its attempts or by one
\* that releases it.
Locked(t) ==
    \/ \E n \in Numbers : step[t][n] = "write"
    \/ t = Check /\ \E o \in Outputs, n \in Numbers : step[o][n] = "write" /\ new[o][n].release

\* The transaction on attempt n writes the states s and a. releaseDependents and
\* reconcileJob's count see these writes and otherwise what is committed now.
Write(t, n, s, a) ==
    LET view == [u \in Tasks |-> IF u = t THEN s ELSE task[u].state]
        ready == /\ s = "succeeded" /\ view[Check] = "pending"
                 /\ \A o \in Outputs : view[o] = "succeeded"
        after == IF ready THEN [view EXCEPT ![Check] = "queued"] ELSE view
    IN  /\ ~Locked(t)
        /\ step' = [step EXCEPT ![t][n] = "write"]
        /\ new' = [new EXCEPT ![t][n] = [task |-> s, att |-> a, job |-> Derive(after, Tasks),
                                         release |-> ready]]

\* The transaction is over, committed or not.
EndTransaction(t, n) ==
    /\ step' = [step EXCEPT ![t][n] = "none"]
    /\ new' = [new EXCEPT ![t][n] = NoWrite]

\* The commit of a transaction that has written its task: reconcileJob's update
\* waits for the job row, and then puts what was counted over what is there. A
\* lease goes on to its task's spec or to work, a report to the closing of the set.
Commit(t, n) ==
    LET w == new[t][n]
        leased == w.att = "running"
    IN  /\ step[t][n] = "write"
        /\ task' = [u \in Tasks |->
                      IF u = t THEN [state |-> w.task,
                                     count |-> IF leased THEN n ELSE task[t].count]
                      ELSE IF u = Check /\ w.release THEN [task[u] EXCEPT !.state = "queued"]
                      ELSE task[u]]
        /\ att' = [att EXCEPT ![t][n] = w.att]
        /\ job' = w.job
        /\ Goto(t, n, CASE leased -> IF t = Check THEN "spec" ELSE "run"
                        [] w.att = "expired" -> pc[t][n]
                        [] OTHER -> "close")
        /\ EndTransaction(t, n)
        /\ UNCHANGED <<cancelled, made, list, res, obj, set, art, faults, lapses>>

\* The database picks a victim of a deadlock, or the connection breaks. A worker
\* tries its report again, a sweep is repeated by the next tick.
Rollback(t, n) ==
    /\ step[t][n] # "none"
    /\ EndTransaction(t, n)
    /\ UNCHANGED <<task, att, job, cancelled, pc, made, list, res, obj, set, art, faults,
                   lapses>>

\* Lease, and the start report that follows it.
Lease(t) ==
    /\ task[t].state = "queued"
    /\ Write(t, task[t].count + 1, "running", "running")
    /\ UNCHANGED <<task, att, job, cancelled, pc, made, list, res, obj, set, art, faults,
                   lapses>>

\* ForJob: the artifacts of the job's current set.
ForJob == art

\* resolveSpec, after the lease has committed: a validate task is given what is
\* registered now.
ResolveSpec(n) ==
    /\ pc[Check][n] = "spec"
    /\ list' = [list EXCEPT ![n] = ForJob]
    /\ Goto(Check, n, "run")
    /\ UNCHANGED <<store, made, res, obj, set, art, faults, lapses>>

\* The lease of an attempt runs out, under its worker or after it.
LeaseRunsOut(t, n) ==
    /\ Open(t, n)
    /\ \/ pc[t][n] = "over" /\ UNCHANGED lapses
       \/ pc[t][n] # "over" /\ lapses < MaxLapses /\ Room /\ lapses' = lapses + 1

\* ExpireLeases' select, for one lease that no other transaction holds. The task is
\* read without a lock; if it is over, only the attempt is written.
Expire(t, n) ==
    /\ step[t][n] = "none"
    /\ LeaseRunsOut(t, n)
    /\ IF task[t].state \in TaskTerminal
       THEN att' = [att EXCEPT ![t][n] = "expired"] /\ UNCHANGED step
       ELSE step' = [step EXCEPT ![t][n] = "sweep"] /\ UNCHANGED att
    /\ UNCHANGED <<task, job, new, cancelled, pc, made, list, res, obj, set, art, faults>>

\* Faulty variant of Requeue: the task is left as it is.
RequeueAttemptOnly(t, n) ==
    /\ step[t][n] = "sweep"
    /\ Write(t, n, task[t].state, "expired")
    /\ UNCHANGED <<task, att, job, cancelled, pc, made, list, res, obj, set, art, faults,
                   lapses>>

\* The rest of ExpireLeases: the task is queued again or out of budget, whatever its
\* row holds by now.
Requeue(t, n) ==
    /\ step[t][n] = "sweep"
    /\ Write(t, n, IF task[t].count < MaxAttempts THEN "queued" ELSE "failed", "expired")
    /\ UNCHANGED <<task, att, job, cancelled, pc, made, list, res, obj, set, art, faults,
                   lapses>>

\* handleCancelJob. The job row is locked first, so whoever has written a task of
\* the job has either committed or is a victim of the deadlock.
Cancel ==
    /\ Cancels /\ Room
    /\ job \notin JobTerminal
    /\ \A t \in Tasks : task[t].state \notin TaskTerminal => ~Locked(t)
    /\ job' = "cancelled"
    /\ task' = [t \in Tasks |-> IF task[t].state \in TaskTerminal THEN task[t]
                                ELSE [task[t] EXCEPT !.state = "cancelled"]]
    /\ cancelled' = TRUE
    /\ UNCHANGED <<att, step, new, pc, made, list, res, obj, set, art, faults, lapses>>

----------------------------------------------------------------------------
(* The worker executes *)

\* encodeTask: the encoder runs and the output is put into storage, lease or no
\* lease. Two runs of one encode need not produce the same bytes.
EncodeTask(o, n) ==
    /\ pc[o][n] = "run"
    /\ \E c \in Contents : /\ made' = [made EXCEPT ![o][n] = c]
                           /\ obj' = [obj EXCEPT ![o] = c]
    /\ res' = [res EXCEPT ![o][n] = "success"]
    /\ Goto(o, n, "register")
    /\ UNCHANGED <<store, list, set, art, faults, lapses>>

\* An execution that fails before it has put anything into storage.
ExecutionFails(t, n) ==
    /\ pc[t][n] = "run"
    /\ \E class \in Failures : res' = [res EXCEPT ![t][n] = class]
    /\ Goto(t, n, "report")
    /\ UNCHANGED <<store, made, list, obj, set, art, faults, lapses>>

\* A progress answer says that the lease is lost or the task cancelled, and the
\* execution ends without a report.
ExecutionStops(t, n) ==
    /\ pc[t][n] = "run"
    /\ ~Open(t, n) \/ task[t].state = "cancelled"
    /\ Goto(t, n, "over")
    /\ UNCHANGED <<store, made, list, res, obj, set, art, faults, lapses>>

\* CheckArtifactCount and CheckIntegrity over what attempt n was given: every
\* expected label is there, and the bytes are the ones that were registered.
Verified(n) == \A o \in Outputs : list[n][o] # None /\ obj[o] = list[n][o]

\* validateTask: a report that failed is a verdict on the media.
ValidateTask(n) ==
    /\ pc[Check][n] = "run"
    /\ res' = [res EXCEPT ![Check][n] = IF Verified(n) THEN "success" ELSE "permanent_input"]
    /\ Goto(Check, n, "report")
    /\ UNCHANGED <<store, made, list, obj, set, art, faults, lapses>>

----------------------------------------------------------------------------
(* Registering an output *)

\* AuthorizeAttempt, a transaction of its own, which waits for one that holds the
\* attempt. A refused worker stops.
AuthorizeAttempt(o, n) ==
    /\ pc[o][n] = "register" /\ step[o][n] = "none"
    /\ Goto(o, n, IF Open(o, n) /\ task[o].state # "cancelled" THEN "head" ELSE "over")
    /\ UNCHANGED <<store, made, list, res, obj, set, art, faults, lapses>>

\* Register up to its transaction: the object is there and has the size that was
\* reported. A mismatch is answered with a conflict, which the agent takes for a
\* lost lease.
HeadObject(o, n) ==
    /\ pc[o][n] = "head"
    /\ Goto(o, n, IF SizeOf[obj[o]] = SizeOf[made[o][n]] THEN "set" ELSE "over")
    /\ UNCHANGED <<store, made, list, res, obj, set, art, faults, lapses>>

\* currentSet's select.
CurrentSet(o, n) ==
    /\ pc[o][n] = "set"
    /\ Goto(o, n, IF set = "none" THEN "create" ELSE "insert")
    /\ UNCHANGED <<store, made, list, res, obj, set, art, faults, lapses>>

\* Something outside fails.
Fault == faults < MaxFaults /\ Room /\ faults' = faults + 1

\* The worker's next place after an answer to its registration; an error that is
\* not a conflict becomes a failure worth a retry.
RegisteredAnswer(o, n, ok) ==
    /\ res' = [res EXCEPT ![o][n] = IF ok THEN "success" ELSE "transient"]
    /\ Goto(o, n, "report")

\* The registration has committed; its answer arrives or is lost.
Registered(o, n) ==
    \/ RegisteredAnswer(o, n, TRUE) /\ UNCHANGED faults
    \/ RegisteredAnswer(o, n, FALSE) /\ Fault

\* Register's select in an existing set: a row that is there is the answer.
FindArtifact(o, n) ==
    /\ pc[o][n] = "insert"
    /\ IF art[o] # None THEN Registered(o, n)
       ELSE Goto(o, n, "row") /\ UNCHANGED <<res, faults>>
    /\ UNCHANGED <<store, made, list, obj, set, art, lapses>>

\* Faulty variant of InsertArtifact: a row that is there is replaced.
InsertArtifactUpsert(o, n) ==
    /\ pc[o][n] = "row"
    /\ art' = [art EXCEPT ![o] = made[o][n]]
    /\ Registered(o, n)
    /\ UNCHANGED <<store, made, list, obj, set, lapses>>

\* Register's insert of what the worker reports. When another registration has
\* inserted the label since the select, the unique label makes this one an error.
InsertArtifact(o, n) ==
    /\ pc[o][n] = "row"
    /\ IF art[o] = None
       THEN art' = [art EXCEPT ![o] = made[o][n]] /\ Registered(o, n)
       ELSE UNCHANGED <<art, faults>> /\ RegisteredAnswer(o, n, FALSE)
    /\ UNCHANGED <<store, made, list, obj, set, lapses>>

\* currentSet's insert and the artifact's. When another registration has created
\* the set since the select, the unique version makes this one an error.
CreateSet(o, n) ==
    /\ pc[o][n] = "create"
    /\ IF set = "none"
       THEN /\ set' = "building"
            /\ art' = [art EXCEPT ![o] = made[o][n]]
            /\ Registered(o, n)
       ELSE UNCHANGED <<set, art, faults>> /\ RegisteredAnswer(o, n, FALSE)
    /\ UNCHANGED <<store, made, list, obj, lapses>>

----------------------------------------------------------------------------
(* Reporting and closing *)

\* Where a failure takes its task.
AfterReport(t, n) ==
    IF Retrying(res[t][n], task[t].count, MaxAttempts) THEN "queued" ELSE "failed"

\* Complete's withAttempt: the attempt is locked, the task is read without a lock. A
\* stale report is refused and the worker stops; a cancelled task only closes the
\* attempt.
Complete(t, n) ==
    /\ pc[t][n] = "report" /\ step[t][n] = "none"
    /\ \/ /\ ~Open(t, n)
          /\ Goto(t, n, "over")
          /\ UNCHANGED <<att, step>>
       \/ /\ Open(t, n) /\ task[t].state = "cancelled"
          /\ att' = [att EXCEPT ![t][n] = "cancelled"]
          /\ Goto(t, n, "close")
          /\ UNCHANGED step
       \/ /\ Open(t, n) /\ task[t].state # "cancelled"
          /\ step' = [step EXCEPT ![t][n] = "report"]
          /\ UNCHANGED <<att, pc>>
    /\ UNCHANGED <<task, job, new, cancelled, made, list, res, obj, set, art, faults, lapses>>

\* The rest of Complete. A success is checked against the task's state now, and
\* rolled back when a cancellation has come between; a failure was checked against
\* the state that was read, and is written whatever the row holds by now.
FinishTask(t, n) ==
    /\ step[t][n] = "report"
    /\ \/ /\ res[t][n] = "success" /\ CanTransitionTask(task[t].state, "succeeded")
          /\ Write(t, n, "succeeded", "succeeded")
       \/ /\ res[t][n] = "success" /\ ~CanTransitionTask(task[t].state, "succeeded")
          /\ EndTransaction(t, n)
       \/ /\ res[t][n] # "success"
          /\ Write(t, n, AfterReport(t, n), "failed")
    /\ UNCHANGED <<task, att, job, cancelled, pc, made, list, res, obj, set, art, faults,
                   lapses>>

\* Faulty variant of ReadJob: the report decides, not the job.
ReadJobFromReport(t, n) ==
    /\ pc[t][n] = "close"
    /\ Goto(t, n, IF res[t][n] = "success" THEN "complete" ELSE "over")
    /\ UNCHANGED <<store, made, list, res, obj, set, art, faults, lapses>>

\* After its commit Complete reads the job once more.
ReadJob(t, n) ==
    /\ pc[t][n] = "close"
    /\ Goto(t, n, CASE job = "succeeded" -> "complete"
                    [] job \in {"failed", "cancelled"} -> "fail"
                    [] OTHER -> "over")
    /\ UNCHANGED <<store, made, list, res, obj, set, art, faults, lapses>>

\* MarkComplete and MarkFailed: only a set that is still open is closed.
MarkComplete == IF set = "building" THEN "complete" ELSE set
MarkFailed == IF set = "building" THEN "failed" ELSE set

\* The tail of handleWorkerComplete.
CloseSet(t, n) ==
    /\ \/ pc[t][n] = "complete" /\ set' = MarkComplete
       \/ pc[t][n] = "fail" /\ set' = MarkFailed
    /\ Goto(t, n, "over")
    /\ UNCHANGED <<store, made, list, res, obj, art, faults, lapses>>

\* The transaction on the attempt is its worker's report.
Reporting(t, n) ==
    \/ step[t][n] = "report"
    \/ step[t][n] = "write" /\ new[t][n].att \in {"succeeded", "failed"}

\* The worker dies or is cut off, or the request that is closing the set is: its
\* context ends with the connection, and its transaction with the context.
Vanish(t, n) ==
    /\ pc[t][n] \notin {"none", "over"}
    /\ Fault
    /\ Goto(t, n, "over")
    /\ IF Reporting(t, n) THEN EndTransaction(t, n) ELSE UNCHANGED <<step, new>>
    /\ UNCHANGED <<task, att, job, cancelled, made, list, res, obj, set, art, lapses>>

----------------------------------------------------------------------------

Register(o, n) ==
    AuthorizeAttempt(o, n) \/ HeadObject(o, n) \/ CurrentSet(o, n)
        \/ FindArtifact(o, n) \/ InsertArtifact(o, n) \/ CreateSet(o, n)

Work(t, n) ==
    \/ t \in Outputs /\ (EncodeTask(t, n) \/ Register(t, n))
    \/ t = Check /\ (ResolveSpec(n) \/ ValidateTask(n))
    \/ ExecutionFails(t, n) \/ ExecutionStops(t, n)
    \/ Complete(t, n) \/ FinishTask(t, n)
    \/ ReadJob(t, n) \/ CloseSet(t, n)

Next ==
    \/ \E t \in Tasks : Lease(t)
    \/ \E t \in Tasks, n \in Numbers :
          \/ Work(t, n) \/ Vanish(t, n)
          \/ Expire(t, n) \/ Requeue(t, n)
          \/ Commit(t, n) \/ Rollback(t, n)
    \/ Cancel

Spec == Init /\ [][Next]_vars

----------------------------------------------------------------------------
(* Properties *)

Failed == \E t \in Tasks : task[t].state = "failed"

\* agent.go: "A set closed with an artifact missing looks complete and is not."
\* A complete set belongs to a job that succeeded, and still says so, and has every
\* output the plan asked for. A failed one is not to be delivered: a task has failed
\* for good or the user cancelled, whatever an older count has made of the job since.
ClosedSetMatchesJob ==
    /\ set = "complete" => job = "succeeded" /\ \A o \in Outputs : art[o] # None
    /\ set = "failed" => Failed \/ cancelled

\* Once a set is complete neither it nor its rows change, although attempts whose
\* leases were taken away may still be registering.
CompleteSetFrozen == [][set = "complete" => set' = set /\ art' = art]_vars

\* What is delivered is what was validated: the rows of a complete set are the ones
\* the successful validation was given, although attempts that lost their leases
\* may register before, while and after it runs.
DeliveredWasValidated ==
    set = "complete" =>
      \E n \in Numbers : att[Check][n] = "succeeded" /\ list[n] = art

\* As long as no process fails, a job that succeeds has its set closed by whichever
\* report is the last. Once no request is left that could close it, the set of a
\* succeeded job is complete, unless it was closed for a cancellation that a late
\* failure report or sweep has undone.
SuccessDelivers ==
    (/\ job = "succeeded" /\ faults = 0
     /\ \A t \in Tasks, n \in Numbers : pc[t][n] \notin {"close", "complete", "fail"})
      => set = "complete" \/ (cancelled /\ set = "failed")

\* All outputs have succeeded, and their completions have not seen each other.
Stalled == task[Check].state = "pending" /\ \A o \in Outputs : task[o].state = "succeeded"

\* A task has ended without success, and an older count was written over the job's end.
Overtaken == \E t \in Tasks : task[t].state \in {"failed", "cancelled"}

\* A job is lost to two races only, whatever its registrations meet and whoever
\* vanishes: until it is over there is a task to lease, or an attempt whose lease
\* will run out if nobody reports, or its graph has stalled, or its state was
\* overtaken.
LostOnlyToRaces ==
    job \notin JobTerminal =>
      \/ \E t \in Tasks : task[t].state = "queued"
      \/ \E t \in Tasks, n \in Numbers : Open(t, n) /\ task[t].state \notin TaskTerminal
      \/ Stalled \/ Overtaken

\* The last attempt of a task is the only one that may be open, and it is while the
\* task runs; there is one to lease while it is queued; it succeeds with its task.
AttemptsOK(t) ==
    /\ task[t].state \notin {"absent", "leased"}
    /\ task[t].state \in {"pending", "queued"} => task[t].count < MaxAttempts
    /\ task[t].state = "running" => task[t].count \in Numbers /\ Open(t, task[t].count)
    /\ task[t].state = "succeeded" => \E n \in Numbers : att[t][n] = "succeeded"
    /\ \A n \in Numbers :
         /\ Open(t, n) => n = task[t].count /\ task[t].state \in {"running", "cancelled"}
         /\ att[t][n] = "succeeded" => task[t].state = "succeeded"
         /\ att[t][n] = "absent" => pc[t][n] = "none"

\* Validation waits for every encode, and is not given to anyone before.
GateOK ==
    /\ \A o \in Outputs : task[o].state # "pending"
    /\ \/ task[Check].state \notin {"pending", "cancelled"}
       \/ \E n \in Numbers : att[Check][n] # "absent"
      => \A o \in Outputs : task[o].state = "succeeded"

\* A lease that is not committed: the next attempt of a task that is queued.
LeaseOK(t, n) ==
    /\ task[t].state = "queued" /\ n = task[t].count + 1
    /\ new[t][n].task = "running" /\ new[t][n].att = "running"

\* An end that is not committed: of an open attempt, by a report of its worker or by
\* a sweep. It may overwrite a cancellation, except with success.
EndOK(t, n) ==
    LET w == new[t][n]
    IN  /\ Open(t, n)
        /\ w.att \in {"succeeded", "failed", "expired"}
        /\ w.task \in {"succeeded", "failed", "queued"}
        /\ w.att = "succeeded" <=> w.task = "succeeded"
        /\ w.att # "expired" => pc[t][n] = "report"
        /\ w.task = "queued" => task[t].count < MaxAttempts
        /\ w.task = "succeeded" => task[t].state = "running" /\ res[t][n] = "success"

\* What a transaction has counted may be old, but no outcome that is not there.
WriteOK(t, n) ==
    LET w == new[t][n]
    IN  /\ LeaseOK(t, n) \/ EndOK(t, n)
        /\ w.release => /\ t \in Outputs /\ w.task = "succeeded"
                        /\ task[Check].state = "pending"
                        /\ \A o \in Outputs \ {t} : task[o].state = "succeeded"
        /\ w.job = "succeeded" <=> t = Check /\ w.task = "succeeded"
        /\ w.job = "failed" => Failed \/ w.task = "failed"
        /\ w.job = "cancelled" => cancelled

\* The transactions in flight, one at most of those that have locked a task.
StepsOK ==
    /\ \A t \in Tasks, n \in Numbers :
         /\ step[t][n] \in {"report", "sweep"} => Open(t, n)
         /\ step[t][n] = "report" => pc[t][n] = "report"
         /\ step[t][n] = "write" => WriteOK(t, n)
    /\ \A t \in Tasks : \A m, n \in Numbers :
         step[t][m] = "write" /\ step[t][n] = "write" => m = n

\* The job has succeeded exactly when all of its tasks have, it ends no other way
\* without cause, and neither does a request that has read it.
JobOK ==
    /\ job = "succeeded" <=> \A t \in Tasks : task[t].state = "succeeded"
    /\ job = "failed" => Failed
    /\ job = "cancelled" \/ (\E t \in Tasks : task[t].state = "cancelled") => cancelled
    /\ \A t \in Tasks, n \in Numbers :
         /\ pc[t][n] = "complete" => job = "succeeded"
         /\ pc[t][n] = "fail" => Failed \/ cancelled

\* A worker that registers has something to register; one that is about to report a
\* success has registered it; and from the first validation on the rows are final.
RegisteredOK ==
    /\ \A o \in Outputs :
         /\ art[o] # None => set # "none"
         /\ task[o].state = "succeeded" => art[o] # None
         /\ \A n \in Numbers :
              /\ pc[o][n] \in {"register", "head", "set", "insert", "row", "create"} =>
                   made[o][n] # None
              /\ pc[o][n] \in {"insert", "row"} => set # "none"
              /\ pc[o][n] = "report" /\ res[o][n] = "success" => art[o] # None
    /\ \A n \in Numbers :
         pc[Check][n] = "run" \/ res[Check][n] = "success" \/ att[Check][n] = "succeeded"
           => list[n] = art /\ att[Check][n] # "absent"

\* The set and the job end alike, whichever requests overtake each other: what is
\* closed agrees with the job, and a job that succeeds is delivered. The other parts
\* make it inductive.
ArtifactInvariant ==
    /\ TypeOK /\ ClosedSetMatchesJob /\ SuccessDelivers
    /\ \A t \in Tasks : AttemptsOK(t)
    /\ GateOK /\ StepsOK /\ JobOK /\ RegisteredOK
=============================================================================

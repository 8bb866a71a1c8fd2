------------------------------ MODULE JobStore ------------------------------
(***************************************************************************)
(* internal/job: the job, task and attempt tables and every transaction    *)
(* the control plane runs on them, interleaved statement by statement as   *)
(* PostgreSQL does under READ COMMITTED.                                   *)
(*                                                                         *)
(* A row has a committed version (task, att, job), which every other       *)
(* transaction reads, a pending version (taskNew, attNew, jobNew), and the *)
(* transaction that holds its row lock. Statements write pending versions  *)
(* of rows they have locked; only Commit publishes them; Rollback throws   *)
(* them away. A statement that has to wait for a row is one that has not   *)
(* happened yet.                                                           *)
(*                                                                         *)
(* Procs are the transactions in flight: API requests of workers and users *)
(* and the lease sweepers of any number of control-plane instances. Which  *)
(* worker calls arrive, in which order and how often, is unconstrained: a  *)
(* worker may repeat, reorder, delay or omit any report.                   *)
(***************************************************************************)
EXTENDS Naturals, FiniteSets, JobStates

CONSTANTS
    Jobs,         \* job submissions, one per idempotency key
    Tasks,        \* the tasks of all of them
    JobOf,        \* [Tasks -> Jobs]: tasks.job_id
    DependsOn,    \* [Tasks -> SUBSET Tasks]: tasks.depends_on
    MaxAttempts,  \* tasks.max_attempts
    Workers,
    Eligible,     \* [Workers -> SUBSET Tasks]: leaseQuery's hard constraints
    SlotClass,    \* [Tasks -> a capacity pool]
    Capacity,     \* [Workers -> [capacity pools -> Nat]]
    TenantOf,     \* [Jobs -> a tenant]
    Quota,        \* [tenants -> Nat]: quotas.concurrent_tasks
    Results,      \* what a worker may report: "success" or a failure class
    SweepBatch,   \* the most leases one sweep reclaims
    Procs,        \* transactions that may be in flight at once
    NoProc, NoWorker, NoTask

ASSUME TablesAssumption ==
    /\ JobOf \in [Tasks -> Jobs]
    /\ DependsOn \in [Tasks -> SUBSET Tasks]
    /\ MaxAttempts \in Nat \ {0}
    /\ SweepBatch \in Nat \ {0}

ASSUME SentinelAssumption ==
    NoProc \notin Procs /\ NoWorker \notin Workers /\ NoTask \notin Tasks

\* Whatever a worker sends as a failure class is a class; the names of the other
\* calls are this module's own.
ASSUME ResultsAssumption ==
    Results \cap {"none", "start", "progress", "close", "lease", "expire", "cancel"} = {}

\* The tables are finite, and a pool's slots are counted.
ASSUME CapacityAssumption ==
    /\ IsFiniteSet(Tasks)
    /\ \A w \in Workers, t \in Tasks : Capacity[w][SlotClass[t]] \in Nat

VARIABLES
    task, taskNew, taskLock,   \* tasks
    att, attNew, attLock,      \* task_attempts, by task and attempt_number
    job, jobNew, jobLock,      \* jobs
    pc,    \* the statement a transaction is about to execute
    op,    \* what it is executing: see Ops
    tid,   \* the task it is working on ...
    num,   \* ... and the attempt_number
    wrk,   \* the worker whose advisory lock it holds
    todo,  \* a sweep's rows still to process, as <<task, attempt_number>>
    seen,  \* task rows as its first statement read them, without a lock
    next   \* the job state reconcileJob has computed

tables == <<task, taskNew, taskLock, att, attNew, attLock, job, jobNew, jobLock>>
locals == <<pc, op, tid, num, wrk, todo, seen, next>>
vars == <<tables, locals>>

----------------------------------------------------------------------------
(* Types *)

\* One number past the budget, so that a lease beyond it has a row to be in.
Numbers == 1 .. (MaxAttempts + 1)

Ops == {"none", "start", "progress", "close", "lease", "expire", "cancel"}
         \cup Results

Labels == {"idle", "transition", "release", "fail", "leaseTask", "sweep",
           "cancelTasks", "count", "updateJob", "commit"}

TaskRow == [state : TaskStates, count : 0 .. (MaxAttempts + 1)]
AttemptRow == [state : AttemptStates, worker : Workers \cup {NoWorker},
               lapsed : BOOLEAN]

AbsentTask == [state |-> "absent", count |-> 0]
AbsentAttempt == [state |-> "absent", worker |-> NoWorker, lapsed |-> FALSE]

TypeOK ==
    /\ task \in [Tasks -> TaskRow] /\ taskNew \in [Tasks -> TaskRow]
    /\ taskLock \in [Tasks -> Procs \cup {NoProc}]
    /\ att \in [Tasks -> [Numbers -> AttemptRow]]
    /\ attNew \in [Tasks -> [Numbers -> AttemptRow]]
    /\ attLock \in [Tasks -> [Numbers -> Procs \cup {NoProc}]]
    /\ job \in [Jobs -> JobStates] /\ jobNew \in [Jobs -> JobStates]
    /\ jobLock \in [Jobs -> Procs \cup {NoProc}]
    /\ pc \in [Procs -> Labels]
    /\ op \in [Procs -> Ops]
    /\ tid \in [Procs -> Tasks \cup {NoTask}]
    /\ num \in [Procs -> Numbers \cup {0}]
    /\ wrk \in [Procs -> Workers \cup {NoWorker}]
    /\ todo \in [Procs -> SUBSET (Tasks \X Numbers)]
    /\ seen \in [Procs -> [Tasks -> TaskRow]]
    /\ next \in [Procs -> JobStates]

----------------------------------------------------------------------------
(* Rows and locks *)

TasksOf(j) == {t \in Tasks : JobOf[t] = j}

\* What transaction p reads of task t: its own write, else what is committed.
View(p, t) == IF taskLock[t] = p THEN taskNew[t] ELSE task[t]

LiveAttempts == {a \in Tasks \X Numbers : att[a[1]][a[2]].state \in Live}

\* Task row t can be written by p: nobody else holds its lock.
Lockable(p, t) == taskLock[t] \in {NoProc, p}

WriteTask(p, t, row) ==
    /\ taskLock' = [taskLock EXCEPT ![t] = p]
    /\ taskNew' = [taskNew EXCEPT ![t] = row]

\* One UPDATE of the state of all the rows S.
WriteTasks(p, S, s) ==
    /\ taskLock' = [t \in Tasks |-> IF t \in S THEN p ELSE taskLock[t]]
    /\ taskNew' = [t \in Tasks |-> IF t \in S THEN [task[t] EXCEPT !.state = s]
                                   ELSE taskNew[t]]

WriteAttempt(p, t, n, row) ==
    /\ attLock' = [attLock EXCEPT ![t][n] = p]
    /\ attNew' = [attNew EXCEPT ![t][n] = row]

Goto(p, label) == pc' = [pc EXCEPT ![p] = label]

NothingSeen == [t \in Tasks |-> AbsentTask]

\* A transaction ends and forgets everything it held in local variables.
Forget(p) ==
    /\ pc' = [pc EXCEPT ![p] = "idle"]
    /\ op' = [op EXCEPT ![p] = "none"]
    /\ tid' = [tid EXCEPT ![p] = NoTask]
    /\ num' = [num EXCEPT ![p] = 0]
    /\ wrk' = [wrk EXCEPT ![p] = NoWorker]
    /\ todo' = [todo EXCEPT ![p] = {}]
    /\ seen' = [seen EXCEPT ![p] = NothingSeen]
    /\ next' = [next EXCEPT ![p] = "absent"]

\* Row locks are held to the end of the transaction and not beyond.
ReleaseLocks(p) ==
    /\ taskLock' = [t \in Tasks |-> IF taskLock[t] = p THEN NoProc ELSE taskLock[t]]
    /\ attLock' = [t \in Tasks |-> [n \in Numbers |->
                     IF attLock[t][n] = p THEN NoProc ELSE attLock[t][n]]]
    /\ jobLock' = [j \in Jobs |-> IF jobLock[j] = p THEN NoProc ELSE jobLock[j]]

\* tx.Commit: the pending versions of every row p locked become the committed ones.
Commit(p) ==
    /\ pc[p] = "commit"
    /\ task' = [t \in Tasks |-> IF taskLock[t] = p THEN taskNew[t] ELSE task[t]]
    /\ att' = [t \in Tasks |-> [n \in Numbers |->
                 IF attLock[t][n] = p THEN attNew[t][n] ELSE att[t][n]]]
    /\ job' = [j \in Jobs |-> IF jobLock[j] = p THEN jobNew[j] ELSE job[j]]
    /\ ReleaseLocks(p)
    /\ Forget(p)
    /\ UNCHANGED <<taskNew, attNew, jobNew>>

\* tx.Rollback, which every function defers: nothing p wrote happened.
Rollback(p) ==
    /\ taskNew' = [t \in Tasks |-> IF taskLock[t] = p THEN task[t] ELSE taskNew[t]]
    /\ attNew' = [t \in Tasks |-> [n \in Numbers |->
                    IF attLock[t][n] = p THEN att[t][n] ELSE attNew[t][n]]]
    /\ jobNew' = [j \in Jobs |-> IF jobLock[j] = p THEN job[j] ELSE jobNew[j]]
    /\ ReleaseLocks(p)
    /\ Forget(p)
    /\ UNCHANGED <<task, att, job>>

\* The request is abandoned, the connection or the process dies, or the
\* database picks p as the victim of a deadlock.
Abort(p) == pc[p] # "idle" /\ Rollback(p)

----------------------------------------------------------------------------
(* Creating a job *)

\* Create: the job and its whole graph in one transaction nobody can see into.
\* A second submission with the key finds the job and changes nothing.
Create(j) ==
    /\ job[j] = "absent"
    /\ LET Row(t) == [state |-> IF DependsOn[t] = {} THEN "queued" ELSE "pending",
                      count |-> 0]
           Table(tab) == [t \in Tasks |-> IF JobOf[t] = j THEN Row(t) ELSE tab[t]]
       IN  task' = Table(task) /\ taskNew' = Table(taskNew)
    /\ job' = [job EXCEPT ![j] = "pending"]
    /\ jobNew' = [jobNew EXCEPT ![j] = "pending"]
    /\ UNCHANGED <<taskLock, att, attNew, attLock, jobLock, locals>>

----------------------------------------------------------------------------
(* Worker reports: withAttempt and the three functions it runs *)

\* Faulty variant of WithAttempt: an attempt that has ended is let in.
WithAttemptEvenEnded(p, t, n, o) ==
    /\ pc[p] = "idle"
    /\ att[t][n].state # "absent"
    /\ attLock[t][n] = NoProc
    /\ op' = [op EXCEPT ![p] = o]
    /\ tid' = [tid EXCEPT ![p] = t]
    /\ num' = [num EXCEPT ![p] = n]
    /\ seen' = [seen EXCEPT ![p][t] = task[t]]
    /\ UNCHANGED <<task, taskNew, taskLock, att, job, jobNew, jobLock,
                   wrk, todo, next>>

\* withAttempt's select: the attempt row is locked and read fresh, the task's
\* state is read without a lock. An attempt that has ended, or that belongs to
\* another worker, is refused and nothing changes.
WithAttempt(p, t, n, o) ==
    /\ pc[p] = "idle"
    /\ att[t][n].state \in Live
    /\ attLock[t][n] = NoProc
    /\ op' = [op EXCEPT ![p] = o]
    /\ tid' = [tid EXCEPT ![p] = t]
    /\ num' = [num EXCEPT ![p] = n]
    /\ seen' = [seen EXCEPT ![p][t] = task[t]]
    /\ UNCHANGED <<task, taskNew, taskLock, att, job, jobNew, jobLock,
                   wrk, todo, next>>

\* closeAttemptCancelled, reached from Start and from Complete.
CloseCancelled(p, t, n) ==
    /\ task[t].state = "cancelled"
    /\ WithAttempt(p, t, n, "close")
    /\ WriteAttempt(p, t, n, [att[t][n] EXCEPT !.state = "cancelled"])
    /\ Goto(p, "commit")

\* Start: the attempt runs and its lease is renewed; the task follows.
Start(p, t, n) ==
    /\ task[t].state # "cancelled"
    /\ CanTransitionAttempt(att[t][n].state, "running")
    /\ WithAttempt(p, t, n, "start")
    /\ WriteAttempt(p, t, n, [att[t][n] EXCEPT !.state = "running", !.lapsed = FALSE])
    /\ Goto(p, "transition")

\* Progress renews the lease, except a cancelled task's.
Progress(p, t, n) ==
    /\ task[t].state # "cancelled"
    /\ WithAttempt(p, t, n, "progress")
    /\ WriteAttempt(p, t, n, [att[t][n] EXCEPT !.lapsed = FALSE])
    /\ Goto(p, "commit")

\* Faulty variant of Complete: the attempt is recorded as a success whatever
\* the worker reports.
CompleteAsSuccess(p, t, n, r) ==
    /\ task[t].state # "cancelled"
    /\ CanTransitionAttempt(att[t][n].state, "succeeded")
    /\ WithAttempt(p, t, n, r)
    /\ WriteAttempt(p, t, n, [att[t][n] EXCEPT !.state = "succeeded"])
    /\ Goto(p, IF r = "success" THEN "transition" ELSE "fail")

\* Complete, up to the attempt's own outcome; r is "success" or a failure class.
Complete(p, t, n, r) ==
    LET to == IF r = "success" THEN "succeeded" ELSE "failed"
    IN  /\ task[t].state # "cancelled"
        /\ CanTransitionAttempt(att[t][n].state, to)
        /\ WithAttempt(p, t, n, r)
        /\ WriteAttempt(p, t, n, [att[t][n] EXCEPT !.state = to])
        /\ Goto(p, IF r = "success" THEN "transition" ELSE "fail")

\* Where transitionTx takes the task.
Target(p) == IF op[p] = "start" THEN "running" ELSE "succeeded"

\* transitionTx: lock the task, check the move against the locked row, make it.
TransitionTask(p) ==
    LET t == tid[p]
    IN  /\ pc[p] = "transition"
        /\ Lockable(p, t)
        /\ CanTransitionTask(task[t].state, Target(p))
        /\ WriteTask(p, t, [task[t] EXCEPT !.state = Target(p)])
        /\ Goto(p, IF Target(p) = "succeeded" THEN "release" ELSE "commit")
        /\ UNCHANGED <<task, att, attNew, attLock, job, jobNew, jobLock,
                       op, tid, num, wrk, todo, seen, next>>

\* Faulty variant of Released: one satisfied dependency is enough.
ReleasedByOne(p) ==
    {t \in TasksOf(JobOf[tid[p]]) :
        View(p, t).state = "pending" /\ tid[p] \in DependsOn[t]}

\* The pending tasks that p sees waiting for its task and for nothing else.
Released(p) ==
    {t \in TasksOf(JobOf[tid[p]]) :
        /\ View(p, t).state = "pending"
        /\ tid[p] \in DependsOn[t]
        /\ \A d \in DependsOn[t] : View(p, d).state = "succeeded"}

\* releaseDependents, one UPDATE statement.
ReleaseDependents(p) ==
    /\ pc[p] = "release"
    /\ \A t \in Released(p) : Lockable(p, t)
    /\ WriteTasks(p, Released(p), "queued")
    /\ Goto(p, "count")
    /\ UNCHANGED <<task, att, attNew, attLock, job, jobNew, jobLock,
                   op, tid, num, wrk, todo, seen, next>>

\* Where Complete takes the task of a failed attempt, from the budget in the
\* locked row.
AfterFailure(p) ==
    IF Retrying(op[p], task[tid[p]].count, MaxAttempts) THEN "queued" ELSE "failed"

\* Complete, for a failure: the task row is locked, but the move is checked
\* against the state withAttempt read before the lock, and the update does not
\* look at the row's state again.
FailTask(p) ==
    LET t == tid[p]
    IN  /\ pc[p] = "fail"
        /\ Lockable(p, t)
        /\ CanTransitionTask(seen[p][t].state, AfterFailure(p))
        /\ WriteTask(p, t, [task[t] EXCEPT !.state = AfterFailure(p)])
        /\ Goto(p, "count")
        /\ UNCHANGED <<task, att, attNew, attLock, job, jobNew, jobLock,
                       op, tid, num, wrk, todo, seen, next>>

----------------------------------------------------------------------------
(* reconcileJob, the tail of Complete, Lease and every row of a sweep *)

\* reconcileJob's select: the counts, as p sees the tasks now.
CountTasks(p) ==
    LET j == JobOf[tid[p]]
    IN  /\ pc[p] = "count"
        /\ next' = [next EXCEPT ![p] =
                      Derive([t \in TasksOf(j) |-> View(p, t).state], TasksOf(j))]
        /\ Goto(p, "updateJob")
        /\ UNCHANGED <<tables, op, tid, num, wrk, todo, seen>>

\* reconcileJob's update. A sweep goes on to its next row.
UpdateJob(p) ==
    LET j == JobOf[tid[p]]
    IN  /\ pc[p] = "updateJob"
        /\ jobLock[j] \in {NoProc, p}
        /\ jobLock' = [jobLock EXCEPT ![j] = p]
        /\ jobNew' = [jobNew EXCEPT ![j] = next[p]]
        /\ Goto(p, IF todo[p] = {} THEN "commit" ELSE "sweep")
        /\ UNCHANGED <<task, taskNew, taskLock, att, attNew, attLock, job,
                       op, tid, num, wrk, todo, seen, next>>

----------------------------------------------------------------------------
(* Leasing *)

\* freeSlotClasses: worker w has room in the pool task t runs in.
HasFreeSlot(w, t) ==
    Cardinality({a \in LiveAttempts : /\ att[a[1]][a[2]].worker = w
                                      /\ SlotClass[a[1]] = SlotClass[t]})
      < Capacity[w][SlotClass[t]]

\* leaseQuery's last condition: attempts in flight of t's tenant, as committed.
WithinQuota(t) ==
    Cardinality({a \in LiveAttempts : TenantOf[JobOf[a[1]]] = TenantOf[JobOf[t]]})
      < Quota[TenantOf[JobOf[t]]]

\* Faulty variant of WorkerFree: concurrent polls of one worker are not serialised.
WorkerUnlocked(w) == TRUE

\* pg_advisory_xact_lock on the worker.
WorkerFree(w) == \A q \in Procs : wrk[q] # w

\* Lease, up to the choice of a task: the worker's advisory lock, its free slots
\* and leaseQuery's snapshot. Any candidate may score highest.
LeaseSelect(p, w, t) ==
    /\ pc[p] = "idle"
    /\ WorkerFree(w)
    /\ t \in Eligible[w]
    /\ task[t].state = "queued"
    /\ HasFreeSlot(w, t)
    /\ WithinQuota(t)
    /\ op' = [op EXCEPT ![p] = "lease"]
    /\ tid' = [tid EXCEPT ![p] = t]
    /\ num' = [num EXCEPT ![p] = task[t].count + 1]
    /\ wrk' = [wrk EXCEPT ![p] = w]
    /\ Goto(p, "leaseTask")
    /\ UNCHANGED <<tables, todo, seen, next>>

\* The task is still there to be leased when its row is locked: not locked by
\* someone else (skip locked), still queued (the condition repeated outside the
\* CTE), and the attempt number, computed from the snapshot, is not taken (the
\* unique constraint on task_id and attempt_number).
Leasable(p) ==
    LET t == tid[p]
    IN  taskLock[t] = NoProc /\ task[t].state = "queued" /\ att[t][num[p]].state = "absent"

\* Faulty variant of LeaseTask: the lease does not spend the budget.
LeaseTaskForFree(p) ==
    /\ pc[p] = "leaseTask"
    /\ Leasable(p)
    /\ WriteTask(p, tid[p], [task[tid[p]] EXCEPT !.state = "leased"])
    /\ WriteAttempt(p, tid[p], num[p],
                    [state |-> "leased", worker |-> wrk[p], lapsed |-> FALSE])
    /\ Goto(p, "count")
    /\ UNCHANGED <<task, att, job, jobNew, jobLock, op, tid, num, wrk, todo, seen, next>>

\* Lease: lock the task, mark it leased, insert the attempt.
LeaseTask(p) ==
    /\ pc[p] = "leaseTask"
    /\ Leasable(p)
    /\ WriteTask(p, tid[p], [state |-> "leased", count |-> num[p]])
    /\ WriteAttempt(p, tid[p], num[p],
                    [state |-> "leased", worker |-> wrk[p], lapsed |-> FALSE])
    /\ Goto(p, "count")
    /\ UNCHANGED <<task, att, job, jobNew, jobLock, op, tid, num, wrk, todo, seen, next>>

\* Nothing leasable is left, or the insert hits the unique constraint.
LeaseMiss(p) == pc[p] = "leaseTask" /\ ~Leasable(p) /\ Rollback(p)

----------------------------------------------------------------------------
(* Lease expiry *)

\* Time passes: lease_expires_at of a live attempt falls behind now().
Lapse(t, n) ==
    /\ att[t][n].state \in Live
    /\ attLock[t][n] = NoProc
    /\ ~att[t][n].lapsed
    /\ att' = [att EXCEPT ![t][n].lapsed = TRUE]
    /\ attNew' = [attNew EXCEPT ![t][n].lapsed = TRUE]
    /\ UNCHANGED <<task, taskNew, taskLock, attLock, job, jobNew, jobLock, locals>>

\* Faulty variant of Expirable: only attempts that have started can expire.
ExpirableStarted == {a \in LiveAttempts : /\ att[a[1]][a[2]].state = "running"
                                          /\ att[a[1]][a[2]].lapsed
                                          /\ attLock[a[1]][a[2]] = NoProc}

\* Rows ExpireLeases can select: live, lapsed and not locked (skip locked).
Expirable == {a \in LiveAttempts : /\ att[a[1]][a[2]].lapsed
                                   /\ attLock[a[1]][a[2]] = NoProc}

\* ExpireLeases' select: the oldest lapsed leases, at most SweepBatch of them,
\* are locked; their tasks are read without a lock.
ExpireSelect(p, batch) ==
    /\ pc[p] = "idle"
    /\ batch \subseteq Expirable /\ batch # {}
    /\ \/ batch = Expirable /\ Cardinality(batch) <= SweepBatch
       \/ Cardinality(batch) = SweepBatch
    /\ attLock' = [t \in Tasks |-> [n \in Numbers |->
                     IF <<t, n>> \in batch THEN p ELSE attLock[t][n]]]
    /\ op' = [op EXCEPT ![p] = "expire"]
    /\ todo' = [todo EXCEPT ![p] = batch]
    /\ seen' = [seen EXCEPT ![p] =
                  [t \in Tasks |-> IF \E n \in Numbers : <<t, n>> \in batch
                                   THEN task[t] ELSE AbsentTask]]
    /\ Goto(p, "sweep")
    /\ UNCHANGED <<task, taskNew, taskLock, att, attNew, job, jobNew, jobLock,
                   tid, num, wrk, next>>

\* Where a sweep takes the task of a lapsed lease, from the budget it selected.
AfterExpiry(p, t) == IF seen[p][t].count < MaxAttempts THEN "queued" ELSE "failed"

\* A row whose task was finished when selected: only the attempt expires.
ExpireFinished(p, t, n) ==
    /\ pc[p] = "sweep" /\ <<t, n>> \in todo[p]
    /\ seen[p][t].state \in TaskTerminal
    /\ WriteAttempt(p, t, n, [att[t][n] EXCEPT !.state = "expired"])
    /\ todo' = [todo EXCEPT ![p] = @ \ {<<t, n>>}]
    /\ Goto(p, IF todo'[p] = {} THEN "commit" ELSE "sweep")
    /\ UNCHANGED <<task, taskNew, taskLock, att, job, jobNew, jobLock,
                   op, tid, num, wrk, seen, next>>

\* Faulty variant of ExpireTask: the task is given back, the attempt stays open.
ExpireTaskKeepsAttempt(p, t, n) ==
    /\ pc[p] = "sweep" /\ <<t, n>> \in todo[p]
    /\ seen[p][t].state \notin TaskTerminal
    /\ CanTransitionTask(seen[p][t].state, AfterExpiry(p, t))
    /\ Lockable(p, t)
    /\ WriteTask(p, t, [View(p, t) EXCEPT !.state = AfterExpiry(p, t)])
    /\ tid' = [tid EXCEPT ![p] = t]
    /\ num' = [num EXCEPT ![p] = n]
    /\ todo' = [todo EXCEPT ![p] = @ \ {<<t, n>>}]
    /\ Goto(p, "count")
    /\ UNCHANGED <<task, att, attNew, attLock, job, jobNew, jobLock, op, wrk, seen, next>>

\* A row whose task was in progress when selected: the attempt expires and the
\* task is requeued or failed, whatever the row holds by now.
ExpireTask(p, t, n) ==
    /\ pc[p] = "sweep" /\ <<t, n>> \in todo[p]
    /\ seen[p][t].state \notin TaskTerminal
    /\ CanTransitionTask(seen[p][t].state, AfterExpiry(p, t))
    /\ Lockable(p, t)
    /\ WriteAttempt(p, t, n, [att[t][n] EXCEPT !.state = "expired"])
    /\ WriteTask(p, t, [View(p, t) EXCEPT !.state = AfterExpiry(p, t)])
    /\ tid' = [tid EXCEPT ![p] = t]
    /\ num' = [num EXCEPT ![p] = n]
    /\ todo' = [todo EXCEPT ![p] = @ \ {<<t, n>>}]
    /\ Goto(p, "count")
    /\ UNCHANGED <<task, att, job, jobNew, jobLock, op, wrk, seen, next>>

\* checkTask fails: in transitionTx, in Complete, or for one row of a sweep.
Illegal(p) ==
    IF pc[p] = "transition"
    THEN Lockable(p, tid[p]) /\ ~CanTransitionTask(task[tid[p]].state, Target(p))
    ELSE IF pc[p] = "fail"
    THEN Lockable(p, tid[p]) /\ ~CanTransitionTask(seen[p][tid[p]].state, AfterFailure(p))
    ELSE /\ pc[p] = "sweep"
         /\ \E a \in todo[p] :
              /\ seen[p][a[1]].state \notin TaskTerminal
              /\ ~CanTransitionTask(seen[p][a[1]].state, AfterExpiry(p, a[1]))

\* Faulty variant of Refuse: only a sweep rolls back, a refused report returns with
\* its transaction open.
RefuseLeftOpen(p) == Illegal(p) /\ pc[p] = "sweep" /\ Rollback(p)

\* ErrIllegalTransition: the whole transaction is rolled back, for a sweep all
\* of its rows.
Refuse(p) == Illegal(p) /\ Rollback(p)

----------------------------------------------------------------------------
(* Cancelling a job *)

\* Cancel's select: the job row is locked. A finished job is left alone.
CancelSelect(p, j) ==
    /\ pc[p] = "idle"
    /\ jobLock[j] = NoProc
    /\ job[j] \notin JobTerminal \cup {"absent"}
    /\ jobLock' = [jobLock EXCEPT ![j] = p]
    /\ jobNew' = [jobNew EXCEPT ![j] = "cancelled"]
    /\ op' = [op EXCEPT ![p] = "cancel"]
    /\ Goto(p, "cancelTasks")
    /\ UNCHANGED <<task, taskNew, taskLock, att, attNew, attLock, job,
                   tid, num, wrk, todo, seen, next>>

\* Cancel's update of the tasks that have not finished. Attempts stay open.
CancelTasks(p) ==
    LET S == {t \in Tasks : /\ jobLock[JobOf[t]] = p
                            /\ task[t].state \in {"pending", "queued"} \cup Live}
    IN  /\ pc[p] = "cancelTasks"
        /\ \A t \in S : Lockable(p, t)
        /\ WriteTasks(p, S, "cancelled")
        /\ Goto(p, "commit")
        /\ UNCHANGED <<task, att, attNew, attLock, job, jobNew, jobLock,
                       op, tid, num, wrk, todo, seen, next>>

----------------------------------------------------------------------------

Init ==
    /\ task = [t \in Tasks |-> AbsentTask] /\ taskNew = task
    /\ taskLock = [t \in Tasks |-> NoProc]
    /\ att = [t \in Tasks |-> [n \in Numbers |-> AbsentAttempt]] /\ attNew = att
    /\ attLock = [t \in Tasks |-> [n \in Numbers |-> NoProc]]
    /\ job = [j \in Jobs |-> "absent"] /\ jobNew = job
    /\ jobLock = [j \in Jobs |-> NoProc]
    /\ pc = [p \in Procs |-> "idle"]
    /\ op = [p \in Procs |-> "none"]
    /\ tid = [p \in Procs |-> NoTask]
    /\ num = [p \in Procs |-> 0]
    /\ wrk = [p \in Procs |-> NoWorker]
    /\ todo = [p \in Procs |-> {}]
    /\ seen = [p \in Procs |-> NothingSeen]
    /\ next = [p \in Procs |-> "absent"]

\* The statements a transaction in flight goes on to execute by itself.
Step(p) ==
    \/ TransitionTask(p) \/ ReleaseDependents(p) \/ FailTask(p) \/ Refuse(p)
    \/ CountTasks(p) \/ UpdateJob(p)
    \/ LeaseTask(p) \/ LeaseMiss(p)
    \/ \E t \in Tasks, n \in Numbers : ExpireFinished(p, t, n) \/ ExpireTask(p, t, n)
    \/ CancelTasks(p)
    \/ Commit(p)

\* A call arrives at the control plane.
Call(p) ==
    \/ \E t \in Tasks, n \in Numbers :
          \/ CloseCancelled(p, t, n)
          \/ Start(p, t, n)
          \/ Progress(p, t, n)
          \/ \E r \in Results : Complete(p, t, n, r)
    \/ \E w \in Workers, t \in Tasks : LeaseSelect(p, w, t)
    \/ \E j \in Jobs : CancelSelect(p, j)

\* SweepLeases' ticker fires and finds something.
Sweep(p) == \E batch \in SUBSET Expirable : ExpireSelect(p, batch)

Next ==
    \/ \E j \in Jobs : Create(j)
    \/ \E t \in Tasks, n \in Numbers : Lapse(t, n)
    \/ \E p \in Procs : Step(p) \/ Call(p) \/ Sweep(p) \/ Abort(p)

Spec == Init /\ [][Next]_vars

----------------------------------------------------------------------------
(* What the store promises *)

\* A lease is exclusive: an attempt that is still open is the latest one of its
\* task, and its task has not been handed back, failed or finished underneath
\* it. So a task never has two workers that may both report a result, whatever
\* Lease, Complete, Cancel and ExpireLeases do to it at the same time.
LeaseExclusive ==
    \A t \in Tasks, n \in Numbers :
        att[t][n].state \in Live =>
            n = task[t].count /\ task[t].state \in Live \cup {"cancelled"}

\* A task that is leased or running has an open attempt in the same state.
\* ExpireLeases finds lost work only through open attempts, so a task without
\* one would stay leased for ever.
LiveTaskHasAttempt ==
    \A t \in Tasks :
        task[t].state \in Live =>
            /\ task[t].count \in Numbers
            /\ att[t][task[t].count].state = task[t].state

\* The retry budget counts leases, not failures: attempt rows are numbered 1 to
\* attempt_count without a gap, there are never more than max_attempts, and a
\* queued task still has one to spend.
BudgetAccounted ==
    \A t \in Tasks :
        /\ task[t].count <= MaxAttempts
        /\ task[t].state = "queued" => task[t].count < MaxAttempts
        /\ \A n \in Numbers : att[t][n].state = "absent" <=> n > task[t].count

\* A task counts as succeeded exactly when its latest attempt does, and then no
\* other attempt does: Complete's two writes are seen together or not at all.
ResultHasOneAuthor ==
    \A t \in Tasks, n \in Numbers :
        att[t][n].state = "succeeded" <=>
            task[t].state = "succeeded" /\ n = task[t].count

\* No task is given to a worker before everything it depends on has succeeded.
DependencyGate ==
    \A t \in Tasks :
        task[t].state \in {"queued", "succeeded", "failed"} \cup Live =>
            \A d \in DependsOn[t] : task[d].state = "succeeded"

\* A job says succeeded only when all of its tasks have, and failed only when
\* one has: reconcileJob may publish an old count, but never an outcome that
\* did not happen.
JobOutcomeHappened ==
    \A j \in Jobs :
        /\ job[j] = "succeeded" => \A t \in TasksOf(j) : task[t].state = "succeeded"
        /\ job[j] = "failed" => \E t \in TasksOf(j) : task[t].state = "failed"

\* A worker never holds more leases in a pool than the pool has slots, although
\* it may poll from several connections at once.
SlotsWithinCapacity ==
    \A w \in Workers, t \in Tasks :
        Cardinality({a \in LiveAttempts : /\ att[a[1]][a[2]].worker = w
                                          /\ SlotClass[a[1]] = SlotClass[t]})
          <= Capacity[w][SlotClass[t]]

\* A failure report and a sweep are never refused by the state machine. One
\* refused row would roll back the whole batch, and the same rows would be
\* selected again at every tick.
NeverPoisoned == \A p \in Procs : pc[p] \in {"fail", "sweep"} => ~Illegal(p)

\* What has been recorded as an outcome stays: an attempt that ended keeps its
\* state, and a task that succeeded or failed keeps its own.
OutcomesFinal ==
    [][ /\ \A t \in Tasks, n \in Numbers :
             att[t][n].state \notin Live \cup {"absent"}
               => att'[t][n].state = att[t][n].state
        /\ \A t \in Tasks :
             task[t].state \in {"succeeded", "failed"}
               => task'[t].state = task[t].state ]_vars

\* The lease protocol's state, as the committed tables show it.
OpenLeases == [t \in Tasks |-> {<<n, att[t][n].worker>> :
                                  n \in {m \in Numbers : att[t][m].state \in Live}}]
Granted == [t \in Tasks |-> task[t].count]
Finished == [t \in Tasks |-> task[t].state = "succeeded"]

Protocol == INSTANCE LeaseProtocol
              WITH open <- OpenLeases, grants <- Granted, done <- Finished

\* The store implements the lease protocol: seen through the committed tables,
\* every transaction of Lease, Start, Complete, ExpireLeases and Cancel grants
\* one exclusive numbered lease, ends some, or leaves them alone.
ImplementsLeaseProtocol == Protocol!Spec

----------------------------------------------------------------------------
(* What the repository says of the store that its transactions do not keep *)

Quiet == \A p \in Procs : pc[p] = "idle"

\* job.go, releaseDependents: "so the graph can never stall with everything
\* satisfied but nothing queued." Stated when nothing is in flight.
GraphNeverStalls ==
    Quiet => \A t \in Tasks :
        task[t].state = "pending" =>
            \E d \in DependsOn[t] : task[d].state # "succeeded"
============================================================================

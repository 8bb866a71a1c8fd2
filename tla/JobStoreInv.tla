---------------------------- MODULE JobStoreInv ----------------------------
(***************************************************************************)
(* The inductive invariant behind JobStore's safety properties. The        *)
(* promises about the committed tables are not inductive by themselves:    *)
(* what Commit publishes depends on what each transaction in flight has    *)
(* written to rows it has locked, so the invariant says what those pending *)
(* writes can be, and what each transaction holds at each statement.       *)
(***************************************************************************)
EXTENDS JobStore

\* Committed rows of task t and its attempts belong together. This is
\* LeaseExclusive, LiveTaskHasAttempt, BudgetAccounted and ResultHasOneAuthor,
\* and which tasks can never have been tried.
TableOK(t) ==
    /\ \A n \in Numbers :
         /\ att[t][n].state \in Live =>
              n = task[t].count /\ task[t].state \in Live \cup {"cancelled"}
         /\ att[t][n].state = "absent" <=> n > task[t].count
         /\ att[t][n].state = "succeeded" <=>
              task[t].state = "succeeded" /\ n = task[t].count
    /\ task[t].state \in Live =>
         task[t].count \in Numbers /\ att[t][task[t].count].state = task[t].state
    /\ task[t].count <= MaxAttempts
    /\ task[t].state = "queued" => task[t].count < MaxAttempts
    /\ task[t].state \in {"absent", "pending"} => task[t].count = 0
    /\ task[t].state \in {"succeeded", "failed"} => task[t].count > 0
    /\ job[JobOf[t]] = "absent" => task[t].state = "absent"

\* A task that has been released, or tried, has nothing left to wait for. A
\* cancelled task with attempts is included: it can be queued again.
GateOK(t) ==
    task[t].state = "queued" \/ task[t].count > 0 =>
        \A d \in DependsOn[t] : task[d].state = "succeeded"

\* Attempt row n of task t is locked by the transaction that holds t's lock, and
\* its pending state is in S.
Paired(t, n, S) ==
    n \in Numbers /\ attLock[t][n] = taskLock[t] /\ attNew[t][n].state \in S

\* The writes a transaction can have pending on a locked task row, each with the
\* attempt row it goes together with.
TaskWriteOK(t) ==
    LET from == task[t].state  to == taskNew[t].state
        c == task[t].count     cNew == taskNew[t].count
    IN  IF taskLock[t] = NoProc THEN taskNew[t] = task[t]
        ELSE \/ /\ from = "pending" /\ to = "queued" /\ cNew = c
                /\ \A d \in DependsOn[t] : View(taskLock[t], d).state = "succeeded"
             \/ from \in {"pending", "queued"} \cup Live /\ to = "cancelled" /\ cNew = c
             \/ /\ from = "queued" /\ to = "leased" /\ cNew = c + 1
                /\ Paired(t, cNew, {"leased"})
             \/ /\ from = "leased" /\ to = "running" /\ cNew = c
                /\ Paired(t, c, {"running"})
             \/ /\ from = "running" /\ to = "succeeded" /\ cNew = c
                /\ Paired(t, c, {"succeeded"})
             \/ /\ from \in Live \cup {"cancelled"} /\ to \in {"queued", "failed"}
                /\ cNew = c /\ (to = "queued" => c < MaxAttempts)
                /\ Paired(t, c, {"failed", "expired"})

\* p has recorded an attempt's new state and has yet to move the task.
Owed(p, t, n) == pc[p] \in {"transition", "fail"} /\ tid[p] = t /\ num[p] = n

\* The writes a transaction can have pending on a locked attempt row: none that
\* matters, an end that a cancelled task does not notice, or one that goes with
\* a move of the task, made or owed.
AttemptWriteOK(t, n) ==
    LET p == attLock[t][n]  from == att[t][n].state  to == attNew[t][n].state
    IN  /\ from \in Live => attNew[t][n].worker = att[t][n].worker
        /\ from # "absent" => att[t][n].worker \in Workers
        /\ to # "absent" => attNew[t][n].worker \in Workers
        /\ IF p = NoProc THEN attNew[t][n] = att[t][n]
           ELSE \/ from \in Live /\ to = from
                \/ /\ from \in Live /\ to \in {"cancelled", "expired"}
                   /\ task[t].state = "cancelled" /\ taskLock[t] # p
                \/ /\ from \in Live \/ (from = "absent" /\ to = "leased")
                   /\ taskLock[t] = p /\ taskNew[t].count = n
                   /\ taskNew[t].state # "cancelled"
                \/ from \in Live /\ Owed(p, t, n)

\* As p sees them, job j's tasks bear out the outcome s.
Happened(p, j, s) ==
    /\ s = "succeeded" => \A t \in TasksOf(j) : View(p, t).state = "succeeded"
    /\ s = "failed" => \E t \in TasksOf(j) : View(p, t).state = "failed"

\* Committed and pending outcomes of job j have happened.
JobRowOK(j) ==
    /\ job[j] = "succeeded" => \A t \in TasksOf(j) : task[t].state = "succeeded"
    /\ job[j] = "failed" => \E t \in TasksOf(j) : task[t].state = "failed"
    /\ IF jobLock[j] = NoProc THEN jobNew[j] = job[j]
       ELSE jobNew[j] # "absent" /\ Happened(jobLock[j], j, jobNew[j])

\* What a transaction holds at each of its statements.
PhaseOK(p) ==
    /\ pc[p] \in {"idle", "leaseTask", "cancelTasks"} =>
         \A t \in Tasks, n \in Numbers : attLock[t][n] # p
    /\ pc[p] \in {"idle", "leaseTask", "cancelTasks", "transition", "fail"} =>
         \A t \in Tasks : taskLock[t] # p
    /\ pc[p] \in {"transition", "fail"} =>
         /\ tid[p] \in Tasks /\ num[p] \in Numbers
         /\ attLock[tid[p]][num[p]] = p
         /\ att[tid[p]][num[p]].state \in Live
         /\ attNew[tid[p]][num[p]].state =
              IF pc[p] = "fail" THEN "failed" ELSE Target(p)
    /\ pc[p] = "fail" => seen[p][tid[p]].state \in Live
    /\ pc[p] \in {"release", "count", "updateJob"} => tid[p] \in Tasks
    /\ pc[p] = "updateJob" =>
         next[p] # "absent" /\ Happened(p, JobOf[tid[p]], next[p])
    /\ pc[p] = "leaseTask" =>
         /\ op[p] = "lease"
         /\ tid[p] \in Tasks /\ num[p] \in Numbers /\ wrk[p] \in Workers
         /\ num[p] <= task[tid[p]].count + 1
    /\ pc[p] \notin {"sweep", "count", "updateJob"} => todo[p] = {}
    /\ todo[p] # {} => op[p] = "expire"

\* A sweep only ends attempts, without a result. Every other transaction writes
\* the one attempt it is about.
ScopeOK(p) ==
    \A t \in Tasks, n \in Numbers :
        attLock[t][n] = p =>
            IF op[p] = "expire"
            THEN /\ att[t][n].state \in Live
                 /\ attNew[t][n].state \in {att[t][n].state, "expired"}
            ELSE t = tid[p] /\ n = num[p]

\* What a sweep knows of a row it has selected and not yet processed.
SweepRowOK(p, t, n) ==
    <<t, n>> \in todo[p] =>
        /\ attLock[t][n] = p /\ taskLock[t] # p
        /\ att[t][n].state \in Live /\ attNew[t][n].state = att[t][n].state
        /\ seen[p][t].count = task[t].count
        /\ seen[p][t].state \in Live \cup {"cancelled"}
        /\ seen[p][t].state = "cancelled" => task[t].state = "cancelled"

\* The store's invariant: every table row is coherent with the rows next to it,
\* and every transaction in flight can commit without breaking that.
StoreInvariant ==
    /\ TypeOK
    /\ \A t \in Tasks : TableOK(t) /\ GateOK(t) /\ TaskWriteOK(t)
    /\ \A t \in Tasks, n \in Numbers : AttemptWriteOK(t, n)
    /\ \A j \in Jobs : JobRowOK(j)
    /\ \A p \in Procs : PhaseOK(p) /\ ScopeOK(p)
    /\ \A p \in Procs, t \in Tasks, n \in Numbers : SweepRowOK(p, t, n)
============================================================================

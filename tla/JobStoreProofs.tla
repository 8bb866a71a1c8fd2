--------------------------- MODULE JobStoreProofs ---------------------------
(***************************************************************************)
(* StoreInvariant is inductive: one lemma per action of JobStore, each     *)
(* with one step per part of the invariant. Actions that differ only in    *)
(* what they write share a lemma about the write (ReportInvariant,         *)
(* MoveInvariant, WriteSetInvariant, RollbackInvariant). Two facts carry   *)
(* the argument. An attempt that is open is its task's latest, so whoever  *)
(* holds its lock excludes every other way of handing the task back; and a *)
(* succeeded or failed task is never locked for a write again, so what one *)
(* transaction saw as an outcome is still one when it commits.             *)
(* After it, what the invariant gives: the safety properties, the finality *)
(* of outcomes, the refinement of LeaseProtocol, and that the slots of a   *)
(* worker suffice for its leases.                                          *)
(***************************************************************************)
EXTENDS JobStoreInv, FiniteSetTheorems, TLAPS

\* The moves of state.go's two tables that the store relies on: which state a
\* row must have been in for a move to pass, and that a task in progress can
\* always be requeued or failed.
LEMMA LegalMoves ==
    /\ \A s : CanTransitionTask(s, "running") => s = "leased"
    /\ \A s : CanTransitionTask(s, "succeeded") => s = "running"
    /\ \A s : CanTransitionAttempt(s, "running") => s = "leased"
    /\ \A s : CanTransitionAttempt(s, "succeeded") => s = "running"
    /\ \A s : CanTransitionAttempt(s, "failed") => s \in Live
    /\ \A s \in Live : CanTransitionTask(s, "queued") /\ CanTransitionTask(s, "failed")
  BY DEF CanTransitionTask, CanTransitionAttempt, LegalTaskTransitions,
         LegalAttemptTransitions, Live

\* reconcileJob's switch always yields a state of a job that exists.
LEMMA DeriveType ==
    ASSUME NEW state, NEW T PROVE Derive(state, T) \in JobStates \ {"absent"}
  BY DEF Derive, JobStates

\* The empty tables satisfy the invariant.
LEMMA InitInvariant == Init => StoreInvariant
<1> SUFFICES ASSUME Init PROVE StoreInvariant
  OBVIOUS
<1> USE TablesAssumption, SentinelAssumption DEF Init
<1>1. TypeOK
  BY DEF TypeOK, TaskRow, AttemptRow, AbsentTask, AbsentAttempt, NothingSeen, Numbers,
         TaskStates, AttemptStates, JobStates, Labels, Ops
<1>2. ASSUME NEW t \in Tasks PROVE TableOK(t) /\ GateOK(t) /\ TaskWriteOK(t)
  BY DEF TableOK, GateOK, TaskWriteOK, AbsentTask, AbsentAttempt, Live, Numbers
<1>3. ASSUME NEW t \in Tasks, NEW n \in Numbers PROVE AttemptWriteOK(t, n)
  BY DEF AttemptWriteOK, AbsentAttempt, Live
<1>4. ASSUME NEW j \in Jobs PROVE JobRowOK(j)
  BY DEF JobRowOK
<1>5. ASSUME NEW p \in Procs PROVE PhaseOK(p) /\ ScopeOK(p)
  BY DEF PhaseOK, ScopeOK
<1>6. ASSUME NEW p \in Procs, NEW t \in Tasks, NEW n \in Numbers PROVE SweepRowOK(p, t, n)
  BY DEF SweepRowOK
<1> QED
  BY <1>1, <1>2, <1>3, <1>4, <1>5, <1>6 DEF StoreInvariant

\* reconcileJob's select only computes: what it derives is borne out by the rows
\* the transaction sees.
LEMMA CountTasksInvariant ==
    ASSUME StoreInvariant, NEW p \in Procs, CountTasks(p) PROVE StoreInvariant'
<1> USE TablesAssumption, SentinelAssumption DEF CountTasks, tables, Goto
<1>1. TypeOK'
  <2>1. Derive([t \in TasksOf(JobOf[tid[p]]) |-> View(p, t).state], TasksOf(JobOf[tid[p]])) \in JobStates
    BY DeriveType
  <2> QED
    BY <2>1 DEF StoreInvariant, TypeOK, Labels
<1>2. ASSUME NEW t \in Tasks PROVE TableOK(t)' /\ GateOK(t)'
  BY DEF StoreInvariant, TableOK, GateOK
<1>3. ASSUME NEW t \in Tasks PROVE TaskWriteOK(t)'
  BY DEF StoreInvariant, TypeOK, TaskWriteOK, Paired, View
<1>4. ASSUME NEW t \in Tasks, NEW n \in Numbers PROVE AttemptWriteOK(t, n)'
  BY DEF StoreInvariant, TypeOK, AttemptWriteOK, Owed
<1>5. ASSUME NEW j \in Jobs PROVE JobRowOK(j)'
  BY DEF StoreInvariant, TypeOK, JobRowOK, Happened, View
<1>6. ASSUME NEW q \in Procs PROVE PhaseOK(q)'
  <2>1. CASE q = p
    <3>1. next'[p] = Derive([t \in TasksOf(JobOf[tid[p]]) |-> View(p, t).state], TasksOf(JobOf[tid[p]]))
      BY DEF StoreInvariant, TypeOK
    <3>2. next'[p] # "absent"
      BY <3>1, DeriveType
    <3>3. Happened(p, JobOf[tid[p]], next'[p])
      BY <3>1 DEF Happened, Derive
    <3>4. Happened(p, JobOf[tid[p]], next[p])'
      BY <3>3 DEF Happened, View
    <3> QED
      BY <2>1, <3>2, <3>4 DEF StoreInvariant, TypeOK, PhaseOK
  <2>2. CASE q # p
    BY <2>2 DEF StoreInvariant, TypeOK, PhaseOK, Target, Happened, View
  <2> QED
    BY <2>1, <2>2
<1>7. ASSUME NEW q \in Procs, NEW t \in Tasks, NEW n \in Numbers PROVE SweepRowOK(q, t, n)'
  BY DEF StoreInvariant, TypeOK, SweepRowOK
<1>8. ASSUME NEW q \in Procs PROVE ScopeOK(q)'
  BY DEF StoreInvariant, ScopeOK
<1> QED
  BY <1>1, <1>2, <1>3, <1>4, <1>5, <1>6, <1>7, <1>8 DEF StoreInvariant, Numbers

\* reconcileJob's update writes the job state computed before, and that is still
\* borne out although other transactions have committed in between.
LEMMA UpdateJobInvariant ==
    ASSUME StoreInvariant, NEW p \in Procs, UpdateJob(p) PROVE StoreInvariant'
<1> USE TablesAssumption, SentinelAssumption DEF UpdateJob, Goto
<1>1. TypeOK'
  BY DEF StoreInvariant, TypeOK, Labels
<1>2. ASSUME NEW t \in Tasks PROVE TableOK(t)' /\ GateOK(t)'
  BY DEF StoreInvariant, TableOK, GateOK
<1>3. ASSUME NEW t \in Tasks PROVE TaskWriteOK(t)'
  BY DEF StoreInvariant, TypeOK, TaskWriteOK, Paired, View
<1>4. ASSUME NEW t \in Tasks, NEW n \in Numbers PROVE AttemptWriteOK(t, n)'
  BY DEF StoreInvariant, TypeOK, AttemptWriteOK, Owed
<1>5. ASSUME NEW j \in Jobs PROVE JobRowOK(j)'
  <2>1. PhaseOK(p) /\ JobRowOK(j) /\ JobOf[tid[p]] \in Jobs
    BY DEF StoreInvariant, PhaseOK
  <2>2. CASE j = JobOf[tid[p]]
    <3>1. jobLock'[j] = p /\ jobNew'[j] = next[p]
      BY <2>1, <2>2 DEF StoreInvariant, TypeOK
    <3>2. Happened(p, j, next[p]) /\ next[p] # "absent"
      BY <2>1, <2>2 DEF PhaseOK
    <3>3. Happened(jobLock[j], j, jobNew[j])'
      BY <3>1, <3>2 DEF Happened, View
    <3> QED
      BY <2>1, <3>1, <3>2, <3>3 DEF JobRowOK
  <2>3. CASE j # JobOf[tid[p]]
    BY <2>1, <2>3 DEF StoreInvariant, TypeOK, JobRowOK, Happened, View
  <2> QED
    BY <2>2, <2>3
<1>6. ASSUME NEW q \in Procs PROVE PhaseOK(q)'
  <2>1. CASE q = p
    BY <2>1 DEF StoreInvariant, TypeOK, PhaseOK
  <2>2. CASE q # p
    BY <2>2 DEF StoreInvariant, TypeOK, PhaseOK, Target, Happened, View
  <2> QED
    BY <2>1, <2>2
<1>7. ASSUME NEW q \in Procs, NEW t \in Tasks, NEW n \in Numbers PROVE SweepRowOK(q, t, n)'
  BY DEF StoreInvariant, TypeOK, SweepRowOK
<1>8. ASSUME NEW q \in Procs PROVE ScopeOK(q)'
  BY DEF StoreInvariant, ScopeOK
<1> QED
  BY <1>1, <1>2, <1>3, <1>4, <1>5, <1>6, <1>7, <1>8 DEF StoreInvariant, Numbers

\* Lease's choice of a task writes nothing; the attempt number it computes fits
\* the budget because the task was queued.
LEMMA LeaseSelectInvariant ==
    ASSUME StoreInvariant, NEW p \in Procs, NEW w \in Workers, NEW t0 \in Tasks, LeaseSelect(p, w, t0)
    PROVE  StoreInvariant'
<1> USE TablesAssumption, SentinelAssumption DEF LeaseSelect, tables, Goto
<1>0. task[t0].count + 1 \in Numbers
  BY DEF StoreInvariant, TypeOK, TaskRow, TableOK, Numbers
<1>1. TypeOK'
  BY <1>0 DEF StoreInvariant, TypeOK, Labels, Ops
<1>2. ASSUME NEW t \in Tasks PROVE TableOK(t)' /\ GateOK(t)'
  BY DEF StoreInvariant, TableOK, GateOK
<1>3. ASSUME NEW t \in Tasks PROVE TaskWriteOK(t)'
  BY DEF StoreInvariant, TypeOK, TaskWriteOK, Paired, View
<1>4. ASSUME NEW t \in Tasks, NEW n \in Numbers PROVE AttemptWriteOK(t, n)'
  BY DEF StoreInvariant, TypeOK, AttemptWriteOK, Owed
<1>5. ASSUME NEW j \in Jobs PROVE JobRowOK(j)'
  BY DEF StoreInvariant, TypeOK, JobRowOK, Happened, View
<1>6. ASSUME NEW q \in Procs PROVE PhaseOK(q)'
  <2>1. CASE q = p
    <3>1. /\ tid'[p] = t0 /\ num'[p] = task[t0].count + 1 /\ wrk'[p] = w
          /\ pc'[p] = "leaseTask" /\ op'[p] = "lease"
      BY DEF StoreInvariant, TypeOK
    <3>2. num'[p] <= task'[t0].count + 1
      BY <1>0, <3>1 DEF Numbers
    <3>3. PhaseOK(p) /\ todo'[p] = todo[p]
      BY DEF StoreInvariant
    <3>4. UNCHANGED <<attLock, taskLock>> /\ pc[p] = "idle"
      OBVIOUS
    <3> HIDE DEF LeaseSelect
    <3> QED
      BY <1>0, <2>1, <3>1, <3>2, <3>3, <3>4 DEF PhaseOK
  <2>2. CASE q # p
    BY <2>2 DEF StoreInvariant, TypeOK, PhaseOK, Target, Happened, View
  <2> QED
    BY <2>1, <2>2
<1>7. ASSUME NEW q \in Procs, NEW t \in Tasks, NEW n \in Numbers PROVE SweepRowOK(q, t, n)'
  BY DEF StoreInvariant, TypeOK, SweepRowOK
<1>8. ASSUME NEW q \in Procs PROVE ScopeOK(q)'
  <2>1. CASE q = p
    <3>1. \A t \in Tasks, n \in Numbers : attLock[t][n] # p
      BY DEF StoreInvariant, PhaseOK
    <3> QED
      BY <2>1, <3>1 DEF ScopeOK
  <2>2. CASE q # p
    BY <2>2 DEF StoreInvariant, TypeOK, ScopeOK
  <2> QED
    BY <2>1, <2>2
<1> QED
  BY <1>1, <1>2, <1>3, <1>4, <1>5, <1>6, <1>7, <1>8 DEF StoreInvariant, Numbers

\* Cancel's select locks the job row only.
LEMMA CancelSelectInvariant ==
    ASSUME StoreInvariant, NEW p \in Procs, NEW j0 \in Jobs, CancelSelect(p, j0)
    PROVE  StoreInvariant'
<1> USE TablesAssumption, SentinelAssumption DEF CancelSelect, Goto
<1>1. TypeOK'
  BY DEF StoreInvariant, TypeOK, Labels, Ops, JobStates
<1>2. ASSUME NEW t \in Tasks PROVE TableOK(t)' /\ GateOK(t)'
  BY DEF StoreInvariant, TableOK, GateOK
<1>3. ASSUME NEW t \in Tasks PROVE TaskWriteOK(t)'
  BY DEF StoreInvariant, TypeOK, TaskWriteOK, Paired, View
<1>4. ASSUME NEW t \in Tasks, NEW n \in Numbers PROVE AttemptWriteOK(t, n)'
  BY DEF StoreInvariant, TypeOK, AttemptWriteOK, Owed
<1>5. ASSUME NEW j \in Jobs PROVE JobRowOK(j)'
  BY DEF StoreInvariant, TypeOK, JobRowOK, Happened, View
<1>6. ASSUME NEW q \in Procs PROVE PhaseOK(q)'
  BY DEF StoreInvariant, TypeOK, PhaseOK, Target, Happened, View
<1>7. ASSUME NEW q \in Procs, NEW t \in Tasks, NEW n \in Numbers PROVE SweepRowOK(q, t, n)'
  BY DEF StoreInvariant, TypeOK, SweepRowOK
<1>8. ASSUME NEW q \in Procs PROVE ScopeOK(q)'
  <2>1. CASE q = p
    <3>1. \A t \in Tasks, n \in Numbers : attLock[t][n] # p
      BY DEF StoreInvariant, PhaseOK
    <3> QED
      BY <2>1, <3>1 DEF ScopeOK
  <2>2. CASE q # p
    BY <2>2 DEF StoreInvariant, TypeOK, ScopeOK
  <2> QED
    BY <2>1, <2>2
<1> QED
  BY <1>1, <1>2, <1>3, <1>4, <1>5, <1>6, <1>7, <1>8 DEF StoreInvariant, Numbers

\* Create inserts rows nobody has locked or seen.
LEMMA CreateInvariant ==
    ASSUME StoreInvariant, NEW j0 \in Jobs, Create(j0) PROVE StoreInvariant'
<1> USE TablesAssumption, SentinelAssumption DEF Create
<1>a. \A t \in Tasks : JobOf[t] = j0 => task[t].state = "absent" /\ task[t].count = 0
  BY DEF StoreInvariant, TableOK
<1>b. \A t \in Tasks : JobOf[t] = j0 => taskLock[t] = NoProc
  BY <1>a DEF StoreInvariant, TypeOK, TaskWriteOK, Live
<1>c. \A t \in Tasks : JobOf[t] # j0 => task'[t] = task[t] /\ taskNew'[t] = taskNew[t]
  BY DEF StoreInvariant, TypeOK
<1>d. \A t \in Tasks : JobOf[t] = j0 =>
        /\ task'[t].state = (IF DependsOn[t] = {} THEN "queued" ELSE "pending")
        /\ task'[t].count = 0 /\ taskNew'[t] = task'[t]
  OBVIOUS
<1>e. UNCHANGED <<taskLock, att, attNew, attLock, jobLock, pc, op, tid, num, wrk, todo, seen, next>>
  BY DEF locals
<1>f. \A j \in Jobs : j # j0 => job'[j] = job[j] /\ jobNew'[j] = jobNew[j]
  BY DEF StoreInvariant, TypeOK
<1>g. job'[j0] = "pending" /\ jobNew'[j0] = "pending"
  BY DEF StoreInvariant, TypeOK
<1>1. TypeOK'
  <2>1. task' \in [Tasks -> TaskRow] /\ taskNew' \in [Tasks -> TaskRow]
    BY DEF StoreInvariant, TypeOK, TaskRow, TaskStates
  <2>2. job' \in [Jobs -> JobStates] /\ jobNew' \in [Jobs -> JobStates]
    BY DEF StoreInvariant, TypeOK, JobStates
  <2> QED
    BY <1>e, <2>1, <2>2 DEF StoreInvariant, TypeOK
<1>2. ASSUME NEW t \in Tasks PROVE TableOK(t)' /\ GateOK(t)'
  <2> HIDE DEF Create
  <2>1. TableOK(t)'
    BY <1>a, <1>c, <1>d, <1>e, <1>f, <1>g DEF StoreInvariant, TableOK, Live, Numbers
  <2>2. GateOK(t)'
    BY <1>a, <1>c, <1>d DEF StoreInvariant, GateOK
  <2> QED
    BY <2>1, <2>2
<1>3. ASSUME NEW t \in Tasks PROVE TaskWriteOK(t)'
  <2> HIDE DEF Create
  <2>1. TaskWriteOK(t)
    BY DEF StoreInvariant
  <2>2. CASE JobOf[t] = j0
    BY <1>b, <1>d, <1>e, <2>2 DEF TaskWriteOK
  <2>3. CASE JobOf[t] # j0
    <3>1. taskLock[t] # NoProc =>
            \A d \in Tasks : View(taskLock[t], d).state = "succeeded" =>
                              View(taskLock[t], d).state' = "succeeded"
      BY <1>a, <1>b, <1>c, <1>e DEF View
    <3> QED
      BY <1>c, <1>e, <2>1, <2>3, <3>1 DEF TaskWriteOK, Paired, View
  <2> QED
    BY <2>2, <2>3
<1>4. ASSUME NEW t \in Tasks, NEW n \in Numbers PROVE AttemptWriteOK(t, n)'
  <2> HIDE DEF Create
  <2>1. AttemptWriteOK(t, n) /\ TableOK(t)
    BY DEF StoreInvariant
  <2> QED
    BY <1>a, <1>b, <1>c, <1>e, <2>1 DEF AttemptWriteOK, TableOK, Owed, Live
<1>5. ASSUME NEW j \in Jobs PROVE JobRowOK(j)'
  <2> HIDE DEF Create
  <2>1. CASE j = j0
    BY <1>e, <1>g, <2>1 DEF StoreInvariant, TypeOK, JobRowOK, Happened
  <2>2. CASE j # j0
    <3>1. JobRowOK(j)
      BY DEF StoreInvariant
    <3>2. \A t \in TasksOf(j) : t \in Tasks /\ JobOf[t] # j0
      BY <2>2 DEF TasksOf
    <3> QED
      BY <1>c, <1>e, <1>f, <2>2, <3>1, <3>2 DEF JobRowOK, Happened, View
  <2> QED
    BY <2>1, <2>2
<1>6. ASSUME NEW q \in Procs PROVE PhaseOK(q)'
  <2> HIDE DEF Create
  <2>1. ASSUME pc[q] = "updateJob" PROVE Happened(q, JobOf[tid[q]], next[q])'
    <3>1. tid[q] \in Tasks /\ Happened(q, JobOf[tid[q]], next[q])
      BY <2>1 DEF StoreInvariant, PhaseOK
    <3>2. CASE JobOf[tid[q]] = j0
      <4>1. tid[q] \in TasksOf(j0) /\ \A t \in TasksOf(j0) : t \in Tasks /\ JobOf[t] = j0
        BY <3>1, <3>2 DEF TasksOf
      <4>2. \A t \in TasksOf(j0) : View(q, t).state = "absent"
        BY <1>a, <1>b, <4>1 DEF View
      <4> QED
        BY <1>e, <3>1, <3>2, <4>1, <4>2 DEF Happened
    <3>3. CASE JobOf[tid[q]] # j0
      <4>1. \A t \in TasksOf(JobOf[tid[q]]) : t \in Tasks /\ JobOf[t] # j0
        BY <3>3 DEF TasksOf
      <4> QED
        BY <1>c, <1>e, <3>1, <4>1 DEF Happened, View
    <3> QED
      BY <3>2, <3>3
  <2>2. ASSUME pc[q] = "leaseTask" PROVE num[q] <= task'[tid[q]].count + 1
    BY <1>a, <1>c, <1>d, <2>2 DEF StoreInvariant, PhaseOK
  <2> QED
    BY <1>e, <2>1, <2>2 DEF StoreInvariant, TypeOK, PhaseOK, Target
<1>7. ASSUME NEW q \in Procs, NEW t \in Tasks, NEW n \in Numbers PROVE SweepRowOK(q, t, n)'
  <2> HIDE DEF Create
  <2> QED
    BY <1>a, <1>c, <1>e DEF StoreInvariant, SweepRowOK, TableOK, Live
<1>8. ASSUME NEW q \in Procs PROVE ScopeOK(q)'
  <2> HIDE DEF Create
  <2> QED
    BY <1>e DEF StoreInvariant, ScopeOK
<1> QED
  BY <1>1, <1>2, <1>3, <1>4, <1>5, <1>6, <1>7, <1>8 DEF StoreInvariant, Numbers

\* The passing of a lease's deadline changes no state of any row.
LEMMA LapseInvariant ==
    ASSUME StoreInvariant, NEW t0 \in Tasks, NEW n0 \in Numbers, Lapse(t0, n0) PROVE StoreInvariant'
<1> USE TablesAssumption, SentinelAssumption DEF Lapse
<1>a. UNCHANGED <<task, taskNew, taskLock, attLock, job, jobNew, jobLock,
                  pc, op, tid, num, wrk, todo, seen, next>>
  BY DEF locals
<1>b. att \in [Tasks -> [Numbers -> AttemptRow]] /\ attNew \in [Tasks -> [Numbers -> AttemptRow]]
  BY DEF StoreInvariant, TypeOK
<1>c. att' \in [Tasks -> [Numbers -> AttemptRow]] /\ attNew' \in [Tasks -> [Numbers -> AttemptRow]]
  <2>1. ASSUME NEW r \in AttemptRow PROVE [r EXCEPT !.lapsed = TRUE] \in AttemptRow
    BY DEF AttemptRow
  <2> QED
    BY <1>b, <2>1
<1>d. ASSUME NEW t \in Tasks, NEW n \in Numbers
      PROVE /\ att'[t][n].state = att[t][n].state /\ att'[t][n].worker = att[t][n].worker
            /\ attNew'[t][n].state = attNew[t][n].state
            /\ attNew'[t][n].worker = attNew[t][n].worker
  BY <1>b DEF AttemptRow
<1>e. ASSUME NEW t \in Tasks, NEW n \in Numbers, attLock[t][n] = NoProc
      PROVE attNew'[t][n] = att'[t][n]
  <2>1. attNew[t][n] = att[t][n]
    BY <1>e DEF StoreInvariant, AttemptWriteOK
  <2> QED
    BY <1>b, <2>1 DEF AttemptRow
<1> HIDE DEF Lapse
<1>1. TypeOK'
  BY <1>a, <1>c DEF StoreInvariant, TypeOK
<1>2. ASSUME NEW t \in Tasks PROVE TableOK(t)' /\ GateOK(t)'
  <2>1. TableOK(t) /\ GateOK(t)
    BY DEF StoreInvariant
  <2> QED
    BY <1>a, <1>d, <2>1 DEF TableOK, GateOK
<1>3. ASSUME NEW t \in Tasks PROVE TaskWriteOK(t)'
  <2>1. TaskWriteOK(t)
    BY DEF StoreInvariant
  <2> QED
    BY <1>a, <1>d, <2>1 DEF TaskWriteOK, Paired, View
<1>4. ASSUME NEW t \in Tasks, NEW n \in Numbers PROVE AttemptWriteOK(t, n)'
  <2>1. AttemptWriteOK(t, n)
    BY DEF StoreInvariant
  <2> QED
    BY <1>a, <1>d, <1>e, <2>1 DEF AttemptWriteOK, Owed
<1>5. ASSUME NEW j \in Jobs PROVE JobRowOK(j)'
  BY <1>a DEF StoreInvariant, TypeOK, JobRowOK, Happened, View
<1>6. ASSUME NEW q \in Procs PROVE PhaseOK(q)'
  <2>1. PhaseOK(q)
    BY DEF StoreInvariant
  <2> QED
    BY <1>a, <1>d, <2>1 DEF PhaseOK, Target, Happened, View
<1>7. ASSUME NEW q \in Procs, NEW t \in Tasks, NEW n \in Numbers PROVE SweepRowOK(q, t, n)'
  <2>1. SweepRowOK(q, t, n)
    BY DEF StoreInvariant
  <2> QED
    BY <1>a, <1>d, <2>1 DEF SweepRowOK
<1>8. ASSUME NEW q \in Procs PROVE ScopeOK(q)'
  <2>1. ScopeOK(q)
    BY DEF StoreInvariant
  <2> QED
    BY <1>a, <1>d, <2>1 DEF ScopeOK
<1> QED
  BY <1>1, <1>2, <1>3, <1>4, <1>5, <1>6, <1>7, <1>8 DEF StoreInvariant, Numbers

\* What Start, Progress, Complete and closeAttemptCancelled do to the attempt row
\* withAttempt has locked: any of these writes can be committed, or goes with a
\* move of the task that the transaction still owes.
LEMMA ReportInvariant ==
    ASSUME StoreInvariant,
           NEW p \in Procs, NEW t0 \in Tasks, NEW n0 \in Numbers,
           NEW o \in Ops \ {"expire"}, NEW row \in AttemptRow, NEW label,
           WithAttempt(p, t0, n0, o), WriteAttempt(p, t0, n0, row), Goto(p, label),
           row.worker = att[t0][n0].worker, 
           \/ label = "commit" /\ row.state = att[t0][n0].state
           \/ label = "commit" /\ row.state = "cancelled" /\ task[t0].state = "cancelled"
           \/ /\ label = "transition" /\ task[t0].state # "cancelled"
              /\ row.state = IF o = "start" THEN "running" ELSE "succeeded"
           \/ label = "fail" /\ row.state = "failed" /\ task[t0].state # "cancelled" PROVE StoreInvariant'
<1> USE TablesAssumption, SentinelAssumption DEF WithAttempt, WriteAttempt, Goto
<1>a. TypeOK /\ PhaseOK(p) /\ TableOK(t0) /\ AttemptWriteOK(t0, n0)
  BY DEF StoreInvariant
<1>b. UNCHANGED <<task, taskNew, taskLock, att, job, jobNew, jobLock, wrk, todo, next>>
  OBVIOUS
<1>c. /\ pc'[p] = label /\ op'[p] = o /\ tid'[p] = t0 /\ num'[p] = n0
      /\ seen'[p][t0] = task[t0]
  BY <1>a DEF TypeOK
<1>d. \A q \in Procs \ {p} : /\ pc'[q] = pc[q] /\ op'[q] = op[q] /\ tid'[q] = tid[q]
                            /\ num'[q] = num[q] /\ seen'[q] = seen[q]
  BY <1>a DEF TypeOK
<1>e. attLock'[t0][n0] = p /\ attNew'[t0][n0] = row
  BY <1>a DEF TypeOK
<1>f. ASSUME NEW t \in Tasks, NEW n \in Numbers, t # t0 \/ n # n0
      PROVE attLock'[t][n] = attLock[t][n] /\ attNew'[t][n] = attNew[t][n]
  BY <1>a, <1>f DEF TypeOK
<1>g. /\ pc[p] = "idle" /\ att[t0][n0].state \in Live /\ attLock[t0][n0] = NoProc
      /\ \A t \in Tasks : taskLock[t] # p
      /\ \A t \in Tasks, n \in Numbers : attLock[t][n] # p
      /\ todo[p] = {} /\ row.worker \in Workers /\ label \in Labels
      /\ task[t0].state \in Live \cup {"cancelled"}
  BY <1>a DEF PhaseOK, TableOK, AttemptWriteOK, Labels, Live
<1>h. \A q \in Procs, t \in Tasks : <<t, n0>> \in todo[q] /\ t = t0 => FALSE
  BY <1>g DEF StoreInvariant, SweepRowOK
<1>i. TypeOK'
  <2>1. attLock' \in [Tasks -> [Numbers -> Procs \cup {NoProc}]]
    BY <1>a DEF TypeOK
  <2>2. attNew' \in [Tasks -> [Numbers -> AttemptRow]]
    BY <1>a DEF TypeOK
  <2>3. /\ pc' \in [Procs -> Labels] /\ op' \in [Procs -> Ops]
        /\ tid' \in [Procs -> Tasks \cup {NoTask}] /\ num' \in [Procs -> Numbers \cup {0}]
    BY <1>a, <1>g DEF TypeOK
  <2>4. seen' \in [Procs -> [Tasks -> TaskRow]]
    BY <1>a DEF TypeOK
  <2> QED
    BY <1>a, <1>b, <2>1, <2>2, <2>3, <2>4 DEF TypeOK
<1> HIDE DEF WithAttempt, WriteAttempt, Goto
<1>1. TypeOK'
  BY <1>i
<1>2. ASSUME NEW t \in Tasks PROVE TableOK(t)' /\ GateOK(t)'
  <2>1. TableOK(t) /\ GateOK(t)
    BY DEF StoreInvariant
  <2> QED
    BY <1>b, <2>1 DEF TableOK, GateOK
<1>3. ASSUME NEW t \in Tasks PROVE TaskWriteOK(t)'
  <2>1. TaskWriteOK(t)
    BY DEF StoreInvariant
  <2>2. taskLock[t] # NoProc => \A n \in Numbers : attLock[t][n] = taskLock[t] =>
           attLock'[t][n] = attLock[t][n] /\ attNew'[t][n] = attNew[t][n]
    BY <1>f, <1>g
  <2> QED
    BY <1>b, <2>1, <2>2 DEF TaskWriteOK, Paired, View
<1>4. ASSUME NEW t \in Tasks, NEW n \in Numbers PROVE AttemptWriteOK(t, n)'
  <2>1. AttemptWriteOK(t, n) /\ attLock[t][n] \in Procs \cup {NoProc}
    BY <1>a DEF StoreInvariant, TypeOK
  <2>2. CASE t = t0 /\ n = n0
    BY <1>b, <1>c, <1>e, <1>g, <2>2 DEF AttemptWriteOK, Owed
  <2>3. CASE t # t0 \/ n # n0
    BY <1>b, <1>d, <1>f, <1>g, <2>1, <2>3 DEF AttemptWriteOK, Owed
  <2> QED
    BY <2>2, <2>3
<1>5. ASSUME NEW j \in Jobs PROVE JobRowOK(j)'
  <2>1. JobRowOK(j)
    BY DEF StoreInvariant
  <2> QED
    BY <1>b, <2>1 DEF JobRowOK, Happened, View
<1>6. ASSUME NEW q \in Procs PROVE PhaseOK(q)'
  <2>1. CASE q = p
    BY <1>b, <1>c, <1>e, <1>g, <2>1 DEF PhaseOK, Target
  <2>2. CASE q # p
    <3>1. PhaseOK(q)
      BY DEF StoreInvariant
    <3>2. \A t \in Tasks, n \in Numbers : attLock'[t][n] = q <=> attLock[t][n] = q
      BY <1>e, <1>f, <1>g, <2>2
    <3>3. \A t \in Tasks, n \in Numbers : attLock[t][n] = q => attNew'[t][n] = attNew[t][n]
      BY <1>e, <1>f, <1>g, <2>2
    <3>4. pc'[q] = pc[q] /\ op'[q] = op[q] /\ tid'[q] = tid[q] /\ num'[q] = num[q] /\ seen'[q] = seen[q]
      BY <1>d, <2>2
    <3> QED
      BY <1>b, <3>1, <3>2, <3>3, <3>4 DEF PhaseOK, Target, Happened, View
  <2> QED
    BY <2>1, <2>2
<1>7. ASSUME NEW q \in Procs, NEW t \in Tasks, NEW n \in Numbers PROVE SweepRowOK(q, t, n)'
  <2>1. SweepRowOK(q, t, n)
    BY DEF StoreInvariant
  <2> QED
    BY <1>b, <1>d, <1>f, <1>g, <1>h, <2>1 DEF SweepRowOK
<1>8. ASSUME NEW q \in Procs PROVE ScopeOK(q)'
  <2>1. CASE q = p
    BY <1>c, <1>e, <1>f, <1>g, <2>1 DEF ScopeOK
  <2>2. CASE q # p
    <3>1. ScopeOK(q)
      BY DEF StoreInvariant
    <3>2. \A t \in Tasks, n \in Numbers : attLock'[t][n] = q =>
             attLock[t][n] = q /\ attNew'[t][n] = attNew[t][n]
      BY <1>e, <1>f, <2>2
    <3> QED
      BY <1>b, <1>d, <2>2, <3>1, <3>2 DEF ScopeOK
  <2> QED
    BY <2>1, <2>2
<1> QED
  BY <1>1, <1>2, <1>3, <1>4, <1>5, <1>6, <1>7, <1>8 DEF StoreInvariant, Numbers

\* closeAttemptCancelled ends an attempt whose task is cancelled.
LEMMA CloseCancelledInvariant ==
    ASSUME StoreInvariant, NEW p \in Procs, NEW t \in Tasks, NEW n \in Numbers,
           CloseCancelled(p, t, n)
    PROVE StoreInvariant'
<1> DEFINE row == [att[t][n] EXCEPT !.state = "cancelled"]
<1>1. att[t][n] \in AttemptRow /\ "close" \in Ops
  BY DEF StoreInvariant, TypeOK, Ops
<1>2. row \in AttemptRow /\ row.worker = att[t][n].worker /\ row.state = "cancelled"
  BY <1>1 DEF AttemptRow, AttemptStates
<1>3. WithAttempt(p, t, n, "close") /\ WriteAttempt(p, t, n, row) /\ Goto(p, "commit")
      /\ task[t].state = "cancelled"
  BY DEF CloseCancelled
<1> HIDE DEF row
<1> QED
  BY <1>1, <1>2, <1>3, ReportInvariant

\* Progress renews a lease and changes no state.
LEMMA ProgressInvariant ==
    ASSUME StoreInvariant, NEW p \in Procs, NEW t \in Tasks, NEW n \in Numbers,
           Progress(p, t, n)
    PROVE StoreInvariant'
<1> DEFINE row == [att[t][n] EXCEPT !.lapsed = FALSE]
<1>1. att[t][n] \in AttemptRow /\ "progress" \in Ops
  BY DEF StoreInvariant, TypeOK, Ops
<1>2. row \in AttemptRow /\ row.worker = att[t][n].worker /\ row.state = att[t][n].state
  BY <1>1 DEF AttemptRow
<1>3. WithAttempt(p, t, n, "progress") /\ WriteAttempt(p, t, n, row) /\ Goto(p, "commit")
  BY DEF Progress
<1> HIDE DEF row
<1> QED
  BY <1>1, <1>2, <1>3, ReportInvariant

\* Start records that the attempt runs and owes the task the same move.
LEMMA StartInvariant ==
    ASSUME StoreInvariant, NEW p \in Procs, NEW t \in Tasks, NEW n \in Numbers,
           Start(p, t, n)
    PROVE StoreInvariant'
<1> DEFINE row == [att[t][n] EXCEPT !.state = "running", !.lapsed = FALSE]
<1>1. att[t][n] \in AttemptRow /\ "start" \in Ops
  BY DEF StoreInvariant, TypeOK, Ops
<1>2. row \in AttemptRow /\ row.worker = att[t][n].worker /\ row.state = "running"
  BY <1>1 DEF AttemptRow, AttemptStates
<1>3. WithAttempt(p, t, n, "start") /\ WriteAttempt(p, t, n, row) /\ Goto(p, "transition")
      /\ task[t].state # "cancelled"
  BY DEF Start
<1> HIDE DEF row
<1> QED
  BY <1>1, <1>2, <1>3, ReportInvariant

\* Complete records the attempt's outcome and owes the task the move it implies.
LEMMA CompleteInvariant ==
    ASSUME StoreInvariant, NEW p \in Procs, NEW t \in Tasks, NEW n \in Numbers,
           NEW r \in Results, Complete(p, t, n, r)
    PROVE StoreInvariant'
<1> DEFINE to == IF r = "success" THEN "succeeded" ELSE "failed"
<1> DEFINE row == [att[t][n] EXCEPT !.state = to]
<1> DEFINE label == IF r = "success" THEN "transition" ELSE "fail"
<1>1. att[t][n] \in AttemptRow /\ r \in Ops /\ r # "expire"
  BY ResultsAssumption DEF StoreInvariant, TypeOK, Ops
<1>2. row \in AttemptRow /\ row.worker = att[t][n].worker /\ row.state = to
  BY <1>1 DEF AttemptRow, AttemptStates
<1>3. WithAttempt(p, t, n, r) /\ WriteAttempt(p, t, n, row) /\ Goto(p, label)
      /\ task[t].state # "cancelled"
  BY DEF Complete
<1> HIDE DEF row
<1>4. CASE r = "success"
  BY <1>1, <1>2, <1>3, <1>4, ReportInvariant
<1>5. CASE r # "success"
  BY <1>1, <1>2, <1>3, <1>5, ReportInvariant
<1> QED
  BY <1>4, <1>5

\* Nothing a transaction sees as an outcome is taken back by this step.
OutcomesKept ==
    /\ \A t \in Tasks : task[t].state \in {"succeeded", "failed"} =>
         task'[t].state = task[t].state
    /\ \A q \in Procs, t \in Tasks : View(q, t).state \in {"succeeded", "failed"} =>
         View(q, t)'.state = View(q, t).state

\* A job outcome some transaction saw stays borne out by a step that takes no
\* outcome back.
LEMMA HappenedKept ==
    ASSUME OutcomesKept, NEW q \in Procs, NEW j, NEW s, Happened(q, j, s)
    PROVE /\ s = "succeeded" => \A t \in TasksOf(j) : View(q, t)'.state = "succeeded"
          /\ s = "failed" => \E t \in TasksOf(j) : View(q, t)'.state = "failed"
  BY DEF OutcomesKept, Happened, TasksOf

\* A step that takes no outcome back and leaves the job rows alone keeps what the
\* invariant says of them.
LEMMA JobRowKept ==
    ASSUME StoreInvariant, OutcomesKept, UNCHANGED <<job, jobNew, jobLock>>, NEW j \in Jobs
    PROVE JobRowOK(j)'
<1>1. JobRowOK(j) /\ jobLock[j] \in Procs \cup {NoProc}
  BY DEF StoreInvariant, TypeOK
<1>2. \A t \in TasksOf(j) : t \in Tasks
  BY DEF TasksOf
<1>3. ASSUME jobLock[j] # NoProc PROVE Happened(jobLock[j], j, jobNew[j])'
  <2>1. PICK q \in Procs : q = jobLock[j]
    BY <1>1, <1>3
  <2>2. Happened(q, j, jobNew[j])
    BY <1>1, <1>3, <2>1 DEF JobRowOK
  <2>3. Happened(q, j, jobNew[j])'
    BY <2>2, HappenedKept DEF Happened
  <2> QED
    BY <2>1, <2>3 DEF Happened, View
<1> QED
  BY <1>1, <1>2, <1>3 DEF JobRowOK, OutcomesKept

\* A step that takes no outcome back keeps the state reconcileJob has computed
\* borne out until it is written.
LEMMA NextKept ==
    ASSUME StoreInvariant, OutcomesKept, NEW q \in Procs, pc[q] = "updateJob",
           tid'[q] = tid[q], next'[q] = next[q]
    PROVE tid[q] \in Tasks /\ next'[q] # "absent" /\ Happened(q, JobOf[tid[q]], next[q])'
<1>1. PhaseOK(q)
  BY DEF StoreInvariant
<1>2. tid[q] \in Tasks /\ next[q] # "absent" /\ Happened(q, JobOf[tid[q]], next[q])
  BY <1>1 DEF PhaseOK
<1> QED
  BY <1>2, HappenedKept DEF Happened, View

\* The move of a task that transitionTx and Complete's failure path make. The
\* attempt is still open and locked, so it is the task's latest one, and whatever
\* the task has become since withAttempt read it, nobody has leased it again.
LEMMA MoveInvariant ==
    ASSUME StoreInvariant,
           NEW p \in Procs, NEW t0, NEW n0, t0 = tid[p], n0 = num[p],
           NEW to, NEW label, pc[p] \in {"transition", "fail"}, Lockable(p, t0),
           WriteTask(p, t0, [task[t0] EXCEPT !.state = to]), Goto(p, label),
           UNCHANGED <<task, att, attNew, attLock, job, jobNew, jobLock,
                       op, tid, num, wrk, todo, seen, next>>,
           label \in {"commit", "release", "count"}, 
           \/ to = "running" /\ task[t0].state = "leased" /\ attNew[t0][n0].state = "running"
           \/ /\ to = "succeeded" /\ task[t0].state = "running"
              /\ attNew[t0][n0].state = "succeeded"
           \/ /\ to \in {"queued", "failed"} /\ attNew[t0][n0].state = "failed"
              /\ to = "queued" => task[t0].count < MaxAttempts PROVE StoreInvariant'
<1> USE TablesAssumption, SentinelAssumption DEF WriteTask, Goto
<1>a. TypeOK /\ PhaseOK(p)
  BY DEF StoreInvariant
<1>b. /\ t0 \in Tasks /\ n0 \in Numbers /\ attLock[t0][n0] = p /\ att[t0][n0].state \in Live
      /\ \A t \in Tasks : taskLock[t] # p
  BY <1>a DEF PhaseOK
<1>c. TableOK(t0) /\ TaskWriteOK(t0) /\ AttemptWriteOK(t0, n0)
  BY <1>b DEF StoreInvariant
<1>d. /\ n0 = task[t0].count /\ task[t0].state \in Live \cup {"cancelled"}
      /\ taskLock[t0] = NoProc /\ task[t0] \in TaskRow
  BY <1>a, <1>b, <1>c DEF TypeOK, TableOK, Lockable
<1>e. taskLock'[t0] = p /\ taskNew'[t0].state = to /\ taskNew'[t0].count = task[t0].count
  BY <1>a, <1>b, <1>d DEF TypeOK, TaskRow
<1>f. \A t \in Tasks \ {t0} : taskLock'[t] = taskLock[t] /\ taskNew'[t] = taskNew[t]
  BY <1>a DEF TypeOK
<1>g. pc'[p] = label /\ \A q \in Procs \ {p} : pc'[q] = pc[q]
  BY <1>a DEF TypeOK
<1>h. OutcomesKept
  BY <1>b, <1>d, <1>f DEF OutcomesKept, View, Live
<1>i. TypeOK'
  <2>1. [task[t0] EXCEPT !.state = to] \in TaskRow
    BY <1>d DEF TaskRow, TaskStates
  <2> QED
    BY <1>a, <2>1 DEF TypeOK, Labels
<1> HIDE DEF WriteTask, Goto
<1>1. TypeOK'
  BY <1>i
<1>2. ASSUME NEW t \in Tasks PROVE TableOK(t)' /\ GateOK(t)'
  <2>1. TableOK(t) /\ GateOK(t)
    BY DEF StoreInvariant
  <2> QED
    BY <2>1 DEF TableOK, GateOK
<1>3. ASSUME NEW t \in Tasks PROVE TaskWriteOK(t)'
  <2>1. TaskWriteOK(t) /\ taskLock[t] \in Procs \cup {NoProc} /\ DependsOn[t] \subseteq Tasks
    BY <1>a DEF StoreInvariant, TypeOK
  <2>2. CASE t = t0
    BY <1>b, <1>d, <1>e, <2>2 DEF TaskWriteOK, Paired, Live
  <2>3. CASE t # t0
    <3>1. taskLock[t] # NoProc => \A d \in DependsOn[t] :
             View(taskLock[t], d).state = "succeeded" => View(taskLock[t], d)'.state = "succeeded"
      BY <1>b, <1>d, <1>f, <2>1, <2>3 DEF View, Live
    <3>2. taskLock'[t] = taskLock[t] /\ taskNew'[t] = taskNew[t]
      BY <1>f, <2>3
    <3> QED
      BY <2>1, <3>1, <3>2 DEF TaskWriteOK, Paired
  <2> QED
    BY <2>2, <2>3
<1>4. ASSUME NEW t \in Tasks, NEW n \in Numbers PROVE AttemptWriteOK(t, n)'
  <2>1. AttemptWriteOK(t, n) /\ TableOK(t)
    BY DEF StoreInvariant
  <2>2. CASE t = t0 /\ n = n0
    BY <1>b, <1>c, <1>d, <1>e, <2>2 DEF AttemptWriteOK
  <2>3. CASE t = t0 /\ n # n0
    BY <1>b, <1>d, <1>g, <2>1, <2>3 DEF AttemptWriteOK, Owed, TableOK, Live
  <2>4. CASE t # t0
    <3>1. attLock[t][n] \in Procs \ {p} => (Owed(attLock[t][n], t, n) => Owed(attLock[t][n], t, n)')
      BY <1>g DEF Owed
    <3>4. attLock[t][n] \in Procs \cup {NoProc}
      BY <1>a DEF TypeOK
    <3>2. attLock[t][n] = p => ~Owed(attLock[t][n], t, n)
      BY <2>4 DEF Owed
    <3>3. taskLock'[t] = taskLock[t] /\ taskNew'[t] = taskNew[t]
      BY <1>f, <2>4
    <3> QED
      BY <1>b, <2>1, <3>1, <3>2, <3>3, <3>4 DEF AttemptWriteOK
  <2> QED
    BY <2>2, <2>3, <2>4
<1>5. ASSUME NEW j \in Jobs PROVE JobRowOK(j)'
  BY <1>h, JobRowKept
<1>6. ASSUME NEW q \in Procs PROVE PhaseOK(q)'
  <2>1. PhaseOK(q)
    BY DEF StoreInvariant
  <2>2. CASE q = p
    BY <1>a, <1>b, <1>g, <2>2 DEF PhaseOK
  <2>3. CASE q # p
    <3>1. pc'[q] = pc[q]
      BY <1>g, <2>3
    <3>2. \A t \in Tasks : taskLock'[t] = q => taskLock[t] = q
      BY <1>e, <1>f, <2>3
    <3>3. pc[q] = "updateJob" => Happened(q, JobOf[tid[q]], next[q])'
      BY <1>h, NextKept
    <3> QED
      BY <2>1, <3>1, <3>2, <3>3 DEF PhaseOK, Target
  <2> QED
    BY <2>2, <2>3
<1>7. ASSUME NEW q \in Procs, NEW t \in Tasks, NEW n \in Numbers PROVE SweepRowOK(q, t, n)'
  <2>1. SweepRowOK(q, t, n)
    BY DEF StoreInvariant
  <2>2. <<t, n>> \in todo[q] /\ t = t0 => q # p
    BY <1>a DEF PhaseOK
  <2>3. taskLock'[t] = taskLock[t] \/ t = t0
    BY <1>f
  <2> QED
    BY <1>e, <2>1, <2>2, <2>3 DEF SweepRowOK
<1>8. ASSUME NEW q \in Procs PROVE ScopeOK(q)'
  BY DEF StoreInvariant, ScopeOK
<1> QED
  BY <1>1, <1>2, <1>3, <1>4, <1>5, <1>6, <1>7, <1>8 DEF StoreInvariant, Numbers

\* transitionTx, for Start and for a success.
LEMMA TransitionTaskInvariant ==
    ASSUME StoreInvariant, NEW p \in Procs, TransitionTask(p) PROVE StoreInvariant'
<1>1. PhaseOK(p)
  BY DEF StoreInvariant
<1>2. attNew[tid[p]][num[p]].state = Target(p) /\ pc[p] = "transition"
  BY <1>1 DEF TransitionTask, PhaseOK
<1>3. CASE op[p] = "start"
  <2>1. /\ Lockable(p, tid[p]) /\ CanTransitionTask(task[tid[p]].state, "running")
        /\ WriteTask(p, tid[p], [task[tid[p]] EXCEPT !.state = "running"]) /\ Goto(p, "commit")
        /\ UNCHANGED <<task, att, attNew, attLock, job, jobNew, jobLock,
                       op, tid, num, wrk, todo, seen, next>>
    BY <1>3 DEF TransitionTask, Target
  <2> QED
    BY <1>2, <1>3, <2>1, LegalMoves, MoveInvariant DEF Target
<1>4. CASE op[p] # "start"
  <2>1. /\ Lockable(p, tid[p]) /\ CanTransitionTask(task[tid[p]].state, "succeeded")
        /\ WriteTask(p, tid[p], [task[tid[p]] EXCEPT !.state = "succeeded"]) /\ Goto(p, "release")
        /\ UNCHANGED <<task, att, attNew, attLock, job, jobNew, jobLock,
                       op, tid, num, wrk, todo, seen, next>>
    BY <1>4 DEF TransitionTask, Target
  <2> QED
    BY <1>2, <1>4, <2>1, LegalMoves, MoveInvariant DEF Target
<1> QED
  BY <1>3, <1>4

\* Complete's failure path, although it checks a state read before the lock.
LEMMA FailTaskInvariant ==
    ASSUME StoreInvariant, NEW p \in Procs, FailTask(p) PROVE StoreInvariant'
<1>1. PhaseOK(p)
  BY DEF StoreInvariant
<1>2. /\ attNew[tid[p]][num[p]].state = "failed" /\ pc[p] = "fail"
      /\ Lockable(p, tid[p])
      /\ WriteTask(p, tid[p], [task[tid[p]] EXCEPT !.state = AfterFailure(p)]) /\ Goto(p, "count")
      /\ UNCHANGED <<task, att, attNew, attLock, job, jobNew, jobLock,
                     op, tid, num, wrk, todo, seen, next>>
  BY <1>1 DEF FailTask, PhaseOK
<1>3. /\ AfterFailure(p) \in {"queued", "failed"}
      /\ AfterFailure(p) = "queued" => task[tid[p]].count < MaxAttempts
  BY DEF AfterFailure, Retrying
<1> QED
  BY <1>2, <1>3, MoveInvariant

\* Lease's writes. The attempt number comes from a snapshot, but if no such row
\* exists it is the next one.
LEMMA LeaseTaskInvariant ==
    ASSUME StoreInvariant, NEW p \in Procs, LeaseTask(p) PROVE StoreInvariant'
<1> USE TablesAssumption, SentinelAssumption DEF LeaseTask, WriteTask, WriteAttempt, Goto
<1> DEFINE t0 == tid[p]  n0 == num[p]
<1>a. TypeOK /\ PhaseOK(p)
  BY DEF StoreInvariant
<1>b. /\ t0 \in Tasks /\ n0 \in Numbers /\ wrk[p] \in Workers /\ n0 <= task[t0].count + 1
      /\ todo[p] = {} /\ \A t \in Tasks : taskLock[t] # p
      /\ \A t \in Tasks, n \in Numbers : attLock[t][n] # p
  BY <1>a DEF PhaseOK
<1>c. taskLock[t0] = NoProc /\ task[t0].state = "queued" /\ att[t0][n0].state = "absent"
  BY DEF Leasable
<1>d. TableOK(t0) /\ AttemptWriteOK(t0, n0) /\ task[t0] \in TaskRow
  BY <1>a, <1>b DEF StoreInvariant, TypeOK
<1>e. n0 = task[t0].count + 1
  BY <1>b, <1>c, <1>d DEF TableOK, TaskRow, Numbers
<1>f. attLock[t0][n0] = NoProc
  BY <1>c, <1>d DEF AttemptWriteOK, Live
<1>g. /\ taskLock'[t0] = p /\ taskNew'[t0].state = "leased" /\ taskNew'[t0].count = n0
      /\ attLock'[t0][n0] = p /\ attNew'[t0][n0].state = "leased" /\ attNew'[t0][n0].worker = wrk[p]
  BY <1>a, <1>b DEF TypeOK
<1>h. \A t \in Tasks \ {t0} : taskLock'[t] = taskLock[t] /\ taskNew'[t] = taskNew[t]
  BY <1>a DEF TypeOK
<1>i. ASSUME NEW t \in Tasks, NEW n \in Numbers, t # t0 \/ n # n0
      PROVE attLock'[t][n] = attLock[t][n] /\ attNew'[t][n] = attNew[t][n]
  BY <1>a, <1>i DEF TypeOK
<1>j. pc'[p] = "count" /\ \A q \in Procs \ {p} : pc'[q] = pc[q]
  BY <1>a DEF TypeOK
<1>k. UNCHANGED <<task, att, job, jobNew, jobLock, op, tid, num, wrk, todo, seen, next>>
  OBVIOUS
<1>l. OutcomesKept
  BY <1>b, <1>c, <1>h, <1>k DEF OutcomesKept, View
<1>n. pc[p] = "leaseTask"
  OBVIOUS
<1>m. TypeOK'
  <2>1. [state |-> "leased", count |-> n0] \in TaskRow
    BY <1>b DEF TaskRow, TaskStates, Numbers
  <2>2. [state |-> "leased", worker |-> wrk[p], lapsed |-> FALSE] \in AttemptRow
    BY <1>b DEF AttemptRow, AttemptStates
  <2>3. taskLock' \in [Tasks -> Procs \cup {NoProc}] /\ taskNew' \in [Tasks -> TaskRow]
    BY <1>a, <2>1 DEF TypeOK
  <2>4. /\ attLock' \in [Tasks -> [Numbers -> Procs \cup {NoProc}]]
        /\ attNew' \in [Tasks -> [Numbers -> AttemptRow]]
    BY <1>a, <2>2 DEF TypeOK
  <2>5. pc' \in [Procs -> Labels]
    BY <1>a DEF TypeOK, Labels
  <2> QED
    BY <1>a, <1>k, <2>3, <2>4, <2>5 DEF TypeOK
<1> HIDE DEF LeaseTask, WriteTask, WriteAttempt, Goto, t0, n0
<1>1. TypeOK'
  BY <1>m
<1>2. ASSUME NEW t \in Tasks PROVE TableOK(t)' /\ GateOK(t)'
  <2>1. TableOK(t) /\ GateOK(t)
    BY DEF StoreInvariant
  <2> QED
    BY <1>k, <2>1 DEF TableOK, GateOK
<1>3. ASSUME NEW t \in Tasks PROVE TaskWriteOK(t)'
  <2>1. TaskWriteOK(t) /\ taskLock[t] \in Procs \cup {NoProc} /\ DependsOn[t] \subseteq Tasks
    BY <1>a DEF StoreInvariant, TypeOK
  <2>2. CASE t = t0
    BY <1>b, <1>c, <1>e, <1>g, <1>k, <2>2 DEF TaskWriteOK, Paired
  <2>3. CASE t # t0
    <3>1. taskLock[t] # NoProc => \A d \in DependsOn[t] :
             View(taskLock[t], d).state = "succeeded" => View(taskLock[t], d)'.state = "succeeded"
      BY <1>b, <1>c, <1>h, <1>k, <2>1, <2>3 DEF View
    <3>2. taskLock'[t] = taskLock[t] /\ taskNew'[t] = taskNew[t]
      BY <1>h, <2>3
    <3>3. \A n \in Numbers : attLock'[t][n] = attLock[t][n] /\ attNew'[t][n] = attNew[t][n]
      BY <1>i, <2>3
    <3> QED
      BY <1>k, <2>1, <3>1, <3>2, <3>3 DEF TaskWriteOK, Paired
  <2> QED
    BY <2>2, <2>3
<1>4. ASSUME NEW t \in Tasks, NEW n \in Numbers PROVE AttemptWriteOK(t, n)'
  <2>1. AttemptWriteOK(t, n) /\ TableOK(t) /\ attLock[t][n] \in Procs \cup {NoProc}
    BY <1>a DEF StoreInvariant, TypeOK
  <2>2. CASE t = t0 /\ n = n0
    BY <1>b, <1>c, <1>g, <1>k, <2>2 DEF AttemptWriteOK, Live
  <2>3. CASE t = t0 /\ n # n0
    BY <1>b, <1>c, <1>i, <1>k, <2>1, <2>3 DEF AttemptWriteOK, TableOK, Live
  <2>4. CASE t # t0
    <3>1. attLock[t][n] \in Procs \ {p} => (Owed(attLock[t][n], t, n) => Owed(attLock[t][n], t, n)')
      BY <1>i, <1>j, <1>k, <2>4 DEF Owed
    <3>2. /\ taskLock'[t] = taskLock[t] /\ taskNew'[t] = taskNew[t]
          /\ attLock'[t][n] = attLock[t][n] /\ attNew'[t][n] = attNew[t][n]
      BY <1>h, <1>i, <2>4
    <3> QED
      BY <1>b, <1>k, <2>1, <3>1, <3>2 DEF AttemptWriteOK
  <2> QED
    BY <2>2, <2>3, <2>4
<1>5. ASSUME NEW j \in Jobs PROVE JobRowOK(j)'
  BY <1>k, <1>l, JobRowKept
<1>6. ASSUME NEW q \in Procs PROVE PhaseOK(q)'
  <2>1. PhaseOK(q)
    BY DEF StoreInvariant
  <2>2. CASE q = p
    BY <1>a, <1>b, <1>j, <1>k, <2>2 DEF PhaseOK, t0
  <2>3. CASE q # p
    <3>1. pc'[q] = pc[q]
      BY <1>j, <2>3
    <3>2. \A t \in Tasks : taskLock'[t] = q => taskLock[t] = q
      BY <1>g, <1>h, <2>3
    <3>3. \A t \in Tasks, n \in Numbers : attLock'[t][n] = q <=> attLock[t][n] = q
      BY <1>f, <1>g, <1>i, <2>3
    <3>4. \A t \in Tasks, n \in Numbers : attLock[t][n] = q => attNew'[t][n] = attNew[t][n]
      BY <1>f, <1>i
    <3>5. pc[q] = "updateJob" => Happened(q, JobOf[tid[q]], next[q])'
      BY <1>k, <1>l, NextKept
    <3> QED
      BY <1>k, <2>1, <3>1, <3>2, <3>3, <3>4, <3>5 DEF PhaseOK, Target
  <2> QED
    BY <2>2, <2>3
<1>7. ASSUME NEW q \in Procs, NEW t \in Tasks, NEW n \in Numbers PROVE SweepRowOK(q, t, n)'
  <2>1. SweepRowOK(q, t, n) /\ TableOK(t)
    BY DEF StoreInvariant
  <2>2. <<t, n>> \in todo[q] => t # t0
    BY <1>c, <2>1 DEF SweepRowOK, TableOK, Live
  <2> QED
    BY <1>h, <1>i, <1>k, <2>1, <2>2 DEF SweepRowOK
<1>8. ASSUME NEW q \in Procs PROVE ScopeOK(q)'
  <2>1. ScopeOK(q)
    BY DEF StoreInvariant
  <2>2. CASE q = p
    <3>1. op[p] = "lease"
      BY <1>a, <1>n DEF PhaseOK
    <3>2. \A t \in Tasks, n \in Numbers : attLock'[t][n] = p => t = tid[p] /\ n = num[p]
      BY <1>b, <1>i DEF t0, n0
    <3> QED
      BY <1>k, <2>2, <3>1, <3>2 DEF ScopeOK
  <2>3. CASE q # p
    <3>1. \A t \in Tasks, n \in Numbers : attLock'[t][n] = q =>
             attLock[t][n] = q /\ attNew'[t][n] = attNew[t][n]
      BY <1>g, <1>i, <2>3
    <3> QED
      BY <1>k, <2>1, <3>1 DEF ScopeOK
  <2> QED
    BY <2>2, <2>3
<1> QED
  BY <1>1, <1>2, <1>3, <1>4, <1>5, <1>6, <1>7, <1>8 DEF StoreInvariant, Numbers

\* An update of several task rows at once that touches no attempt.
LEMMA WriteSetInvariant ==
    ASSUME StoreInvariant,
           NEW p \in Procs, NEW S \in SUBSET Tasks, NEW to \in {"queued", "cancelled"}, NEW label,
           pc[p] \in {"release", "cancelTasks"},
           \A t \in S : taskLock[t] = NoProc,
           WriteTasks(p, S, to), Goto(p, label), label \in {"count", "commit"},
           label = "count" => tid[p] \in Tasks,
           UNCHANGED <<task, att, attNew, attLock, job, jobNew, jobLock,
                       op, tid, num, wrk, todo, seen, next>>,
           to = "queued" => \A t \in S : /\ task[t].state = "pending"
                                         /\ \A d \in DependsOn[t] : View(p, d).state = "succeeded", 
           to = "cancelled" => /\ \A t \in S : task[t].state \in {"pending", "queued"} \cup Live
                               /\ \A t \in Tasks, n \in Numbers : attLock[t][n] # p PROVE StoreInvariant'
<1> USE TablesAssumption, SentinelAssumption DEF WriteTasks, Goto
<1>a. TypeOK /\ PhaseOK(p)
  BY DEF StoreInvariant
<1>b. todo[p] = {}
  BY <1>a DEF PhaseOK
<1>c. \A t \in S : task[t] \in TaskRow
  BY <1>a DEF TypeOK
<1>d. \A t \in S : /\ taskLock'[t] = p /\ taskNew'[t].state = to
                   /\ taskNew'[t].count = task[t].count
  BY <1>c DEF TaskRow
<1>e. \A t \in Tasks \ S : taskLock'[t] = taskLock[t] /\ taskNew'[t] = taskNew[t]
  OBVIOUS
<1>f. pc'[p] = label /\ \A q \in Procs \ {p} : pc'[q] = pc[q]
  BY <1>a DEF TypeOK
<1>g. \A t \in S : task[t].state \notin {"succeeded", "failed", "cancelled"}
  BY DEF Live
<1>h. OutcomesKept
  BY <1>e, <1>g DEF OutcomesKept, View
<1>i. TypeOK'
  <2>1. \A t \in S : [task[t] EXCEPT !.state = to] \in TaskRow
    BY <1>c DEF TaskRow, TaskStates
  <2>2. taskLock' \in [Tasks -> Procs \cup {NoProc}] /\ taskNew' \in [Tasks -> TaskRow]
    BY <1>a, <2>1 DEF TypeOK
  <2> QED
    BY <1>a, <2>2 DEF TypeOK, Labels
<1>1. TypeOK'
  BY <1>i
<1>2. ASSUME NEW t \in Tasks PROVE TableOK(t)' /\ GateOK(t)'
  <2>1. TableOK(t) /\ GateOK(t)
    BY DEF StoreInvariant
  <2> QED
    BY <2>1 DEF TableOK, GateOK
<1>3. ASSUME NEW t \in Tasks PROVE TaskWriteOK(t)'
  <2>1. TaskWriteOK(t) /\ taskLock[t] \in Procs \cup {NoProc} /\ DependsOn[t] \subseteq Tasks
    BY <1>a DEF StoreInvariant, TypeOK
  <2>2. ASSUME NEW q \in Procs, NEW d \in Tasks, View(q, d).state = "succeeded"
        PROVE View(q, d)'.state = "succeeded"
    BY <1>h, <2>2 DEF OutcomesKept
  <2>3. CASE t \in S /\ to = "queued"
    <3>1. \A d \in DependsOn[t] : View(p, d)'.state = "succeeded"
      BY <2>1, <2>2, <2>3
    <3>2. \A d \in DependsOn[t] : View(taskLock[t], d)'.state = "succeeded"
      BY <1>d, <2>3, <3>1 DEF View
    <3> QED
      BY <1>d, <2>3, <3>2 DEF TaskWriteOK
  <2>4. CASE t \in S /\ to = "cancelled"
    BY <1>d, <2>4 DEF TaskWriteOK
  <2>5. CASE t \notin S
    <3>1. taskLock'[t] = taskLock[t] /\ taskNew'[t] = taskNew[t]
      BY <1>e, <2>5
    <3>2. ASSUME taskLock[t] # NoProc, \A d \in DependsOn[t] : View(taskLock[t], d).state = "succeeded"
          PROVE \A d \in DependsOn[t] : View(taskLock[t], d)'.state = "succeeded"
      <4>1. PICK q \in Procs : q = taskLock[t]
        BY <2>1, <3>2
      <4>2. \A d \in DependsOn[t] : View(q, d)'.state = "succeeded"
        BY <2>1, <2>2, <3>2, <4>1
      <4> QED
        BY <3>1, <4>1, <4>2 DEF View
    <3> QED
      BY <2>1, <3>1, <3>2 DEF TaskWriteOK, Paired
  <2> QED
    BY <2>3, <2>4, <2>5
<1>4. ASSUME NEW t \in Tasks, NEW n \in Numbers PROVE AttemptWriteOK(t, n)'
  <2>1. AttemptWriteOK(t, n) /\ TableOK(t) /\ attLock[t][n] \in Procs \cup {NoProc}
    BY <1>a DEF StoreInvariant, TypeOK
  <2>2. attLock[t][n] # NoProc => (Owed(attLock[t][n], t, n) => Owed(attLock[t][n], t, n)')
    BY <1>f, <2>1 DEF Owed
  <2>3. CASE t \in S
    BY <1>d, <1>g, <2>1, <2>2, <2>3 DEF AttemptWriteOK, TableOK, Live
  <2>4. CASE t \notin S
    <3>1. taskLock'[t] = taskLock[t] /\ taskNew'[t] = taskNew[t]
      BY <1>e, <2>4
    <3> QED
      BY <2>1, <2>2, <3>1 DEF AttemptWriteOK
  <2> QED
    BY <2>3, <2>4
<1>5. ASSUME NEW j \in Jobs PROVE JobRowOK(j)'
  BY <1>h, JobRowKept
<1>6. ASSUME NEW q \in Procs PROVE PhaseOK(q)'
  <2>1. PhaseOK(q)
    BY DEF StoreInvariant
  <2>2. CASE q = p
    BY <1>b, <1>f, <2>2 DEF PhaseOK
  <2>3. CASE q # p
    <3>1. pc'[q] = pc[q]
      BY <1>f, <2>3
    <3>2. \A t \in Tasks : taskLock'[t] = q => taskLock[t] = q
      BY <1>d, <1>e, <2>3
    <3>3. pc[q] = "updateJob" => Happened(q, JobOf[tid[q]], next[q])'
      BY <1>h, NextKept
    <3> QED
      BY <2>1, <3>1, <3>2, <3>3 DEF PhaseOK, Target
  <2> QED
    BY <2>2, <2>3
<1>7. ASSUME NEW q \in Procs, NEW t \in Tasks, NEW n \in Numbers PROVE SweepRowOK(q, t, n)'
  <2>1. SweepRowOK(q, t, n)
    BY DEF StoreInvariant
  <2>2. <<t, n>> \in todo[q] => q # p
    BY <1>b
  <2>3. taskLock'[t] \in {taskLock[t], p}
    OBVIOUS
  <2> QED
    BY <2>1, <2>2, <2>3 DEF SweepRowOK
<1>8. ASSUME NEW q \in Procs PROVE ScopeOK(q)'
  BY DEF StoreInvariant, ScopeOK
<1> QED
  BY <1>1, <1>2, <1>3, <1>4, <1>5, <1>6, <1>7, <1>8 DEF StoreInvariant, Numbers

\* releaseDependents queues only tasks that are pending and wait for nothing.
LEMMA ReleaseDependentsInvariant ==
    ASSUME StoreInvariant, NEW p \in Procs, ReleaseDependents(p) PROVE StoreInvariant'
<1>1. PhaseOK(p) /\ TypeOK
  BY DEF StoreInvariant
<1>2. pc[p] = "release" /\ tid[p] \in Tasks /\ Released(p) \in SUBSET Tasks
  BY <1>1 DEF ReleaseDependents, PhaseOK, Released, TasksOf
<1>3. ASSUME NEW t \in Released(p)
      PROVE /\ t \in Tasks /\ taskLock[t] = NoProc /\ task[t].state = "pending"
            /\ \A d \in DependsOn[t] : View(p, d).state = "succeeded"
  <2>1. t \in Tasks /\ View(p, t).state = "pending"
        /\ \A d \in DependsOn[t] : View(p, d).state = "succeeded"
    BY <1>2 DEF Released, TasksOf
  <2>2. TaskWriteOK(t) /\ taskLock[t] \in {NoProc, p}
    BY <2>1 DEF StoreInvariant, ReleaseDependents, Lockable
  <2>3. taskLock[t] # p
    BY <2>1, <2>2, SentinelAssumption DEF TaskWriteOK, View
  <2> QED
    BY <2>1, <2>2, <2>3 DEF View
<1>4. /\ WriteTasks(p, Released(p), "queued") /\ Goto(p, "count")
      /\ UNCHANGED <<task, att, attNew, attLock, job, jobNew, jobLock,
                     op, tid, num, wrk, todo, seen, next>>
  BY DEF ReleaseDependents
<1> QED
  BY <1>2, <1>3, <1>4, WriteSetInvariant

\* Cancel's update of the tasks that have not finished.
LEMMA CancelTasksInvariant ==
    ASSUME StoreInvariant, NEW p \in Procs, CancelTasks(p) PROVE StoreInvariant'
<1> DEFINE S == {t \in Tasks : /\ jobLock[JobOf[t]] = p
                               /\ task[t].state \in {"pending", "queued"} \cup Live}
<1>1. PhaseOK(p) /\ pc[p] = "cancelTasks"
  BY DEF StoreInvariant, CancelTasks
<1>2. /\ \A t \in Tasks, n \in Numbers : attLock[t][n] # p
      /\ \A t \in Tasks : taskLock[t] # p
  BY <1>1 DEF PhaseOK
<1>3. /\ \A t \in S : taskLock[t] = NoProc
      /\ WriteTasks(p, S, "cancelled") /\ Goto(p, "commit")
      /\ UNCHANGED <<task, att, attNew, attLock, job, jobNew, jobLock,
                     op, tid, num, wrk, todo, seen, next>>
  BY <1>2 DEF CancelTasks, Lockable
<1>4. S \in SUBSET Tasks /\ \A t \in S : task[t].state \in {"pending", "queued"} \cup Live
  OBVIOUS
<1> HIDE DEF S
<1> QED
  BY <1>1, <1>2, <1>3, <1>4, WriteSetInvariant

\* A rolled back transaction leaves the tables as they were committed.
LEMMA RollbackInvariant ==
    ASSUME StoreInvariant, NEW p \in Procs, Rollback(p) PROVE StoreInvariant'
<1> USE TablesAssumption, SentinelAssumption DEF Rollback, ReleaseLocks, Forget
<1>a. TypeOK
  BY DEF StoreInvariant
<1>b. UNCHANGED <<task, att, job>>
  OBVIOUS
<1>c. /\ pc'[p] = "idle" /\ todo'[p] = {}
      /\ \A q \in Procs \ {p} : /\ pc'[q] = pc[q] /\ op'[q] = op[q] /\ tid'[q] = tid[q]
                               /\ num'[q] = num[q] /\ wrk'[q] = wrk[q] /\ todo'[q] = todo[q]
                               /\ seen'[q] = seen[q] /\ next'[q] = next[q]
  BY <1>a DEF TypeOK
<1>d. \A t \in Tasks : IF taskLock[t] = p THEN taskLock'[t] = NoProc /\ taskNew'[t] = task[t]
                       ELSE taskLock'[t] = taskLock[t] /\ taskNew'[t] = taskNew[t]
  OBVIOUS
<1>e. \A t \in Tasks, n \in Numbers :
        IF attLock[t][n] = p THEN attLock'[t][n] = NoProc /\ attNew'[t][n] = att[t][n]
        ELSE attLock'[t][n] = attLock[t][n] /\ attNew'[t][n] = attNew[t][n]
  OBVIOUS
<1>f. \A j \in Jobs : IF jobLock[j] = p THEN jobLock'[j] = NoProc /\ jobNew'[j] = job[j]
                      ELSE jobLock'[j] = jobLock[j] /\ jobNew'[j] = jobNew[j]
  OBVIOUS
<1>g. \A q \in Procs \ {p}, t \in Tasks : View(q, t)' = View(q, t)
  BY <1>b, <1>d DEF View
<1>h. TypeOK'
  <2>1. AbsentTask \in TaskRow /\ NothingSeen \in [Tasks -> TaskRow]
    BY DEF AbsentTask, NothingSeen, TaskRow, TaskStates
  <2>2. /\ taskLock' \in [Tasks -> Procs \cup {NoProc}] /\ taskNew' \in [Tasks -> TaskRow]
        /\ jobLock' \in [Jobs -> Procs \cup {NoProc}] /\ jobNew' \in [Jobs -> JobStates]
    BY <1>a DEF TypeOK
  <2>3. /\ attLock' \in [Tasks -> [Numbers -> Procs \cup {NoProc}]]
        /\ attNew' \in [Tasks -> [Numbers -> AttemptRow]]
    BY <1>a DEF TypeOK
  <2>4. /\ pc' \in [Procs -> Labels] /\ op' \in [Procs -> Ops]
        /\ tid' \in [Procs -> Tasks \cup {NoTask}] /\ num' \in [Procs -> Numbers \cup {0}]
        /\ wrk' \in [Procs -> Workers \cup {NoWorker}]
        /\ todo' \in [Procs -> SUBSET (Tasks \X Numbers)]
        /\ seen' \in [Procs -> [Tasks -> TaskRow]] /\ next' \in [Procs -> JobStates]
    BY <1>a, <2>1 DEF TypeOK, Labels, Ops, JobStates
  <2> QED
    BY <1>a, <1>b, <2>2, <2>3, <2>4 DEF TypeOK
<1> HIDE DEF Rollback, ReleaseLocks, Forget
<1>1. TypeOK'
  BY <1>h
<1>2. ASSUME NEW t \in Tasks PROVE TableOK(t)' /\ GateOK(t)'
  <2>1. TableOK(t) /\ GateOK(t)
    BY DEF StoreInvariant
  <2> QED
    BY <1>b, <2>1 DEF TableOK, GateOK
<1>3. ASSUME NEW t \in Tasks PROVE TaskWriteOK(t)'
  <2>1. TaskWriteOK(t) /\ taskLock[t] \in Procs \cup {NoProc} /\ DependsOn[t] \subseteq Tasks
    BY <1>a DEF StoreInvariant, TypeOK
  <2>2. CASE taskLock[t] \in {p, NoProc}
    BY <1>b, <1>d, <2>1, <2>2 DEF TaskWriteOK
  <2>3. CASE taskLock[t] \in Procs \ {p}
    <3>1. \A d \in DependsOn[t] : View(taskLock[t], d)' = View(taskLock[t], d)
      BY <1>b, <1>d, <2>1, <2>3 DEF View
    <3>2. \A n \in Numbers : attLock[t][n] = taskLock[t] =>
             attLock'[t][n] = attLock[t][n] /\ attNew'[t][n] = attNew[t][n]
      BY <1>e, <2>3
    <3> QED
      BY <1>b, <1>d, <2>1, <2>3, <3>1, <3>2 DEF TaskWriteOK, Paired
  <2> QED
    BY <2>1, <2>2, <2>3
<1>4. ASSUME NEW t \in Tasks, NEW n \in Numbers PROVE AttemptWriteOK(t, n)'
  <2>1. AttemptWriteOK(t, n) /\ attLock[t][n] \in Procs \cup {NoProc}
    BY <1>a DEF StoreInvariant, TypeOK
  <2>2. CASE attLock[t][n] \in {p, NoProc}
    BY <1>b, <1>e, <2>1, <2>2 DEF AttemptWriteOK
  <2>3. CASE attLock[t][n] \in Procs \ {p}
    <3>1. Owed(attLock[t][n], t, n) => Owed(attLock[t][n], t, n)'
      BY <1>c, <1>e, <2>3 DEF Owed
    <3> QED
      BY <1>b, <1>d, <1>e, <2>1, <2>3, <3>1 DEF AttemptWriteOK
  <2> QED
    BY <2>1, <2>2, <2>3
<1>5. ASSUME NEW j \in Jobs PROVE JobRowOK(j)'
  <2>1. JobRowOK(j) /\ jobLock[j] \in Procs \cup {NoProc}
    BY <1>a DEF StoreInvariant, TypeOK
  <2>2. CASE jobLock[j] \in {p, NoProc}
    BY <1>b, <1>f, <2>1, <2>2 DEF JobRowOK
  <2>3. CASE jobLock[j] \in Procs \ {p}
    <3>1. \A t \in TasksOf(j) : View(jobLock[j], t)' = View(jobLock[j], t)
      BY <1>b, <1>d, <1>f, <2>3 DEF View, TasksOf
    <3> QED
      BY <1>b, <1>f, <2>1, <2>3, <3>1 DEF JobRowOK, Happened
  <2> QED
    BY <2>1, <2>2, <2>3
<1>6. ASSUME NEW q \in Procs PROVE PhaseOK(q)'
  <2>1. CASE q = p
    <3>1. /\ \A t \in Tasks : taskLock'[t] # p
          /\ \A t \in Tasks, n \in Numbers : attLock'[t][n] # p
      BY <1>d, <1>e
    <3> QED
      BY <1>c, <2>1, <3>1 DEF PhaseOK
  <2>2. CASE q # p
    <3>1. PhaseOK(q)
      BY DEF StoreInvariant
    <3>2. \A t \in Tasks : taskLock'[t] = q => taskLock[t] = q
      BY <1>d
    <3>3. \A t \in Tasks, n \in Numbers : attLock'[t][n] = q <=> attLock[t][n] = q
      BY <1>e, <2>2
    <3>4. \A t \in Tasks, n \in Numbers : attLock[t][n] = q => attNew'[t][n] = attNew[t][n]
      BY <1>e, <2>2
    <3>5. /\ pc'[q] = pc[q] /\ op'[q] = op[q] /\ tid'[q] = tid[q]
          /\ num'[q] = num[q] /\ wrk'[q] = wrk[q] /\ todo'[q] = todo[q]
          /\ seen'[q] = seen[q] /\ next'[q] = next[q]
      BY <1>c, <2>2
    <3>6. \A t \in TasksOf(JobOf[tid[q]]) : View(q, t)' = View(q, t)
      BY <1>g, <2>2 DEF TasksOf
    <3>7. pc[q] = "updateJob" => Happened(q, JobOf[tid[q]], next[q])'
      BY <3>1, <3>5, <3>6 DEF PhaseOK, Happened
    <3> QED
      BY <1>b, <3>1, <3>2, <3>3, <3>4, <3>5, <3>7 DEF PhaseOK, Target
  <2> QED
    BY <2>1, <2>2
<1>7. ASSUME NEW q \in Procs, NEW t \in Tasks, NEW n \in Numbers PROVE SweepRowOK(q, t, n)'
  <2>1. SweepRowOK(q, t, n)
    BY DEF StoreInvariant
  <2>2. CASE q = p
    BY <1>c, <2>2 DEF SweepRowOK
  <2>3. CASE q # p
    BY <1>b, <1>c, <1>d, <1>e, <2>1, <2>3 DEF SweepRowOK
  <2> QED
    BY <2>2, <2>3
<1>8. ASSUME NEW q \in Procs PROVE ScopeOK(q)'
  <2>1. CASE q = p
    BY <1>e, <2>1 DEF ScopeOK
  <2>2. CASE q # p
    <3>1. ScopeOK(q)
      BY DEF StoreInvariant
    <3>2. op'[q] = op[q] /\ tid'[q] = tid[q] /\ num'[q] = num[q]
      BY <1>c, <2>2
    <3>3. \A t \in Tasks, n \in Numbers : attLock'[t][n] = q =>
             /\ attLock[t][n] = q /\ att'[t][n] = att[t][n] /\ attNew'[t][n] = attNew[t][n]
      BY <1>b, <1>e, <2>2
    <3> QED
      BY <3>1, <3>2, <3>3 DEF ScopeOK
  <2> QED
    BY <2>1, <2>2
<1> QED
  BY <1>1, <1>2, <1>3, <1>4, <1>5, <1>6, <1>7, <1>8 DEF StoreInvariant, Numbers

\* The ways a transaction can end without committing.
LEMMA RollbacksInvariant ==
    ASSUME StoreInvariant, NEW p \in Procs, LeaseMiss(p) \/ Refuse(p) \/ Abort(p)
    PROVE StoreInvariant'
  BY RollbackInvariant DEF LeaseMiss, Refuse, Abort

\* What any transaction has pending when it commits keeps the tables coherent, and
\* every other transaction in flight able to commit.
LEMMA CommitInvariant ==
    ASSUME StoreInvariant, NEW p \in Procs, Commit(p) PROVE StoreInvariant'
<1> USE TablesAssumption, SentinelAssumption DEF Commit, ReleaseLocks, Forget
<1>a. TypeOK /\ pc[p] = "commit"
  BY DEF StoreInvariant
<1>b. UNCHANGED <<taskNew, attNew, jobNew>>
  OBVIOUS
<1>c. /\ pc'[p] = "idle" /\ todo'[p] = {}
      /\ \A q \in Procs \ {p} : /\ pc'[q] = pc[q] /\ op'[q] = op[q] /\ tid'[q] = tid[q]
                               /\ num'[q] = num[q] /\ wrk'[q] = wrk[q] /\ todo'[q] = todo[q]
                               /\ seen'[q] = seen[q] /\ next'[q] = next[q]
  BY <1>a DEF TypeOK
<1>d. \A t \in Tasks : IF taskLock[t] = p THEN taskLock'[t] = NoProc /\ task'[t] = taskNew[t]
                       ELSE taskLock'[t] = taskLock[t] /\ task'[t] = task[t]
  OBVIOUS
<1>e. \A t \in Tasks, n \in Numbers :
        IF attLock[t][n] = p THEN attLock'[t][n] = NoProc /\ att'[t][n] = attNew[t][n]
        ELSE attLock'[t][n] = attLock[t][n] /\ att'[t][n] = att[t][n]
  OBVIOUS
<1>f. \A j \in Jobs : IF jobLock[j] = p THEN jobLock'[j] = NoProc /\ job'[j] = jobNew[j]
                      ELSE jobLock'[j] = jobLock[j] /\ job'[j] = job[j]
  OBVIOUS
<1>g. TypeOK'
  <2>1. AbsentTask \in TaskRow /\ NothingSeen \in [Tasks -> TaskRow]
    BY DEF AbsentTask, NothingSeen, TaskRow, TaskStates
  <2>2. /\ taskLock' \in [Tasks -> Procs \cup {NoProc}] /\ task' \in [Tasks -> TaskRow]
        /\ jobLock' \in [Jobs -> Procs \cup {NoProc}] /\ job' \in [Jobs -> JobStates]
    BY <1>a DEF TypeOK
  <2>3. /\ attLock' \in [Tasks -> [Numbers -> Procs \cup {NoProc}]]
        /\ att' \in [Tasks -> [Numbers -> AttemptRow]]
    BY <1>a DEF TypeOK
  <2>4. /\ pc' \in [Procs -> Labels] /\ op' \in [Procs -> Ops]
        /\ tid' \in [Procs -> Tasks \cup {NoTask}] /\ num' \in [Procs -> Numbers \cup {0}]
        /\ wrk' \in [Procs -> Workers \cup {NoWorker}]
        /\ todo' \in [Procs -> SUBSET (Tasks \X Numbers)]
        /\ seen' \in [Procs -> [Tasks -> TaskRow]] /\ next' \in [Procs -> JobStates]
    BY <1>a, <2>1 DEF TypeOK, Labels, Ops, JobStates
  <2> QED
    BY <1>a, <1>b, <2>2, <2>3, <2>4 DEF TypeOK
<1> HIDE DEF Commit, ReleaseLocks, Forget
<1>h. \A t \in Tasks : taskLock[t] = p => task[t].state \notin {"succeeded", "failed", "absent"}
  BY DEF StoreInvariant, TaskWriteOK, Live
<1>i. \A q \in Procs \ {p}, t \in Tasks : taskLock'[t] = q <=> taskLock[t] = q
  BY <1>d
<1>j. OutcomesKept
  <2>1. ASSUME NEW t \in Tasks, task[t].state \in {"succeeded", "failed"}
        PROVE task'[t] = task[t] /\ taskLock[t] # p
    BY <1>d, <1>h, <2>1
  <2>2. ASSUME NEW q \in Procs, NEW t \in Tasks, View(q, t).state \in {"succeeded", "failed"}
        PROVE View(q, t)'.state = View(q, t).state
    <3>1. CASE q = p
      BY <1>b, <1>d, <3>1 DEF View
    <3>2. CASE q # p
      BY <1>b, <1>i, <2>1, <2>2, <3>2 DEF View
    <3> QED
      BY <3>1, <3>2
  <2> QED
    BY <2>1, <2>2 DEF OutcomesKept
<1>k. \A t \in Tasks : View(p, t) = task'[t]
  BY <1>d DEF View
<1>1. TypeOK'
  BY <1>g
<1>2. ASSUME NEW t \in Tasks PROVE TableOK(t)' /\ GateOK(t)'
  <2>1. TableOK(t) /\ GateOK(t) /\ TaskWriteOK(t) /\ task[t] \in TaskRow /\ taskNew[t] \in TaskRow
    BY <1>a DEF StoreInvariant, TypeOK
  <2>2. ASSUME NEW n \in Numbers, attLock[t][n] = p
        PROVE \/ att[t][n].state \in Live /\ attNew[t][n].state = att[t][n].state
              \/ /\ att[t][n].state \in Live /\ attNew[t][n].state \in {"cancelled", "expired"}
                 /\ task[t].state = "cancelled" /\ taskLock[t] # p
              \/ /\ att[t][n].state \in Live \/ (att[t][n].state = "absent" /\ attNew[t][n].state = "leased")
                 /\ taskLock[t] = p /\ taskNew[t].count = n /\ taskNew[t].state # "cancelled"
    BY <1>a, <2>2 DEF StoreInvariant, AttemptWriteOK, Owed
  <2>3. job'[JobOf[t]] = "absent" => task'[t].state = "absent"
    <3>1. JobRowOK(JobOf[t])
      BY DEF StoreInvariant
    <3>2. job'[JobOf[t]] = "absent" => job[JobOf[t]] = "absent"
      BY <1>f, <3>1 DEF JobRowOK
    <3> QED
      BY <1>d, <1>h, <2>1, <3>2 DEF TableOK
  <2>4. GateOK(t)'
    <3>1. ASSUME task[t].state = "queued" \/ task[t].count > 0
          PROVE \A d \in DependsOn[t] : task'[d].state = "succeeded"
      BY <1>j, <2>1, <3>1 DEF GateOK, OutcomesKept
    <3>2. CASE taskLock[t] # p
      BY <1>d, <3>1, <3>2 DEF GateOK
    <3>3. CASE taskLock[t] = p
      <4>1. CASE task[t].state = "pending" /\ taskNew[t].state = "queued"
        BY <1>k, <2>1, <3>3, <4>1 DEF GateOK, TaskWriteOK, Live
      <4>2. CASE ~(task[t].state = "pending" /\ taskNew[t].state = "queued")
        <5>1. taskNew[t].state = "queued" \/ taskNew[t].count > 0 =>
                 task[t].state = "queued" \/ task[t].count > 0
          BY <2>1, <3>3, <4>2 DEF TaskWriteOK, Paired, TaskRow, Numbers, Live
        <5> QED
          BY <1>d, <3>1, <3>3, <5>1 DEF GateOK
      <4> QED
        BY <4>1, <4>2
    <3> QED
      BY <3>2, <3>3
  <2>5. CASE taskLock[t] # p
    <3>1. task'[t] = task[t]
      BY <1>d, <2>5
    <3>2. \A n \in Numbers : \/ att'[t][n].state = att[t][n].state
                             \/ /\ att[t][n].state \in Live /\ task[t].state = "cancelled"
                                /\ att'[t][n].state \in {"cancelled", "expired"}
      BY <1>e, <2>2, <2>5
    <3> QED
      BY <2>1, <2>3, <2>4, <3>1, <3>2 DEF TableOK, Live
  <2>6. CASE taskLock[t] = p
    <3>1. task'[t] = taskNew[t] /\ p # NoProc
      BY <1>d, <2>6
    <3>2. CASE taskNew[t].state = "cancelled" \/ task[t].state = "pending"
      <4>1. \A n \in Numbers : att'[t][n].state = att[t][n].state
        BY <1>e, <2>1, <2>2, <2>6, <3>2 DEF TaskWriteOK, TableOK, Numbers, Live
      <4>2. taskNew[t].count = task[t].count
        BY <2>1, <2>6, <3>1, <3>2 DEF TaskWriteOK, Live
      <4>3. /\ taskNew[t].state \in {"queued", "cancelled"} /\ task[t].state # "succeeded"
            /\ taskNew[t].state = "queued" => task[t].count = 0
        BY <2>1, <2>6, <3>1, <3>2 DEF TaskWriteOK, TableOK, Live
      <4>4. \A n \in Numbers : /\ att[t][n].state # "succeeded"
                               /\ att[t][n].state \in Live => taskNew[t].state = "cancelled"
        BY <2>1, <4>3 DEF TableOK, Numbers
      <4>5. taskNew[t].state = "queued" => task[t].count < MaxAttempts
        BY <4>3
      <4> QED
        BY <2>1, <2>3, <3>1, <4>1, <4>2, <4>3, <4>4, <4>5, <2>4 DEF TableOK, Live
    <3>3. CASE taskNew[t].state # "cancelled" /\ task[t].state # "pending"
      <4> DEFINE c == taskNew[t].count
      <4>1. c \in Numbers /\ attLock[t][c] = p /\ c \in {task[t].count, task[t].count + 1}
        BY <2>1, <2>6, <3>1, <3>3 DEF TaskWriteOK, Paired, Live
      <4>2. ASSUME NEW n \in Numbers, n # c
            PROVE att'[t][n].state = att[t][n].state /\ att[t][n].state \notin Live
        <5>1. att[t][n].state \notin Live
          <6>1. CASE c = task[t].count
            BY <2>1, <4>2, <6>1 DEF TableOK
          <6>2. CASE c # task[t].count
            BY <2>1, <2>6, <3>1, <3>3, <6>2 DEF TaskWriteOK, TableOK, Live
          <6> QED
            BY <6>1, <6>2
        <5> QED
          BY <1>e, <2>2, <4>2, <5>1
      <4>3. att'[t][c].state = attNew[t][c].state
        BY <1>e, <4>1
      <4>4. \/ /\ task[t].state = "queued" /\ c = task[t].count + 1
               /\ taskNew[t].state = "leased" /\ attNew[t][c].state = "leased"
            \/ /\ taskNew[t].state \in {"running", "succeeded"} /\ c = task[t].count
               /\ attNew[t][c].state = taskNew[t].state
               /\ task[t].state \in Live
            \/ /\ taskNew[t].state \in {"queued", "failed"} /\ c = task[t].count
               /\ attNew[t][c].state \in {"failed", "expired"}
               /\ taskNew[t].state = "queued" => task[t].count < MaxAttempts
               /\ task[t].state \in Live \cup {"cancelled"}
        BY <2>1, <2>6, <3>1, <3>3 DEF TaskWriteOK, Paired, Live
      <4>5. \A n \in Numbers : n # c => (att'[t][n].state = "absent" <=> n > c)
        BY <2>1, <4>1, <4>2, <4>4 DEF TableOK, TaskRow, Numbers
      <4>6. \A n \in Numbers : n # c => att'[t][n].state \notin Live \cup {"succeeded"}
        BY <2>1, <4>2, <4>4 DEF TableOK, Live
      <4>7. c <= MaxAttempts /\ c > 0
        BY <2>1, <4>1, <4>4 DEF TableOK, TaskRow, Numbers
      <4> HIDE DEF c
      <4>8. task'[t].count = c
        BY <3>1 DEF c
      <4> QED
        BY <2>3, <2>4, <3>1, <4>1, <4>3, <4>4, <4>5, <4>6, <4>7, <4>8 DEF TableOK,
           Live, Numbers
    <3> QED
      BY <3>2, <3>3
  <2> QED
    BY <2>5, <2>6
<1>3. ASSUME NEW t \in Tasks PROVE TaskWriteOK(t)'
  <2>1. TaskWriteOK(t) /\ taskLock[t] \in Procs \cup {NoProc} /\ DependsOn[t] \subseteq Tasks
    BY <1>a DEF StoreInvariant, TypeOK
  <2>2. CASE taskLock[t] \in {p, NoProc}
    BY <1>b, <1>d, <2>1, <2>2 DEF TaskWriteOK
  <2>3. CASE taskLock[t] \in Procs \ {p}
    <3>1. PICK q \in Procs \ {p} : q = taskLock[t]
      BY <2>3
    <3>2. \A d \in DependsOn[t] : View(q, d).state = "succeeded" => View(q, d)'.state = "succeeded"
      BY <1>j, <2>1 DEF OutcomesKept
    <3>3. taskLock'[t] = q /\ task'[t] = task[t]
      BY <1>d, <3>1
    <3>4. (\A d \in DependsOn[t] : View(taskLock[t], d).state = "succeeded") =>
          (\A d \in DependsOn[t] : View(taskLock[t], d)'.state = "succeeded")
      BY <3>1, <3>2, <3>3 DEF View
    <3>5. \A n \in Numbers : attLock[t][n] = q => attLock'[t][n] = q
      BY <1>e, <3>1
    <3> QED
      BY <1>b, <2>1, <3>1, <3>3, <3>4, <3>5 DEF TaskWriteOK, Paired
  <2> QED
    BY <2>1, <2>2, <2>3
<1>4. ASSUME NEW t \in Tasks, NEW n \in Numbers PROVE AttemptWriteOK(t, n)'
  <2>1. AttemptWriteOK(t, n) /\ TableOK(t) /\ TaskWriteOK(t) /\ attLock[t][n] \in Procs \cup {NoProc}
    BY <1>a DEF StoreInvariant, TypeOK
  <2>2. CASE attLock[t][n] \in {p, NoProc}
    BY <1>b, <1>e, <2>1, <2>2 DEF AttemptWriteOK
  <2>3. CASE attLock[t][n] \in Procs \ {p}
    <3>1. Owed(attLock[t][n], t, n) => Owed(attLock[t][n], t, n)'
      BY <1>c, <1>e, <2>3 DEF Owed
    <3>2. att[t][n].state \in Live /\ task[t].state = "cancelled" => task'[t].state = "cancelled"
      BY <1>d, <2>1, <2>3 DEF TableOK, TaskWriteOK, Paired, Live
    <3> QED
      BY <1>b, <1>d, <1>e, <2>1, <2>3, <3>1, <3>2 DEF AttemptWriteOK
  <2> QED
    BY <2>1, <2>2, <2>3
<1>5. ASSUME NEW j \in Jobs PROVE JobRowOK(j)'
  <2>1. JobRowOK(j) /\ jobLock[j] \in Procs \cup {NoProc} /\ TasksOf(j) \subseteq Tasks
    BY <1>a DEF StoreInvariant, TypeOK, TasksOf
  <2>2. CASE jobLock[j] = p
    BY <1>b, <1>f, <1>k, <2>1, <2>2 DEF JobRowOK, Happened
  <2>3. CASE jobLock[j] # p
    <3>1. /\ job[j] = "succeeded" => \A t \in TasksOf(j) : task'[t].state = "succeeded"
          /\ job[j] = "failed" => \E t \in TasksOf(j) : task'[t].state = "failed"
      BY <1>j, <2>1 DEF JobRowOK, OutcomesKept
    <3>2. ASSUME jobLock[j] # NoProc PROVE Happened(jobLock[j], j, jobNew[j])'
      <4>1. PICK q \in Procs \ {p} : q = jobLock[j]
        BY <2>1, <2>3, <3>2
      <4>2. Happened(q, j, jobNew[j])
        BY <2>1, <3>2, <4>1 DEF JobRowOK
      <4>3. Happened(q, j, jobNew[j])'
        BY <1>b, <1>j, <4>2, HappenedKept DEF Happened
      <4> QED
        BY <1>f, <4>1, <4>3 DEF Happened, View
    <3> QED
      BY <1>b, <1>f, <2>1, <2>3, <3>1, <3>2 DEF JobRowOK
  <2> QED
    BY <2>2, <2>3
<1>6. ASSUME NEW q \in Procs PROVE PhaseOK(q)'
  <2>1. CASE q = p
    <3>1. /\ \A t \in Tasks : taskLock'[t] # p
          /\ \A t \in Tasks, n \in Numbers : attLock'[t][n] # p
      BY <1>d, <1>e
    <3> QED
      BY <1>c, <2>1, <3>1 DEF PhaseOK
  <2>2. CASE q # p
    <3>1. PhaseOK(q)
      BY DEF StoreInvariant
    <3>2. \A t \in Tasks : taskLock'[t] = q => taskLock[t] = q
      BY <1>d
    <3>3. \A t \in Tasks, n \in Numbers : attLock'[t][n] = q <=> attLock[t][n] = q
      BY <1>e, <2>2
    <3>4. \A t \in Tasks, n \in Numbers : attLock[t][n] = q => att'[t][n] = att[t][n]
      BY <1>e, <2>2
    <3>5. /\ pc'[q] = pc[q] /\ op'[q] = op[q] /\ tid'[q] = tid[q]
          /\ num'[q] = num[q] /\ wrk'[q] = wrk[q] /\ todo'[q] = todo[q]
          /\ seen'[q] = seen[q] /\ next'[q] = next[q]
      BY <1>c, <2>2
    <3>6. pc[q] = "updateJob" => Happened(q, JobOf[tid[q]], next[q])'
      BY <1>j, <3>5, NextKept
    <3>7. ASSUME pc[q] = "leaseTask" PROVE num[q] <= task'[tid[q]].count + 1
      <4>1. /\ tid[q] \in Tasks /\ num[q] \in Numbers /\ num[q] <= task[tid[q]].count + 1
            /\ TaskWriteOK(tid[q]) /\ task[tid[q]] \in TaskRow
        BY <1>a, <3>1, <3>7 DEF PhaseOK, StoreInvariant, TypeOK
      <4>2. task'[tid[q]].count \in {task[tid[q]].count, task[tid[q]].count + 1}
        BY <1>d, <4>1 DEF TaskWriteOK
      <4> QED
        BY <4>1, <4>2 DEF TaskRow, Numbers
    <3> QED
      BY <1>b, <3>1, <3>2, <3>3, <3>4, <3>5, <3>6, <3>7 DEF PhaseOK, Target
  <2> QED
    BY <2>1, <2>2
<1>7. ASSUME NEW q \in Procs, NEW t \in Tasks, NEW n \in Numbers PROVE SweepRowOK(q, t, n)'
  <2>1. SweepRowOK(q, t, n) /\ TableOK(t) /\ TaskWriteOK(t)
    BY DEF StoreInvariant
  <2>2. CASE q = p
    BY <1>c, <2>2 DEF SweepRowOK
  <2>3. CASE q # p
    <3>1. ASSUME <<t, n>> \in todo[q]
          PROVE /\ task'[t].count = task[t].count
                /\ task[t].state = "cancelled" => task'[t].state = "cancelled"
      BY <1>d, <2>1, <2>3, <3>1 DEF SweepRowOK, TableOK, TaskWriteOK, Paired, Live
    <3> QED
      BY <1>b, <1>c, <1>d, <1>e, <2>1, <2>3, <3>1 DEF SweepRowOK
  <2> QED
    BY <2>2, <2>3
<1>8. ASSUME NEW q \in Procs PROVE ScopeOK(q)'
  <2>1. CASE q = p
    BY <1>e, <2>1 DEF ScopeOK
  <2>2. CASE q # p
    <3>1. ScopeOK(q)
      BY DEF StoreInvariant
    <3>2. op'[q] = op[q] /\ tid'[q] = tid[q] /\ num'[q] = num[q]
      BY <1>c, <2>2
    <3>3. \A t \in Tasks, n \in Numbers : attLock'[t][n] = q =>
             /\ attLock[t][n] = q /\ att'[t][n] = att[t][n] /\ attNew'[t][n] = attNew[t][n]
      BY <1>b, <1>e, <2>2
    <3> QED
      BY <3>1, <3>2, <3>3 DEF ScopeOK
  <2> QED
    BY <2>1, <2>2
<1> QED
  BY <1>1, <1>2, <1>3, <1>4, <1>5, <1>6, <1>7, <1>8 DEF StoreInvariant, Numbers

\* ExpireLeases' select locks open attempts and reads their tasks.
LEMMA ExpireSelectInvariant ==
    ASSUME StoreInvariant, NEW p \in Procs, NEW batch \in SUBSET Expirable, ExpireSelect(p, batch)
    PROVE  StoreInvariant'
<1> USE TablesAssumption, SentinelAssumption DEF ExpireSelect, Goto
<1>a. TypeOK /\ PhaseOK(p)
  BY DEF StoreInvariant
<1>b. UNCHANGED <<task, taskNew, taskLock, att, attNew, job, jobNew, jobLock, tid, num, wrk, next>>
  OBVIOUS
<1>c. /\ pc'[p] = "sweep" /\ todo'[p] = batch /\ op'[p] = "expire"
      /\ \A q \in Procs \ {p} : /\ pc'[q] = pc[q] /\ op'[q] = op[q]
                               /\ todo'[q] = todo[q] /\ seen'[q] = seen[q]
  BY <1>a DEF TypeOK
<1>d. \A t \in Tasks, n \in Numbers : <<t, n>> \in batch => seen'[p][t] = task[t]
  BY <1>a DEF TypeOK
<1>e. \A t \in Tasks, n \in Numbers :
        attLock'[t][n] = IF <<t, n>> \in batch THEN p ELSE attLock[t][n]
  OBVIOUS
<1>f. /\ pc[p] = "idle" /\ \A t \in Tasks : taskLock[t] # p
      /\ \A t \in Tasks, n \in Numbers : attLock[t][n] # p
  BY <1>a DEF PhaseOK
<1>g. /\ batch \in SUBSET (Tasks \X Numbers)
      /\ \A t \in Tasks, n \in Numbers : <<t, n>> \in batch =>
           att[t][n].state \in Live /\ attLock[t][n] = NoProc
  BY DEF Expirable, LiveAttempts
<1>h. TypeOK'
  <2>1. AbsentTask \in TaskRow
    BY DEF AbsentTask, TaskRow, TaskStates
  <2>2. attLock' \in [Tasks -> [Numbers -> Procs \cup {NoProc}]]
    BY <1>a DEF TypeOK
  <2>3. seen' \in [Procs -> [Tasks -> TaskRow]]
    BY <1>a, <2>1 DEF TypeOK
  <2>4. /\ pc' \in [Procs -> Labels] /\ op' \in [Procs -> Ops]
        /\ todo' \in [Procs -> SUBSET (Tasks \X Numbers)]
    BY <1>a, <1>g DEF TypeOK, Labels, Ops
  <2> QED
    BY <1>a, <1>b, <2>2, <2>3, <2>4 DEF TypeOK
<1>i. \A t \in Tasks, n \in Numbers : attLock[t][n] # NoProc => attLock'[t][n] = attLock[t][n]
  BY <1>e, <1>g
<1> HIDE DEF ExpireSelect, Goto
<1>1. TypeOK'
  BY <1>h
<1>2. ASSUME NEW t \in Tasks PROVE TableOK(t)' /\ GateOK(t)'
  <2>1. TableOK(t) /\ GateOK(t)
    BY DEF StoreInvariant
  <2> QED
    BY <1>b, <2>1 DEF TableOK, GateOK
<1>3. ASSUME NEW t \in Tasks PROVE TaskWriteOK(t)'
  <2>1. TaskWriteOK(t)
    BY DEF StoreInvariant
  <2> QED
    BY <1>b, <1>i, <2>1 DEF TaskWriteOK, Paired, View
<1>4. ASSUME NEW t \in Tasks, NEW n \in Numbers PROVE AttemptWriteOK(t, n)'
  <2>1. AttemptWriteOK(t, n) /\ attLock[t][n] \in Procs \cup {NoProc}
    BY <1>a DEF StoreInvariant, TypeOK
  <2>2. CASE <<t, n>> \in batch
    BY <1>b, <1>e, <1>g, <2>1, <2>2 DEF AttemptWriteOK
  <2>3. CASE <<t, n>> \notin batch
    <3>1. attLock[t][n] # NoProc => (Owed(attLock[t][n], t, n) => Owed(attLock[t][n], t, n)')
      BY <1>b, <1>c, <1>f, <1>i, <2>1 DEF Owed
    <3> QED
      BY <1>b, <1>e, <2>1, <2>3, <3>1 DEF AttemptWriteOK
  <2> QED
    BY <2>2, <2>3
<1>5. ASSUME NEW j \in Jobs PROVE JobRowOK(j)'
  <2>1. JobRowOK(j)
    BY DEF StoreInvariant
  <2> QED
    BY <1>b, <2>1 DEF JobRowOK, Happened, View
<1>6. ASSUME NEW q \in Procs PROVE PhaseOK(q)'
  <2>1. CASE q = p
    BY <1>c, <2>1 DEF PhaseOK
  <2>2. CASE q # p
    <3>1. PhaseOK(q)
      BY DEF StoreInvariant
    <3>2. \A t \in Tasks, n \in Numbers : attLock'[t][n] = q <=> attLock[t][n] = q
      BY <1>e, <1>g, <2>2
    <3>3. pc'[q] = pc[q] /\ op'[q] = op[q] /\ todo'[q] = todo[q] /\ seen'[q] = seen[q]
      BY <1>c, <2>2
    <3> QED
      BY <1>b, <3>1, <3>2, <3>3 DEF PhaseOK, Target, Happened, View
  <2> QED
    BY <2>1, <2>2
<1>7. ASSUME NEW q \in Procs, NEW t \in Tasks, NEW n \in Numbers PROVE SweepRowOK(q, t, n)'
  <2>1. SweepRowOK(q, t, n) /\ TableOK(t) /\ AttemptWriteOK(t, n)
    BY DEF StoreInvariant
  <2>2. CASE q = p
    <3>1. ASSUME <<t, n>> \in batch
          PROVE /\ attLock'[t][n] = p /\ taskLock'[t] # p /\ att'[t][n].state \in Live
                /\ attNew'[t][n].state = att'[t][n].state /\ seen'[p][t] = task'[t]
                /\ task'[t].state \in Live \cup {"cancelled"}
      BY <1>b, <1>d, <1>e, <1>f, <1>g, <2>1, <3>1 DEF TableOK, AttemptWriteOK
    <3> QED
      BY <1>c, <2>2, <3>1 DEF SweepRowOK
  <2>3. CASE q # p
    BY <1>b, <1>c, <1>i, <2>1, <2>3 DEF SweepRowOK
  <2> QED
    BY <2>2, <2>3
<1>8. ASSUME NEW q \in Procs PROVE ScopeOK(q)'
  <2>1. CASE q = p
    <3>1. \A t \in Tasks, n \in Numbers : <<t, n>> \in batch => attNew[t][n] = att[t][n]
      BY <1>g DEF StoreInvariant, AttemptWriteOK
    <3>2. ASSUME NEW t \in Tasks, NEW n \in Numbers, attLock'[t][n] = p
          PROVE <<t, n>> \in batch
      BY <1>e, <1>f, <3>2
    <3>3. ASSUME NEW t \in Tasks, NEW n \in Numbers, attLock'[t][n] = p
          PROVE att'[t][n].state \in Live /\ attNew'[t][n].state = att'[t][n].state
      BY <1>b, <1>g, <3>1, <3>2, <3>3
    <3> QED
      BY <1>c, <2>1, <3>3 DEF ScopeOK
  <2>2. CASE q # p
    <3>1. ScopeOK(q)
      BY DEF StoreInvariant
    <3>2. \A t \in Tasks, n \in Numbers : attLock'[t][n] = q => attLock[t][n] = q
      BY <1>e, <2>2
    <3>3. op'[q] = op[q]
      BY <1>c, <2>2
    <3> QED
      BY <1>b, <3>1, <3>2, <3>3 DEF ScopeOK
  <2> QED
    BY <2>1, <2>2
<1> QED
  BY <1>1, <1>2, <1>3, <1>4, <1>5, <1>6, <1>7, <1>8 DEF StoreInvariant, Numbers

\* ExpireLeases, for a row whose task was cancelled.
LEMMA ExpireFinishedInvariant ==
    ASSUME StoreInvariant, NEW p \in Procs, NEW t0 \in Tasks, NEW n0 \in Numbers, ExpireFinished(p, t0, n0)
    PROVE  StoreInvariant'
<1> USE TablesAssumption, SentinelAssumption DEF ExpireFinished, WriteAttempt, Goto
<1>a. TypeOK /\ PhaseOK(p) /\ pc[p] = "sweep" /\ <<t0, n0>> \in todo[p]
  BY DEF StoreInvariant
<1>b. SweepRowOK(p, t0, n0) /\ TableOK(t0) /\ AttemptWriteOK(t0, n0)
  BY DEF StoreInvariant
<1>c. /\ attLock[t0][n0] = p /\ taskLock[t0] # p /\ att[t0][n0].state \in Live
      /\ seen[p][t0].count = task[t0].count /\ seen[p][t0].state \in Live \cup {"cancelled"}
      /\ seen[p][t0].state = "cancelled" => task[t0].state = "cancelled"
      /\ n0 = task[t0].count /\ task[t0].state \in Live \cup {"cancelled"}
  BY <1>a, <1>b DEF SweepRowOK, TableOK
<1>d. UNCHANGED <<task, taskNew, taskLock, att, job, jobNew, jobLock, op, tid, num, wrk, seen, next>>
  OBVIOUS
<1>e. /\ todo'[p] = todo[p] \ {<<t0, n0>>}
      /\ pc'[p] = (IF todo'[p] = {} THEN "commit" ELSE "sweep")
      /\ \A q \in Procs \ {p} : pc'[q] = pc[q] /\ todo'[q] = todo[q]
  BY <1>a DEF TypeOK
<1>f. /\ attLock'[t0][n0] = p /\ attNew'[t0][n0].state = "expired"
      /\ attNew'[t0][n0].worker = att[t0][n0].worker
  BY <1>a DEF TypeOK, AttemptRow
<1>g. ASSUME NEW t \in Tasks, NEW n \in Numbers
      PROVE /\ attLock'[t][n] = attLock[t][n]
            /\ t # t0 \/ n # n0 => attNew'[t][n] = attNew[t][n]
  BY <1>a, <1>c DEF TypeOK
<1>h. task[t0].state = "cancelled"
  BY <1>c DEF TaskTerminal, Live
<1>i. TypeOK'
  <2>1. [att[t0][n0] EXCEPT !.state = "expired"] \in AttemptRow
    <3>1. att[t0][n0] \in AttemptRow
      BY <1>a DEF TypeOK
    <3> QED
      BY <3>1 DEF AttemptRow, AttemptStates
  <2>2. /\ attLock' \in [Tasks -> [Numbers -> Procs \cup {NoProc}]]
        /\ attNew' \in [Tasks -> [Numbers -> AttemptRow]]
    BY <1>a, <2>1 DEF TypeOK
  <2>3. pc' \in [Procs -> Labels] /\ todo' \in [Procs -> SUBSET (Tasks \X Numbers)]
    BY <1>a DEF TypeOK, Labels
  <2> QED
    BY <1>a, <1>d, <2>2, <2>3 DEF TypeOK
<1> HIDE DEF ExpireFinished, WriteAttempt, Goto
<1>1. TypeOK'
  BY <1>i
<1>2. ASSUME NEW t \in Tasks PROVE TableOK(t)' /\ GateOK(t)'
  <2>1. TableOK(t) /\ GateOK(t)
    BY DEF StoreInvariant
  <2> QED
    BY <1>d, <2>1 DEF TableOK, GateOK
<1>3. ASSUME NEW t \in Tasks PROVE TaskWriteOK(t)'
  <2>1. TaskWriteOK(t)
    BY DEF StoreInvariant
  <2>2. taskLock[t] # NoProc => \A n \in Numbers : attLock[t][n] = taskLock[t] =>
           attLock'[t][n] = attLock[t][n] /\ attNew'[t][n] = attNew[t][n]
    BY <1>c, <1>g
  <2> QED
    BY <1>d, <2>1, <2>2 DEF TaskWriteOK, Paired, View
<1>4. ASSUME NEW t \in Tasks, NEW n \in Numbers PROVE AttemptWriteOK(t, n)'
  <2>1. AttemptWriteOK(t, n) /\ attLock[t][n] \in Procs \cup {NoProc}
    BY <1>a DEF StoreInvariant, TypeOK
  <2>2. CASE t = t0 /\ n = n0
    BY <1>b, <1>c, <1>d, <1>f, <1>h, <2>2 DEF AttemptWriteOK, Live
  <2>3. CASE t # t0 \/ n # n0
    <3>1. attLock[t][n] # NoProc => (Owed(attLock[t][n], t, n) => Owed(attLock[t][n], t, n)')
      BY <1>a, <1>d, <1>e, <1>g, <2>1 DEF Owed
    <3> QED
      BY <1>d, <1>g, <2>1, <2>3, <3>1 DEF AttemptWriteOK
  <2> QED
    BY <2>2, <2>3
<1>5. ASSUME NEW j \in Jobs PROVE JobRowOK(j)'
  <2>1. JobRowOK(j)
    BY DEF StoreInvariant
  <2> QED
    BY <1>d, <2>1 DEF JobRowOK, Happened, View
<1>6. ASSUME NEW q \in Procs PROVE PhaseOK(q)'
  <2>1. PhaseOK(q)
    BY DEF StoreInvariant
  <2>2. CASE q = p
    <3>1. todo'[p] # {} => op'[p] = "expire"
      BY <1>a, <1>d DEF PhaseOK
    <3> QED
      BY <1>e, <2>2, <3>1 DEF PhaseOK
  <2>3. CASE q # p
    <3>1. pc'[q] = pc[q] /\ todo'[q] = todo[q]
      BY <1>e, <2>3
    <3>2. \A t \in Tasks, n \in Numbers : attLock[t][n] = q =>
             attNew'[t][n] = attNew[t][n]
      BY <1>c, <1>g, <2>3
    <3> QED
      BY <1>d, <1>g, <2>1, <3>1, <3>2 DEF PhaseOK, Target, Happened, View
  <2> QED
    BY <2>2, <2>3
<1>7. ASSUME NEW q \in Procs, NEW t \in Tasks, NEW n \in Numbers PROVE SweepRowOK(q, t, n)'
  <2>1. SweepRowOK(q, t, n)
    BY DEF StoreInvariant
  <2>2. <<t, n>> \in todo'[q] => <<t, n>> \in todo[q] /\ (t # t0 \/ n # n0)
    <3>1. CASE q = p
      BY <1>e, <3>1
    <3>2. CASE q # p
      BY <1>c, <1>e, <2>1, <3>2 DEF SweepRowOK
    <3> QED
      BY <3>1, <3>2
  <2> QED
    BY <1>d, <1>g, <2>1, <2>2 DEF SweepRowOK
<1>8. ASSUME NEW q \in Procs PROVE ScopeOK(q)'
  <2>1. ScopeOK(q)
    BY DEF StoreInvariant
  <2>2. CASE q = p
    <3>1. op[p] = "expire"
      BY <1>a DEF PhaseOK
    <3> QED
      BY <1>c, <1>d, <1>f, <1>g, <2>1, <2>2, <3>1 DEF ScopeOK
  <2>3. CASE q # p
    <3>1. \A t \in Tasks, n \in Numbers : attLock'[t][n] = q =>
             attLock[t][n] = q /\ attNew'[t][n] = attNew[t][n]
      BY <1>c, <1>g, <2>3
    <3> QED
      BY <1>d, <2>1, <2>3, <3>1 DEF ScopeOK
  <2> QED
    BY <2>2, <2>3
<1> QED
  BY <1>1, <1>2, <1>3, <1>4, <1>5, <1>6, <1>7, <1>8 DEF StoreInvariant, Numbers

\* ExpireLeases, for a row whose task was in progress.
LEMMA ExpireTaskInvariant ==
    ASSUME StoreInvariant, NEW p \in Procs, NEW t0 \in Tasks, NEW n0 \in Numbers, ExpireTask(p, t0, n0)
    PROVE  StoreInvariant'
<1> USE TablesAssumption, SentinelAssumption DEF ExpireTask, WriteTask, WriteAttempt, Goto
<1>a. TypeOK /\ PhaseOK(p) /\ pc[p] = "sweep" /\ <<t0, n0>> \in todo[p]
  BY DEF StoreInvariant
<1>b. SweepRowOK(p, t0, n0) /\ TableOK(t0) /\ AttemptWriteOK(t0, n0)
  BY DEF StoreInvariant
<1>c. /\ attLock[t0][n0] = p /\ taskLock[t0] # p /\ att[t0][n0].state \in Live
      /\ seen[p][t0].count = task[t0].count /\ seen[p][t0].state \in Live \cup {"cancelled"}
      /\ seen[p][t0].state = "cancelled" => task[t0].state = "cancelled"
      /\ n0 = task[t0].count /\ task[t0].state \in Live \cup {"cancelled"}
  BY <1>a, <1>b DEF SweepRowOK, TableOK
<1> DEFINE to == AfterExpiry(p, t0)
<1>d. UNCHANGED <<task, att, job, jobNew, jobLock, op, wrk, seen, next>>
  OBVIOUS
<1>e. /\ todo'[p] = todo[p] \ {<<t0, n0>>} /\ pc'[p] = "count" /\ tid'[p] = t0 /\ num'[p] = n0
      /\ \A q \in Procs \ {p} : /\ pc'[q] = pc[q] /\ todo'[q] = todo[q]
                               /\ tid'[q] = tid[q] /\ num'[q] = num[q]
  BY <1>a DEF TypeOK
<1>f. /\ attLock'[t0][n0] = p /\ attNew'[t0][n0].state = "expired"
      /\ attNew'[t0][n0].worker = att[t0][n0].worker
  BY <1>a DEF TypeOK, AttemptRow
<1>g. ASSUME NEW t \in Tasks, NEW n \in Numbers
      PROVE /\ attLock'[t][n] = attLock[t][n]
            /\ t # t0 \/ n # n0 => attNew'[t][n] = attNew[t][n]
  BY <1>a, <1>c DEF TypeOK
<1>h. to \in {"queued", "failed"} /\ (to = "queued" => task[t0].count < MaxAttempts)
  BY <1>c DEF AfterExpiry
<1>i. taskLock[t0] = NoProc /\ View(p, t0) = task[t0] /\ task[t0] \in TaskRow
  BY <1>a, <1>c DEF Lockable, View, TypeOK
<1>j. taskLock'[t0] = p /\ taskNew'[t0].state = to /\ taskNew'[t0].count = task[t0].count
  BY <1>a, <1>i DEF TypeOK, TaskRow
<1>k. \A t \in Tasks \ {t0} : taskLock'[t] = taskLock[t] /\ taskNew'[t] = taskNew[t]
  BY <1>a DEF TypeOK
<1>l. OutcomesKept
  BY <1>c, <1>d, <1>i, <1>k DEF OutcomesKept, View, Live
<1>m. TypeOK'
  <2>1. [att[t0][n0] EXCEPT !.state = "expired"] \in AttemptRow
    <3>1. att[t0][n0] \in AttemptRow
      BY <1>a DEF TypeOK
    <3> QED
      BY <3>1 DEF AttemptRow, AttemptStates
  <2>2. [View(p, t0) EXCEPT !.state = to] \in TaskRow
    BY <1>h, <1>i DEF TaskRow, TaskStates
  <2>3. /\ attLock' \in [Tasks -> [Numbers -> Procs \cup {NoProc}]]
        /\ attNew' \in [Tasks -> [Numbers -> AttemptRow]]
    BY <1>a, <2>1 DEF TypeOK
  <2>4. taskLock' \in [Tasks -> Procs \cup {NoProc}] /\ taskNew' \in [Tasks -> TaskRow]
    BY <1>a, <2>2 DEF TypeOK
  <2>5. /\ pc' \in [Procs -> Labels] /\ todo' \in [Procs -> SUBSET (Tasks \X Numbers)]
        /\ tid' \in [Procs -> Tasks \cup {NoTask}] /\ num' \in [Procs -> Numbers \cup {0}]
    BY <1>a DEF TypeOK, Labels
  <2> QED
    BY <1>a, <1>d, <2>3, <2>4, <2>5 DEF TypeOK
<1> HIDE DEF ExpireTask, WriteTask, WriteAttempt, Goto, to
<1>1. TypeOK'
  BY <1>m
<1>2. ASSUME NEW t \in Tasks PROVE TableOK(t)' /\ GateOK(t)'
  <2>1. TableOK(t) /\ GateOK(t)
    BY DEF StoreInvariant
  <2> QED
    BY <1>d, <2>1 DEF TableOK, GateOK
<1>3. ASSUME NEW t \in Tasks PROVE TaskWriteOK(t)'
  <2>1. TaskWriteOK(t) /\ taskLock[t] \in Procs \cup {NoProc} /\ DependsOn[t] \subseteq Tasks
    BY <1>a DEF StoreInvariant, TypeOK
  <2>2. CASE t = t0
    BY <1>c, <1>d, <1>f, <1>h, <1>j, <2>2 DEF TaskWriteOK, Paired, Live
  <2>3. CASE t # t0
    <3>1. taskLock[t] # NoProc => \A d \in DependsOn[t] :
             View(taskLock[t], d).state = "succeeded" => View(taskLock[t], d)'.state = "succeeded"
      BY <1>c, <1>d, <1>i, <1>k, <2>1, <2>3 DEF View, Live
    <3>2. taskLock'[t] = taskLock[t] /\ taskNew'[t] = taskNew[t]
      BY <1>k, <2>3
    <3>3. \A n \in Numbers : attLock'[t][n] = attLock[t][n] /\ attNew'[t][n] = attNew[t][n]
      BY <1>g, <2>3
    <3> QED
      BY <1>d, <2>1, <3>1, <3>2, <3>3 DEF TaskWriteOK, Paired
  <2> QED
    BY <2>2, <2>3
<1>4. ASSUME NEW t \in Tasks, NEW n \in Numbers PROVE AttemptWriteOK(t, n)'
  <2>1. AttemptWriteOK(t, n) /\ TableOK(t) /\ attLock[t][n] \in Procs \cup {NoProc}
    BY <1>a DEF StoreInvariant, TypeOK
  <2>2. CASE t = t0 /\ n = n0
    BY <1>b, <1>c, <1>d, <1>f, <1>h, <1>j, <2>2 DEF AttemptWriteOK, Live
  <2>3. CASE t = t0 /\ n # n0
    <3>1. att[t][n].state \notin Live
      BY <1>c, <2>1, <2>3 DEF TableOK
    <3> QED
      BY <1>d, <1>g, <1>i, <2>1, <2>3, <3>1 DEF AttemptWriteOK
  <2>4. CASE t # t0
    <3>1. attLock[t][n] # NoProc => (Owed(attLock[t][n], t, n) => Owed(attLock[t][n], t, n)')
      BY <1>a, <1>d, <1>e, <1>g, <2>1 DEF Owed
    <3>2. taskLock'[t] = taskLock[t] /\ taskNew'[t] = taskNew[t]
      BY <1>k, <2>4
    <3> QED
      BY <1>d, <1>g, <2>1, <2>4, <3>1, <3>2 DEF AttemptWriteOK
  <2> QED
    BY <2>2, <2>3, <2>4
<1>5. ASSUME NEW j \in Jobs PROVE JobRowOK(j)'
  BY <1>d, <1>l, JobRowKept
<1>6. ASSUME NEW q \in Procs PROVE PhaseOK(q)'
  <2>1. PhaseOK(q)
    BY DEF StoreInvariant
  <2>2. CASE q = p
    <3>1. todo'[p] # {} => op'[p] = "expire"
      BY <1>a, <1>d DEF PhaseOK
    <3> QED
      BY <1>e, <2>2, <3>1 DEF PhaseOK
  <2>3. CASE q # p
    <3>1. pc'[q] = pc[q] /\ todo'[q] = todo[q] /\ tid'[q] = tid[q] /\ num'[q] = num[q]
      BY <1>e, <2>3
    <3>2. \A t \in Tasks : taskLock'[t] = q => taskLock[t] = q
      BY <1>j, <1>k, <2>3
    <3>3. \A t \in Tasks, n \in Numbers : attLock[t][n] = q => attNew'[t][n] = attNew[t][n]
      BY <1>c, <1>g, <2>3
    <3>4. pc[q] = "updateJob" => Happened(q, JobOf[tid[q]], next[q])'
      BY <1>d, <1>l, <3>1, NextKept
    <3> QED
      BY <1>d, <1>g, <2>1, <3>1, <3>2, <3>3, <3>4 DEF PhaseOK, Target
  <2> QED
    BY <2>2, <2>3
<1>7. ASSUME NEW q \in Procs, NEW t \in Tasks, NEW n \in Numbers PROVE SweepRowOK(q, t, n)'
  <2>1. SweepRowOK(q, t, n) /\ TableOK(t)
    BY DEF StoreInvariant
  <2>2. <<t, n>> \in todo'[q] => <<t, n>> \in todo[q] /\ (t # t0 \/ n # n0)
    <3>1. CASE q = p
      BY <1>e, <3>1
    <3>2. CASE q # p
      BY <1>c, <1>e, <2>1, <3>2 DEF SweepRowOK
    <3> QED
      BY <3>1, <3>2
  <2>3. <<t, n>> \in todo[q] => n = task[t].count
    BY <2>1 DEF SweepRowOK, TableOK
  <2> QED
    BY <1>c, <1>d, <1>g, <1>k, <2>1, <2>2, <2>3 DEF SweepRowOK
<1>8. ASSUME NEW q \in Procs PROVE ScopeOK(q)'
  <2>1. ScopeOK(q)
    BY DEF StoreInvariant
  <2>2. CASE q = p
    <3>1. op[p] = "expire"
      BY <1>a DEF PhaseOK
    <3> QED
      BY <1>c, <1>d, <1>f, <1>g, <2>1, <2>2, <3>1 DEF ScopeOK
  <2>3. CASE q # p
    <3>1. \A t \in Tasks, n \in Numbers : attLock'[t][n] = q =>
             attLock[t][n] = q /\ attNew'[t][n] = attNew[t][n]
      BY <1>c, <1>g, <2>3
    <3> QED
      BY <1>d, <1>e, <2>1, <2>3, <3>1 DEF ScopeOK
  <2> QED
    BY <2>2, <2>3
<1> QED
  BY <1>1, <1>2, <1>3, <1>4, <1>5, <1>6, <1>7, <1>8 DEF StoreInvariant, Numbers

\* Every step of the store preserves the invariant.
LEMMA NextInvariant == StoreInvariant /\ [Next]_vars => StoreInvariant'
<1> SUFFICES ASSUME StoreInvariant, [Next]_vars PROVE StoreInvariant'
  OBVIOUS
<1>1. ASSUME NEW j \in Jobs, Create(j) PROVE StoreInvariant'
  BY <1>1, CreateInvariant
<1>2. ASSUME NEW t \in Tasks, NEW n \in Numbers, Lapse(t, n) PROVE StoreInvariant'
  BY <1>2, LapseInvariant
<1>3. ASSUME NEW p \in Procs, Step(p) PROVE StoreInvariant'
  BY <1>3, TransitionTaskInvariant, ReleaseDependentsInvariant, FailTaskInvariant,
     RollbacksInvariant, CountTasksInvariant, UpdateJobInvariant, LeaseTaskInvariant,
     ExpireFinishedInvariant, ExpireTaskInvariant, CancelTasksInvariant, CommitInvariant
     DEF Step
<1>4. ASSUME NEW p \in Procs, Call(p) PROVE StoreInvariant'
  BY <1>4, CloseCancelledInvariant, StartInvariant, ProgressInvariant,
     CompleteInvariant,
     LeaseSelectInvariant, CancelSelectInvariant DEF Call
<1>5. ASSUME NEW p \in Procs, Sweep(p) PROVE StoreInvariant'
  BY <1>5, ExpireSelectInvariant DEF Sweep
<1>6. ASSUME NEW p \in Procs, Abort(p) PROVE StoreInvariant'
  BY <1>6, RollbacksInvariant
<1>7. CASE UNCHANGED vars
  <2>1. UNCHANGED <<task, taskNew, taskLock, att, attNew, attLock, job, jobNew, jobLock,
                    pc, op, tid, num, wrk, todo, seen, next>>
    BY <1>7 DEF vars, tables, locals
  <2> QED
    BY <2>1 DEF StoreInvariant, TypeOK, TableOK, GateOK, TaskWriteOK, Paired,
       AttemptWriteOK, Owed,
                JobRowOK, Happened, View, PhaseOK, ScopeOK, Target, SweepRowOK
<1> QED
  BY <1>1, <1>2, <1>3, <1>4, <1>5, <1>6, <1>7 DEF Next

\* The inductive invariant holds of every number of jobs, tasks, attempts, workers
\* and transactions in flight: every transaction of internal/job can commit, at
\* any moment and in any interleaving, without making the tables incoherent.
THEOREM StoreInvariantHolds == Spec => []StoreInvariant
<1> QED
  BY InitInvariant, NextInvariant, PTL DEF Spec

----------------------------------------------------------------------------
(* What the invariant gives *)

\* Every row and every local variable of the store keeps its type; in particular
\* no attempt_count passes the budget by more than the row kept for it.
THEOREM TypeCorrect == Spec => []TypeOK
<1>1. StoreInvariant => TypeOK
  BY DEF StoreInvariant
<1> QED
  BY <1>1, StoreInvariantHolds, PTL

\* An open attempt is its task's latest one and the task is not up for grabs: a
\* lease that Lease has granted is exclusive until Complete or ExpireLeases ends it.
THEOREM LeasesAreExclusive == Spec => []LeaseExclusive
<1>1. StoreInvariant => LeaseExclusive
  BY DEF StoreInvariant, TableOK, LeaseExclusive
<1> QED
  BY <1>1, StoreInvariantHolds, PTL

\* A leased or running task always has the open attempt that ExpireLeases would
\* find it by.
THEOREM LiveTasksHaveAttempts == Spec => []LiveTaskHasAttempt
<1>1. StoreInvariant => LiveTaskHasAttempt
  BY DEF StoreInvariant, TableOK, LiveTaskHasAttempt
<1> QED
  BY <1>1, StoreInvariantHolds, PTL

\* Attempts are numbered without gaps and never exceed max_attempts, although
\* Lease takes the number from a snapshot.
THEOREM BudgetIsKept == Spec => []BudgetAccounted
<1>1. StoreInvariant => BudgetAccounted
  BY DEF StoreInvariant, TableOK, BudgetAccounted
<1> QED
  BY <1>1, StoreInvariantHolds, PTL

\* Complete makes a task succeed exactly when it makes its latest attempt succeed.
THEOREM ResultsHaveOneAuthor == Spec => []ResultHasOneAuthor
<1>1. StoreInvariant => ResultHasOneAuthor
  BY DEF StoreInvariant, TableOK, ResultHasOneAuthor
<1> QED
  BY <1>1, StoreInvariantHolds, PTL

\* releaseDependents and Lease never let a task run before what it depends on has
\* succeeded, not even a cancelled task that a late report puts back in the queue.
THEOREM DependenciesGate == Spec => []DependencyGate
<1>1. StoreInvariant => DependencyGate
  <2> SUFFICES ASSUME StoreInvariant, NEW t \in Tasks,
                      task[t].state \in {"queued", "succeeded", "failed"} \cup Live
               PROVE \A d \in DependsOn[t] : task[d].state = "succeeded"
    BY DEF DependencyGate
  <2>1. TableOK(t) /\ GateOK(t) /\ task[t] \in TaskRow
    BY DEF StoreInvariant, TypeOK
  <2>2. task[t].state = "queued" \/ task[t].count > 0
    BY <2>1 DEF TableOK, TaskRow, Numbers
  <2> QED
    BY <2>1, <2>2 DEF GateOK
<1> QED
  BY <1>1, StoreInvariantHolds, PTL

\* reconcileJob may publish an old count, but a job it calls succeeded or failed
\* is.
THEOREM JobOutcomesHappened == Spec => []JobOutcomeHappened
<1>1. StoreInvariant => JobOutcomeHappened
  BY DEF StoreInvariant, JobRowOK, JobOutcomeHappened
<1> QED
  BY <1>1, StoreInvariantHolds, PTL

\* No row can make ExpireLeases roll back its batch, and no failure report is
\* refused by checkTask.
THEOREM SweepsAreNeverPoisoned == Spec => []NeverPoisoned
<1>1. StoreInvariant => NeverPoisoned
  <2> SUFFICES ASSUME StoreInvariant, NEW p \in Procs, pc[p] \in {"fail", "sweep"}
               PROVE ~Illegal(p)
    BY DEF NeverPoisoned
  <2>1. PhaseOK(p) /\ TypeOK
    BY DEF StoreInvariant
  <2>2. CASE pc[p] = "fail"
    <3>1. seen[p][tid[p]].state \in Live /\ AfterFailure(p) \in {"queued", "failed"}
      BY <2>1, <2>2 DEF PhaseOK, AfterFailure
    <3> QED
      BY <2>2, <3>1, LegalMoves DEF Illegal
  <2>3. CASE pc[p] = "sweep"
    <3>1. ASSUME NEW a \in todo[p], seen[p][a[1]].state \notin TaskTerminal
          PROVE CanTransitionTask(seen[p][a[1]].state, AfterExpiry(p, a[1]))
      <4>1. a[1] \in Tasks /\ a[2] \in Numbers /\ a = <<a[1], a[2]>>
        BY <2>1 DEF TypeOK
      <4>2. SweepRowOK(p, a[1], a[2])
        BY <4>1 DEF StoreInvariant
      <4>3. seen[p][a[1]].state \in Live
        BY <3>1, <4>1, <4>2 DEF SweepRowOK, TaskTerminal
      <4> QED
        BY <4>3, LegalMoves DEF AfterExpiry
    <3> QED
      BY <2>3, <3>1 DEF Illegal
  <2> QED
    BY <2>2, <2>3
<1> QED
  BY <1>1, StoreInvariantHolds, PTL

\* Committed task and attempt rows change only when a job is created, a deadline
\* passes or a transaction commits.
LEMMA CommittedRowsFrame ==
    ASSUME [Next]_vars
    PROVE \/ UNCHANGED <<task, att>>
          \/ \E j \in Jobs : Create(j)
          \/ \E t \in Tasks, n \in Numbers : Lapse(t, n)
          \/ \E p \in Procs : Commit(p)
<1>1. CASE UNCHANGED vars
  BY <1>1 DEF vars, tables
<1>2. ASSUME NEW p \in Procs, Step(p) PROVE UNCHANGED <<task, att>> \/ Commit(p)
  BY <1>2 DEF Step, TransitionTask, ReleaseDependents, FailTask, Refuse, CountTasks,
     UpdateJob,
     LeaseTask, LeaseMiss, ExpireFinished, ExpireTask, CancelTasks, Rollback, tables
<1>3. ASSUME NEW p \in Procs, Call(p) PROVE UNCHANGED <<task, att>>
  <2>1. ASSUME NEW t \in Tasks, NEW n \in Numbers, NEW o, WithAttempt(p, t, n, o)
        PROVE UNCHANGED <<task, att>>
    BY <2>1 DEF WithAttempt
  <2>2. ASSUME NEW t \in Tasks, NEW n \in Numbers,
               CloseCancelled(p, t, n) \/ Start(p, t, n) \/ Progress(p, t, n)
        PROVE UNCHANGED <<task, att>>
    BY <2>1, <2>2 DEF CloseCancelled, Start, Progress
  <2>3. ASSUME NEW t \in Tasks, NEW n \in Numbers, NEW r \in Results, Complete(p, t, n, r)
        PROVE UNCHANGED <<task, att>>
    BY <2>1, <2>3 DEF Complete
  <2>4. ASSUME NEW w \in Workers, NEW t \in Tasks, LeaseSelect(p, w, t)
        PROVE UNCHANGED <<task, att>>
    BY <2>4 DEF LeaseSelect, tables
  <2>5. ASSUME NEW j \in Jobs, CancelSelect(p, j) PROVE UNCHANGED <<task, att>>
    BY <2>5 DEF CancelSelect
  <2> QED
    BY <1>3, <2>2, <2>3, <2>4, <2>5 DEF Call
<1>4. ASSUME NEW p \in Procs, Sweep(p) \/ Abort(p) PROVE UNCHANGED <<task, att>>
  BY <1>4 DEF Sweep, ExpireSelect, Abort, Rollback
<1> QED
  BY <1>1, <1>2, <1>3, <1>4 DEF Next

\* No call, however late or repeated, changes an attempt that has ended or a task
\* that succeeded or failed.
THEOREM OutcomesAreFinal == Spec => OutcomesFinal
<1> DEFINE Kept ==
      /\ \A t \in Tasks, n \in Numbers :
           att[t][n].state \notin Live \cup {"absent"} => att'[t][n].state = att[t][n].state
      /\ \A t \in Tasks :
           task[t].state \in {"succeeded", "failed"} => task'[t].state = task[t].state
<1>1. StoreInvariant /\ [Next]_vars => Kept
  <2> SUFFICES ASSUME StoreInvariant, [Next]_vars PROVE Kept
    OBVIOUS
  <2>1. TypeOK
    BY DEF StoreInvariant
  <2>2. CASE UNCHANGED <<task, att>>
    BY <2>2
  <2>3. ASSUME NEW j \in Jobs, Create(j) PROVE Kept
    <3>1. att' = att
      BY <2>3 DEF Create
    <3>2. ASSUME NEW t \in Tasks PROVE task'[t] = task[t] \/ task[t].state = "absent"
      <4>1. TableOK(t)
        BY DEF StoreInvariant
      <4>2. JobOf[t] = j => task[t].state = "absent"
        BY <2>3, <4>1 DEF Create, TableOK
      <4>3. JobOf[t] # j => task'[t] = task[t]
        BY <2>3 DEF Create
      <4> QED
        BY <4>2, <4>3
    <3> QED
      BY <3>1, <3>2
  <2>4. ASSUME NEW t0 \in Tasks, NEW n0 \in Numbers, Lapse(t0, n0) PROVE Kept
    <3>1. task' = task
      BY <2>4 DEF Lapse
    <3>2. ASSUME NEW t \in Tasks, NEW n \in Numbers PROVE att'[t][n].state = att[t][n].state
      BY <2>1, <2>4 DEF Lapse, TypeOK, AttemptRow
    <3> QED
      BY <3>1, <3>2
  <2>5. ASSUME NEW p \in Procs, Commit(p) PROVE Kept
    <3>1. ASSUME NEW t \in Tasks, NEW n \in Numbers
          PROVE att'[t][n] = att[t][n] \/ att[t][n].state \in Live \cup {"absent"}
      <4>1. AttemptWriteOK(t, n)
        BY DEF StoreInvariant
      <4>2. attLock[t][n] # p => att'[t][n] = att[t][n]
        BY <2>5 DEF Commit
      <4>3. attLock[t][n] = p => att[t][n].state \in Live \cup {"absent"}
        BY <4>1, SentinelAssumption DEF AttemptWriteOK
      <4> QED
        BY <4>2, <4>3
    <3>2. ASSUME NEW t \in Tasks
          PROVE task'[t] = task[t] \/ task[t].state \notin {"succeeded", "failed"}
      <4>1. TaskWriteOK(t)
        BY DEF StoreInvariant
      <4>2. taskLock[t] # p => task'[t] = task[t]
        BY <2>5 DEF Commit
      <4>3. taskLock[t] = p => task[t].state \notin {"succeeded", "failed"}
        BY <4>1, SentinelAssumption DEF TaskWriteOK, Live
      <4> QED
        BY <4>2, <4>3
    <3> QED
      BY <3>1, <3>2
  <2> QED
    BY <2>2, <2>3, <2>4, <2>5, CommittedRowsFrame
<1>2. StoreInvariant /\ [Next]_vars => [Kept]_vars
  BY <1>1
<1> QED
  BY <1>2, StoreInvariantHolds, PTL DEF Spec, OutcomesFinal

----------------------------------------------------------------------------
(* The refinement of LeaseProtocol *)

\* The attempt rows of a task decide its attempt_count and whether it has
\* succeeded: Lease, Complete and ExpireLeases never move one without the other.
LEMMA RowsDecide ==
    ASSUME StoreInvariant, StoreInvariant', NEW t \in Tasks,
           \A n \in Numbers : /\ att'[t][n].state = "absent" <=> att[t][n].state = "absent"
                              /\ att'[t][n].state = "succeeded" <=> att[t][n].state = "succeeded"
    PROVE Granted'[t] = Granted[t] /\ Finished'[t] = Finished[t]
<1>1. /\ TableOK(t) /\ TableOK(t)'
      /\ task[t].count \in 0 .. (MaxAttempts + 1) /\ task'[t].count \in 0 .. (MaxAttempts + 1)
  BY DEF StoreInvariant, TypeOK, TaskRow
<1>2. \A n \in Numbers : n > task[t].count <=> n > task'[t].count
  BY <1>1 DEF TableOK
<1>3. task'[t].count = task[t].count
  <2>1. CASE task[t].count < task'[t].count
    <3>1. task'[t].count \in Numbers
      BY <1>1, <2>1, TablesAssumption DEF Numbers
    <3> QED
      BY <1>1, <1>2, <2>1, <3>1
  <2>2. CASE task'[t].count < task[t].count
    <3>1. task[t].count \in Numbers
      BY <1>1, <2>2, TablesAssumption DEF Numbers
    <3> QED
      BY <1>1, <1>2, <2>2, <3>1
  <2> QED
    BY <1>1, <2>1, <2>2, TablesAssumption
<1>4. ASSUME task[t].state = "succeeded" PROVE task'[t].state = "succeeded"
  <2>1. task[t].count \in Numbers
    BY <1>1, <1>4, TablesAssumption DEF TableOK, Numbers
  <2> QED
    BY <1>1, <1>4, <2>1 DEF TableOK
<1>5. ASSUME task'[t].state = "succeeded" PROVE task[t].state = "succeeded"
  <2>1. task'[t].count \in Numbers
    BY <1>1, <1>5, TablesAssumption DEF TableOK, Numbers
  <2> QED
    BY <1>1, <1>5, <2>1 DEF TableOK
<1>6. (task'[t].state = "succeeded") = (task[t].state = "succeeded")
  BY <1>4, <1>5
<1> QED
  BY <1>3, <1>6 DEF Granted, Finished

\* A task has at most one open lease: the attempt that is open, if one is.
LEMMA OneOpenLease ==
    ASSUME StoreInvariant, NEW t \in Tasks
    PROVE /\ \A n \in Numbers : att[t][n].state \in Live =>
               OpenLeases[t] = {<<n, att[t][n].worker>>}
          /\ (\A n \in Numbers : att[t][n].state \notin Live) => OpenLeases[t] = {}
<1>1. \A n \in Numbers : att[t][n].state \in Live => n = task[t].count
  BY DEF StoreInvariant, TableOK
<1>2. ASSUME NEW n \in Numbers, att[t][n].state \in Live
      PROVE {m \in Numbers : att[t][m].state \in Live} = {n}
  BY <1>1, <1>2
<1>3. OpenLeases[t] = {<<n, att[t][n].worker>> :
                          n \in {m \in Numbers : att[t][m].state \in Live}}
  BY DEF OpenLeases
<1> QED
  BY <1>2, <1>3

\* A task whose attempts stay open, or stay closed, with their workers, looks the
\* same to the protocol.
LEMMA SameLeases ==
    ASSUME NEW t \in Tasks,
           \A n \in Numbers :
              /\ att'[t][n].state \in Live <=> att[t][n].state \in Live
              /\ att[t][n].state \in Live => att'[t][n].worker = att[t][n].worker
    PROVE OpenLeases'[t] = OpenLeases[t]
<1>1. {m \in Numbers : att'[t][m].state \in Live} = {m \in Numbers : att[t][m].state \in Live}
  OBVIOUS
<1> QED
  BY <1>1 DEF OpenLeases

\* What a commit does to one attempt row: nothing, or its pending version takes
\* its place, which is either an open attempt's next state or a new lease.
LEMMA CommittedAttempt ==
    ASSUME StoreInvariant, NEW p \in Procs, Commit(p), NEW t \in Tasks, NEW n \in Numbers
    PROVE \/ attLock[t][n] # p /\ att'[t][n] = att[t][n]
          \/ /\ attLock[t][n] = p /\ att'[t][n] = attNew[t][n]
             /\ att[t][n].state \in Live /\ att'[t][n].state # "absent"
             /\ att'[t][n].worker = att[t][n].worker
          \/ /\ attLock[t][n] = p /\ att'[t][n] = attNew[t][n]
             /\ att[t][n].state = "absent" /\ att'[t][n].state = "leased"
             /\ att'[t][n].worker \in Workers
             /\ taskLock[t] = p /\ taskNew[t].count = n
<1>1. AttemptWriteOK(t, n) /\ TaskWriteOK(t) /\ TableOK(t)
  BY DEF StoreInvariant
<1>2. CASE attLock[t][n] # p
  BY <1>2 DEF Commit
<1>3. CASE attLock[t][n] = p
  <2>1. att'[t][n] = attNew[t][n] /\ pc[p] = "commit" /\ p # NoProc
    BY <1>3, SentinelAssumption DEF Commit
  <2>2. CASE att[t][n].state \in Live
    <3>1. n = task[t].count /\ task[t].state \in Live \cup {"cancelled"}
      BY <1>1, <2>2 DEF TableOK
    <3>2. attNew[t][n].state # "absent"
      BY <1>1, <1>3, <2>1, <2>2, <3>1 DEF AttemptWriteOK, TaskWriteOK, Paired, Owed,
         Live
    <3> QED
      BY <1>1, <1>3, <2>1, <2>2, <3>2 DEF AttemptWriteOK
  <2>3. CASE att[t][n].state \notin Live
    BY <1>1, <1>3, <2>1, <2>3 DEF AttemptWriteOK
  <2> QED
    BY <2>2, <2>3
<1> QED
  BY <1>2, <1>3

\* A sweep's commit is, to the protocol, the end of the leases it reclaimed.
LEMMA SweepReleases ==
    ASSUME StoreInvariant, StoreInvariant', NEW p \in Procs, Commit(p), op[p] = "expire"
    PROVE \E S \in SUBSET Tasks : Protocol!Release(S)
<1> DEFINE S == {t \in Tasks : \E n \in Numbers : attLock[t][n] = p /\ att'[t][n].state = "expired"}
<1>1. ASSUME NEW t \in Tasks, NEW n \in Numbers
      PROVE \/ att'[t][n].state = att[t][n].state
               /\ (att[t][n].state \in Live => att'[t][n].worker = att[t][n].worker)
            \/ /\ att[t][n].state \in Live /\ att'[t][n].state = "expired"
               /\ attLock[t][n] = p
  <2>1. ScopeOK(p)
    BY DEF StoreInvariant
  <2>2. attLock[t][n] = p => /\ att[t][n].state \in Live
                             /\ attNew[t][n].state \in {att[t][n].state, "expired"}
    BY <2>1 DEF ScopeOK
  <2> QED
    BY <2>2, CommittedAttempt DEF Live
<1>2. ASSUME NEW t \in Tasks
      PROVE Granted'[t] = Granted[t] /\ Finished'[t] = Finished[t]
  <2>1. \A n \in Numbers : /\ att'[t][n].state = "absent" <=> att[t][n].state = "absent"
                           /\ att'[t][n].state = "succeeded" <=> att[t][n].state = "succeeded"
    BY <1>1 DEF Live
  <2> QED
    BY <2>1, RowsDecide
<1>3. ASSUME NEW t \in Tasks
      PROVE OpenLeases'[t] = IF t \in S THEN {} ELSE OpenLeases[t]
  <2>1. CASE t \in S
    <3>1. PICK n \in Numbers : attLock[t][n] = p /\ att'[t][n].state = "expired"
      BY <2>1
    <3>2. att[t][n].state \in Live
      BY <3>1 DEF StoreInvariant, ScopeOK
    <3>3. \A m \in Numbers : att[t][m].state \in Live => m = n
      BY <3>2 DEF StoreInvariant, TableOK
    <3>4. \A m \in Numbers : att'[t][m].state \notin Live
      BY <1>1, <3>1, <3>3 DEF Live
    <3>5. OpenLeases'[t] = {}
      BY <3>4 DEF OpenLeases
    <3> QED
      BY <2>1, <3>5
  <2>2. CASE t \notin S
    <3>1. \A n \in Numbers :
              /\ att'[t][n].state \in Live <=> att[t][n].state \in Live
              /\ att[t][n].state \in Live => att'[t][n].worker = att[t][n].worker
      BY <1>1, <2>2
    <3> QED
      BY <2>2, <3>1, SameLeases
  <2> QED
    BY <2>1, <2>2
<1>4. OpenLeases' = [t \in Tasks |-> IF t \in S THEN {} ELSE OpenLeases[t]]
  BY <1>3 DEF OpenLeases
<1>5. Granted' = Granted /\ Finished' = Finished
  BY <1>2 DEF Granted, Finished
<1>6. S \in SUBSET Tasks
  OBVIOUS
<1> HIDE DEF S
<1> QED
  BY <1>4, <1>5, <1>6 DEF Protocol!Release

\* The commit of any other transaction is, to the protocol, the grant of a lease,
\* the end of one with or without a result, or nothing.
LEMMA ReportStep ==
    ASSUME StoreInvariant, StoreInvariant', NEW p \in Procs, Commit(p), op[p] # "expire"
    PROVE Protocol!Next \/ UNCHANGED <<OpenLeases, Granted, Finished>>
<1>0. PICK t0, n0 : t0 = tid[p] /\ n0 = num[p]
  OBVIOUS
<1>1. ASSUME NEW t \in Tasks, NEW n \in Numbers, t # t0 \/ n # n0
      PROVE att'[t][n] = att[t][n]
  <2>1. attLock[t][n] # p
    BY <1>0, <1>1 DEF StoreInvariant, ScopeOK
  <2> QED
    BY <2>1, CommittedAttempt
<1>2. ASSUME NEW t \in Tasks, t # t0
      PROVE /\ OpenLeases'[t] = OpenLeases[t] /\ Granted'[t] = Granted[t]
            /\ Finished'[t] = Finished[t]
  <2>1. \A n \in Numbers : att'[t][n] = att[t][n]
    BY <1>1, <1>2
  <2> QED
    BY <2>1, RowsDecide, SameLeases
<1>3. CASE \A t \in Tasks, n \in Numbers : attLock[t][n] # p
  <2>1. \A t \in Tasks, n \in Numbers : att'[t][n] = att[t][n]
    BY <1>3, CommittedAttempt
  <2>2. \A t \in Tasks : /\ OpenLeases'[t] = OpenLeases[t] /\ Granted'[t] = Granted[t]
                         /\ Finished'[t] = Finished[t]
    BY <2>1, RowsDecide, SameLeases
  <2> QED
    BY <2>2 DEF OpenLeases, Granted, Finished
<1>4. CASE \E t \in Tasks, n \in Numbers : attLock[t][n] = p
  <2>1. t0 \in Tasks /\ n0 \in Numbers /\ attLock[t0][n0] = p
    BY <1>0, <1>4 DEF StoreInvariant, ScopeOK
  <2>2. \A n \in Numbers : n # n0 => att'[t0][n] = att[t0][n]
    BY <1>1, <2>1
  <2>3. TableOK(t0) /\ TableOK(t0)' /\ TaskWriteOK(t0) /\ task[t0] \in TaskRow
    BY <2>1 DEF StoreInvariant, TypeOK
  <2> DEFINE from == att[t0][n0].state  to == att'[t0][n0].state
  <2>4. CASE from \in Live /\ to \in Live
    <3>1. att'[t0][n0].worker = att[t0][n0].worker
      BY <2>1, <2>4, CommittedAttempt DEF Live
    <3>2. \A n \in Numbers :
              /\ att'[t0][n].state \in Live <=> att[t0][n].state \in Live
              /\ att[t0][n].state \in Live => att'[t0][n].worker = att[t0][n].worker
              /\ att'[t0][n].state = "absent" <=> att[t0][n].state = "absent"
              /\ att'[t0][n].state = "succeeded" <=> att[t0][n].state = "succeeded"
      BY <2>2, <2>4, <3>1 DEF Live
    <3>3. /\ OpenLeases'[t0] = OpenLeases[t0] /\ Granted'[t0] = Granted[t0]
          /\ Finished'[t0] = Finished[t0]
      BY <2>1, <3>2, RowsDecide, SameLeases
    <3> QED
      BY <1>2, <3>3 DEF OpenLeases, Granted, Finished
  <2>5. CASE from \in Live /\ to \notin Live
    <3>1. to # "absent" /\ from # "absent"
      BY <2>1, <2>5, CommittedAttempt DEF Live
    <3>2. \A n \in Numbers : att[t0][n].state \in Live => n = n0
      BY <2>1, <2>3, <2>5 DEF TableOK
    <3>3. OpenLeases[t0] # {} /\ OpenLeases'[t0] = {}
      <4>1. OpenLeases[t0] = {<<n0, att[t0][n0].worker>>}
        BY <2>1, <2>5, OneOpenLease
      <4>2. \A n \in Numbers : att'[t0][n].state \notin Live
        BY <2>2, <2>5, <3>2
      <4>3. OpenLeases'[t0] = {}
        BY <2>1, <4>2 DEF OpenLeases
      <4> QED
        BY <4>1, <4>3
    <3>4. OpenLeases' = [OpenLeases EXCEPT ![t0] = {}]
      BY <1>2, <2>1, <3>3 DEF OpenLeases
    <3>5. CASE to = "succeeded"
      <4>1. task'[t0].state = "succeeded" /\ task'[t0].count = n0 /\ task[t0].count = n0
        BY <2>1, <2>3, <2>5, <3>5 DEF TableOK
      <4>2. Finished' = [Finished EXCEPT ![t0] = TRUE]
        BY <1>2, <2>1, <4>1 DEF Finished
      <4>3. Granted' = Granted
        BY <1>2, <2>1, <4>1 DEF Granted
      <4>4. Protocol!Finish(t0)
        BY <3>3, <3>4, <4>2, <4>3 DEF Protocol!Finish
      <4> QED
        BY <2>1, <4>4 DEF Protocol!Next
    <3>6. CASE to # "succeeded"
      <4>1. \A n \in Numbers :
               /\ att'[t0][n].state = "absent" <=> att[t0][n].state = "absent"
               /\ att'[t0][n].state = "succeeded" <=> att[t0][n].state = "succeeded"
        BY <2>2, <2>5, <3>1, <3>6 DEF Live
      <4>2. Granted'[t0] = Granted[t0] /\ Finished'[t0] = Finished[t0]
        BY <2>1, <4>1, RowsDecide
      <4>3. Granted' = Granted /\ Finished' = Finished
        BY <1>2, <4>2 DEF Granted, Finished
      <4>4. OpenLeases' = [t \in Tasks |-> IF t \in {t0} THEN {} ELSE OpenLeases[t]]
        BY <1>2, <2>1, <3>3 DEF OpenLeases
      <4>5. Protocol!Release({t0}) /\ {t0} \in SUBSET Tasks
        BY <2>1, <4>3, <4>4 DEF Protocol!Release
      <4> QED
        BY <4>5 DEF Protocol!Next
    <3> QED
      BY <3>5, <3>6
  <2>6. CASE from \notin Live
    <3>1. /\ from = "absent" /\ to = "leased" /\ att'[t0][n0].worker \in Workers
          /\ taskLock[t0] = p /\ taskNew[t0].count = n0
      BY <2>1, <2>6, CommittedAttempt
    <3>2. n0 > task[t0].count
      BY <2>1, <2>3, <3>1 DEF TableOK
    <3>3. task[t0].state = "queued" /\ n0 = task[t0].count + 1
      BY <2>3, <3>1, <3>2, SentinelAssumption DEF TaskWriteOK, TaskRow
    <3>4. task'[t0].count = n0 /\ task'[t0].state = "leased"
      <4>1. task'[t0] = taskNew[t0]
        BY <2>1, <3>1 DEF Commit
      <4> QED
        BY <2>3, <3>1, <3>3, <4>1, SentinelAssumption DEF TaskWriteOK, TaskRow, Live
    <3>5. OpenLeases[t0] = {}
      <4>1. \A n \in Numbers : att[t0][n].state \notin Live
        BY <2>3, <3>3 DEF TableOK, Live
      <4> QED
        BY <2>1, <4>1, OneOpenLease
    <3>6. OpenLeases'[t0] = {<<n0, att'[t0][n0].worker>>}
      <4>1. \A n \in Numbers : att'[t0][n].state \in Live <=> n = n0
        BY <2>2, <2>3, <3>1, <3>3 DEF TableOK, Live
      <4>2. {m \in Numbers : att'[t0][m].state \in Live} = {n0}
        BY <2>1, <4>1
      <4> QED
        BY <2>1, <4>2 DEF OpenLeases
    <3>7. Granted[t0] = task[t0].count /\ ~Finished[t0] /\ Granted[t0] < MaxAttempts
      BY <2>1, <2>3, <3>3 DEF Granted, Finished, TableOK
    <3>8. OpenLeases' = [OpenLeases EXCEPT ![t0] = {<<Granted[t0] + 1, att'[t0][n0].worker>>}]
      BY <1>2, <2>1, <3>3, <3>6, <3>7 DEF OpenLeases
    <3>9. Granted' = [Granted EXCEPT ![t0] = Granted[t0] + 1]
      BY <1>2, <2>1, <3>3, <3>4, <3>7 DEF Granted
    <3>10. Finished' = Finished
      BY <1>2, <2>1, <3>3, <3>4 DEF Finished
    <3>11. Protocol!Grant(t0, att'[t0][n0].worker)
      BY <3>5, <3>7, <3>8, <3>9, <3>10 DEF Protocol!Grant
    <3> QED
      BY <2>1, <3>1, <3>11 DEF Protocol!Next
  <2> QED
    BY <2>4, <2>5, <2>6
<1> QED
  BY <1>3, <1>4

\* The store implements the lease protocol for any number of tasks, workers,
\* attempts and concurrent transactions: whatever Lease, Start, Progress,
\* Complete, Cancel and ExpireLeases commit, a worker that holds a lease is the
\* only one, leases are numbered and budgeted, and a finished task stays finished.
THEOREM StoreImplementsLeaseProtocol == Spec => ImplementsLeaseProtocol
<1>1. Init => Protocol!Init
  <2> SUFFICES ASSUME Init PROVE Protocol!Init
    OBVIOUS
  <2>1. OpenLeases = [t \in Tasks |-> {}]
    <3>1. ASSUME NEW t \in Tasks, NEW n \in Numbers PROVE att[t][n].state \notin Live
      BY DEF Init, AbsentAttempt, Live
    <3> QED
      BY <3>1 DEF OpenLeases
  <2>2. Granted = [t \in Tasks |-> 0] /\ Finished = [t \in Tasks |-> FALSE]
    BY DEF Init, AbsentTask, Granted, Finished
  <2> QED
    BY <2>1, <2>2 DEF Protocol!Init
<1>2. StoreInvariant /\ StoreInvariant' /\ [Next]_vars => [Protocol!Next]_(Protocol!vars)
  <2> SUFFICES ASSUME StoreInvariant, StoreInvariant', [Next]_vars
               PROVE Protocol!Next \/ UNCHANGED <<OpenLeases, Granted, Finished>>
    BY DEF Protocol!vars
  <2>1. CASE UNCHANGED <<task, att>>
    BY <2>1 DEF OpenLeases, Granted, Finished
  <2>2. ASSUME \A t \in Tasks, n \in Numbers : /\ att'[t][n].state = att[t][n].state
                                               /\ att'[t][n].worker = att[t][n].worker
        PROVE UNCHANGED <<OpenLeases, Granted, Finished>>
    <3>1. \A t \in Tasks : /\ OpenLeases'[t] = OpenLeases[t] /\ Granted'[t] = Granted[t]
                           /\ Finished'[t] = Finished[t]
      BY <2>2, RowsDecide, SameLeases
    <3> QED
      BY <3>1 DEF OpenLeases, Granted, Finished
  <2>3. ASSUME NEW j \in Jobs, Create(j) PROVE UNCHANGED <<OpenLeases, Granted, Finished>>
    <3>1. att' = att
      BY <2>3 DEF Create
    <3> QED
      BY <2>2, <3>1
  <2>4. ASSUME NEW t0 \in Tasks, NEW n0 \in Numbers, Lapse(t0, n0)
        PROVE UNCHANGED <<OpenLeases, Granted, Finished>>
    <3>1. ASSUME NEW t \in Tasks, NEW n \in Numbers
          PROVE att'[t][n].state = att[t][n].state /\ att'[t][n].worker = att[t][n].worker
      BY <2>4 DEF Lapse, StoreInvariant, TypeOK, AttemptRow
    <3> QED
      BY <2>2, <3>1
  <2>5. ASSUME NEW p \in Procs, Commit(p)
        PROVE Protocol!Next \/ UNCHANGED <<OpenLeases, Granted, Finished>>
    BY <2>5, SweepReleases, ReportStep DEF Protocol!Next
  <2> QED
    BY <2>1, <2>3, <2>4, <2>5, CommittedRowsFrame
<1> QED
  BY <1>1, <1>2, StoreInvariantHolds, PTL DEF Spec, ImplementsLeaseProtocol,
     Protocol!Spec

----------------------------------------------------------------------------
(* The slots of a worker *)

\* The open attempts worker w has in the pool of task t.
Taken(w, t) == {a \in LiveAttempts : /\ att[a[1]][a[2]].worker = w
                                    /\ SlotClass[a[1]] = SlotClass[t]}

\* Transaction p leases for a worker only while nobody else does, and until it ends
\* there is room for the attempt it inserts. Only such a transaction inserts one.
SlotOK(p) ==
    /\ pc[p] = "idle" => wrk[p] = NoWorker
    /\ wrk[p] # NoWorker =>
         /\ wrk[p] \in Workers /\ op[p] = "lease" /\ tid[p] \in Tasks
         /\ Cardinality(Taken(wrk[p], tid[p])) < Capacity[wrk[p]][SlotClass[tid[p]]]
         /\ \A q \in Procs : wrk[q] = wrk[p] => q = p
    /\ \A t \in Tasks, n \in Numbers :
         attLock[t][n] = p /\ att[t][n].state = "absent" =>
           wrk[p] # NoWorker /\ attNew[t][n].worker = wrk[p]

SlotInvariant == StoreInvariant /\ SlotsWithinCapacity /\ \A p \in Procs : SlotOK(p)

\* Sets of attempts are finite.
LEMMA TakenFinite ==
    ASSUME NEW w, NEW t
    PROVE  IsFiniteSet(Taken(w, t)) /\ Cardinality(Taken(w, t)) \in Nat
<1>1. IsFiniteSet(Numbers)
  BY FS_Interval, TablesAssumption DEF Numbers
<1>2. IsFiniteSet(Tasks \X Numbers)
  BY <1>1, FS_Product, CapacityAssumption
<1>3. Taken(w, t) \in SUBSET (Tasks \X Numbers)
  BY DEF Taken, LiveAttempts
<1> QED
  BY <1>2, <1>3, FS_Subset, FS_CardinalityType

\* Attempts that only end take no slots.
LEMMA FewerTaken ==
    ASSUME NEW w \in Workers, NEW t \in Tasks, Taken(w, t)' \subseteq Taken(w, t)
    PROVE  Cardinality(Taken(w, t)') <= Cardinality(Taken(w, t)) /\ Cardinality(Taken(w, t)') \in Nat
BY TakenFinite, FS_Subset, FS_CardinalityType

\* One attempt more takes one slot.
LEMMA OneMoreTaken ==
    ASSUME NEW w \in Workers, NEW t \in Tasks, NEW a, Taken(w, t)' \subseteq Taken(w, t) \cup {a}
    PROVE  Cardinality(Taken(w, t)') <= Cardinality(Taken(w, t)) + 1
<1>1. /\ IsFiniteSet(Taken(w, t) \cup {a})
      /\ Cardinality(Taken(w, t) \cup {a}) <= Cardinality(Taken(w, t)) + 1
      /\ Cardinality(Taken(w, t) \cup {a}) \in Nat
  <2>1. IsFiniteSet(Taken(w, t)) /\ Cardinality(Taken(w, t)) \in Nat
    BY TakenFinite
  <2>2. /\ IsFiniteSet(Taken(w, t) \cup {a})
        /\ Cardinality(Taken(w, t) \cup {a}) =
             IF a \in Taken(w, t) THEN Cardinality(Taken(w, t)) ELSE Cardinality(Taken(w, t)) + 1
    BY <2>1, FS_AddElement, Zenon
  <2> QED
    BY <2>1, <2>2
<1>2. /\ Cardinality(Taken(w, t)') <= Cardinality(Taken(w, t) \cup {a})
      /\ IsFiniteSet(Taken(w, t)')
  BY <1>1, FS_Subset
<1> QED
  BY <1>1, <1>2, TakenFinite, FS_CardinalityType

\* A row that was open keeps its worker and is the same slot; where nothing is
\* opened, no slot is taken.
LEMMA NothingOpened ==
    ASSUME NEW w \in Workers, NEW t \in Tasks,
           \A x \in Tasks, n \in Numbers :
             att'[x][n].state \in Live => /\ att[x][n].state \in Live
                                         /\ att'[x][n].worker = att[x][n].worker
    PROVE  Taken(w, t)' \subseteq Taken(w, t)
BY DEF Taken, LiveAttempts

\* Steps that open no attempt and do not meddle with a lease under way.
LEMMA QuietSlots ==
    ASSUME SlotInvariant, StoreInvariant',
           \A x \in Tasks, n \in Numbers :
             att'[x][n].state \in Live => /\ att[x][n].state \in Live
                                         /\ att'[x][n].worker = att[x][n].worker,
           \A q \in Procs : \/ wrk'[q] = NoWorker
                            \/ wrk'[q] = wrk[q] /\ op'[q] = op[q] /\ tid'[q] = tid[q],
           \A q \in Procs : pc'[q] = "idle" => wrk'[q] = NoWorker,
           \A x \in Tasks, n \in Numbers, q \in Procs :
             attLock'[x][n] = q /\ att'[x][n].state = "absent" =>
               /\ attLock[x][n] = q /\ att[x][n].state = "absent"
               /\ attNew'[x][n] = attNew[x][n] /\ wrk'[q] = wrk[q]
    PROVE  SlotInvariant'
<1>1. \A w \in Workers, t \in Tasks :
        Cardinality(Taken(w, t)') <= Cardinality(Taken(w, t)) /\ Cardinality(Taken(w, t)') \in Nat
  BY NothingOpened, FewerTaken
<1>2. \A w \in Workers, t \in Tasks :
        Cardinality(Taken(w, t)) <= Capacity[w][SlotClass[t]] /\ Cardinality(Taken(w, t)) \in Nat
  <2>1. \A w \in Workers, t \in Tasks : Cardinality(Taken(w, t)) <= Capacity[w][SlotClass[t]]
    BY DEF SlotInvariant, SlotsWithinCapacity, Taken
  <2> QED
    BY <2>1, TakenFinite
<1>3. SlotsWithinCapacity'
  <2>1. \A w \in Workers, t \in Tasks : Cardinality(Taken(w, t)') <= Capacity[w][SlotClass[t]]
    BY <1>1, <1>2, CapacityAssumption
  <2> QED
    BY <2>1 DEF SlotsWithinCapacity, Taken
<1>4. ASSUME NEW p \in Procs PROVE SlotOK(p)'
  <2>1. SlotOK(p)
    BY DEF SlotInvariant
  <2>2. ASSUME wrk'[p] # NoWorker
        PROVE  /\ wrk'[p] \in Workers /\ op'[p] = "lease" /\ tid'[p] \in Tasks
               /\ Cardinality(Taken(wrk[p], tid[p])') < Capacity[wrk[p]][SlotClass[tid[p]]]
               /\ \A q \in Procs : wrk'[q] = wrk'[p] => q = p
               /\ wrk'[p] = wrk[p] /\ tid'[p] = tid[p]
    <3>1. /\ wrk'[p] = wrk[p] /\ op'[p] = op[p] /\ tid'[p] = tid[p]
          /\ wrk[p] \in Workers /\ op[p] = "lease" /\ tid[p] \in Tasks
          /\ Cardinality(Taken(wrk[p], tid[p])) < Capacity[wrk[p]][SlotClass[tid[p]]]
          /\ \A q \in Procs : wrk[q] = wrk[p] => q = p
      BY <2>1, <2>2 DEF SlotOK
    <3>2. PICK w \in Workers, t \in Tasks : w = wrk[p] /\ t = tid[p]
      BY <3>1
    <3>3. Cardinality(Taken(w, t)') < Capacity[w][SlotClass[t]]
      BY <1>1, <1>2, <3>1, <3>2, CapacityAssumption
    <3>4. w = wrk'[p] /\ t = tid'[p]
      BY <3>1, <3>2
    <3>5. Taken(wrk[p], tid[p])' = Taken(w, t)'
      BY <3>4 DEF Taken
    <3> QED
      BY <2>2, <3>1, <3>2, <3>3, <3>5
  <2>3. \A t \in Tasks, n \in Numbers :
          attLock'[t][n] = p /\ att'[t][n].state = "absent" =>
            wrk'[p] # NoWorker /\ attNew'[t][n].worker = wrk'[p]
    BY <2>1 DEF SlotOK
  <2> QED
    BY <2>2, <2>3 DEF SlotOK
<1> QED
  BY <1>3, <1>4 DEF SlotInvariant

\* A transaction that goes on, or begins with a report, a sweep or a cancellation,
\* takes no slot. Rows without an attempt are left to the transactions that lease.
LEMMA OtherSlots ==
    ASSUME SlotInvariant, StoreInvariant', NEW p \in Procs, att' = att, wrk' = wrk,
           pc' = [pc EXCEPT ![p] = pc'[p]], pc'[p] # "idle",
           op' = [op EXCEPT ![p] = op'[p]], tid' = [tid EXCEPT ![p] = tid'[p]],
           wrk[p] = NoWorker \/ (op'[p] = op[p] /\ tid'[p] = tid[p]),
           \A t \in Tasks, n \in Numbers :
             att[t][n].state = "absent" =>
               attLock'[t][n] = attLock[t][n] /\ attNew'[t][n] = attNew[t][n]
    PROVE  SlotInvariant'
<1>1. TypeOK
  BY DEF SlotInvariant, StoreInvariant
<1>2. \A q \in Procs : pc'[q] = "idle" => wrk'[q] = NoWorker
  <2> SUFFICES ASSUME NEW q \in Procs, pc'[q] = "idle" PROVE wrk[q] = NoWorker
    OBVIOUS
  <2>1. pc[q] = "idle"
    BY <1>1 DEF TypeOK
  <2> QED
    BY <2>1 DEF SlotInvariant, SlotOK
<1>3. \A q \in Procs : \/ wrk'[q] = NoWorker
                       \/ wrk'[q] = wrk[q] /\ op'[q] = op[q] /\ tid'[q] = tid[q]
  BY <1>1 DEF TypeOK
<1> QED
  BY <1>2, <1>3, QuietSlots

\* Who is idle holds no worker.
LEMMA IdleHoldsNoWorker ==
    ASSUME SlotInvariant, NEW p \in Procs, pc[p] = "idle"
    PROVE  wrk[p] = NoWorker
BY DEF SlotInvariant, SlotOK

\* A report touches one row, which has an attempt.
LEMMA ReportSlots ==
    ASSUME SlotInvariant, StoreInvariant', NEW p \in Procs, NEW t \in Tasks, NEW n \in Numbers,
           NEW o, NEW row, NEW label \in Labels \ {"idle"},
           WithAttempt(p, t, n, o), WriteAttempt(p, t, n, row), Goto(p, label)
    PROVE  SlotInvariant'
<1>1. TypeOK
  BY DEF SlotInvariant, StoreInvariant
<1>2. wrk[p] = NoWorker /\ att' = att /\ wrk' = wrk
  BY IdleHoldsNoWorker DEF WithAttempt
<1>3. /\ pc' = [pc EXCEPT ![p] = pc'[p]] /\ pc'[p] # "idle"
      /\ op' = [op EXCEPT ![p] = op'[p]] /\ tid' = [tid EXCEPT ![p] = tid'[p]]
  BY <1>1 DEF WithAttempt, Goto, TypeOK
<1>4. \A x \in Tasks, m \in Numbers :
        att[x][m].state = "absent" =>
          attLock'[x][m] = attLock[x][m] /\ attNew'[x][m] = attNew[x][m]
  BY <1>1 DEF WithAttempt, WriteAttempt, TypeOK, Live
<1> QED
  BY <1>2, <1>3, <1>4, OtherSlots

LEMMA CallSlots ==
    ASSUME SlotInvariant, StoreInvariant', NEW p \in Procs,
           \/ \E t \in Tasks, n \in Numbers :
                \/ CloseCancelled(p, t, n) \/ Start(p, t, n) \/ Progress(p, t, n)
                \/ \E r \in Results : Complete(p, t, n, r)
           \/ \E j \in Jobs : CancelSelect(p, j)
           \/ Sweep(p)
    PROVE  SlotInvariant'
<1>1. TypeOK
  BY DEF SlotInvariant, StoreInvariant
<1>2. ASSUME NEW t \in Tasks, NEW n \in Numbers,
             CloseCancelled(p, t, n) \/ Start(p, t, n) \/ Progress(p, t, n)
      PROVE  SlotInvariant'
  <2>1. CASE CloseCancelled(p, t, n)
    BY <2>1, ReportSlots DEF CloseCancelled, Labels
  <2>2. CASE Start(p, t, n)
    BY <2>2, ReportSlots DEF Start, Labels
  <2>3. CASE Progress(p, t, n)
    BY <2>3, ReportSlots DEF Progress, Labels
  <2> QED
    BY <1>2, <2>1, <2>2, <2>3
<1>3. ASSUME NEW t \in Tasks, NEW n \in Numbers, NEW r \in Results, Complete(p, t, n, r)
      PROVE  SlotInvariant'
  <2> DEFINE row == [att[t][n] EXCEPT !.state = IF r = "success" THEN "succeeded" ELSE "failed"]
             label == IF r = "success" THEN "transition" ELSE "fail"
  <2>1. WithAttempt(p, t, n, r) /\ WriteAttempt(p, t, n, row) /\ Goto(p, label)
    BY <1>3 DEF Complete
  <2>2. label \in Labels \ {"idle"}
    BY DEF Labels
  <2> HIDE DEF row, label
  <2> QED
    BY <2>1, <2>2, ReportSlots
<1>4. ASSUME NEW j \in Jobs, CancelSelect(p, j) PROVE SlotInvariant'
  <2>1. /\ wrk[p] = NoWorker /\ att' = att /\ wrk' = wrk /\ attLock' = attLock /\ attNew' = attNew
        /\ tid' = tid
    BY <1>4, IdleHoldsNoWorker DEF CancelSelect
  <2>2. /\ pc' = [pc EXCEPT ![p] = pc'[p]] /\ pc'[p] # "idle"
        /\ op' = [op EXCEPT ![p] = op'[p]] /\ tid' = [tid EXCEPT ![p] = tid'[p]]
    BY <1>1, <1>4 DEF CancelSelect, Goto, TypeOK
  <2> QED
    BY <2>1, <2>2, OtherSlots
<1>5. ASSUME NEW batch \in SUBSET Expirable, ExpireSelect(p, batch) PROVE SlotInvariant'
  <2>1. wrk[p] = NoWorker /\ att' = att /\ wrk' = wrk /\ attNew' = attNew /\ tid' = tid
    BY <1>5, IdleHoldsNoWorker DEF ExpireSelect
  <2>2. /\ pc' = [pc EXCEPT ![p] = pc'[p]] /\ pc'[p] # "idle"
        /\ op' = [op EXCEPT ![p] = op'[p]] /\ tid' = [tid EXCEPT ![p] = tid'[p]]
    BY <1>1, <1>5 DEF ExpireSelect, Goto, TypeOK
  <2>3. ASSUME NEW t \in Tasks, NEW n \in Numbers, att[t][n].state = "absent"
        PROVE  attLock'[t][n] = attLock[t][n]
    <3>1. <<t, n>> \notin batch
      BY <2>3 DEF Expirable, LiveAttempts, Live
    <3> QED
      BY <1>5, <3>1 DEF ExpireSelect
  <2> QED
    BY <2>1, <2>2, <2>3, OtherSlots
<1> QED
  BY <1>2, <1>3, <1>4, <1>5 DEF Sweep

LEMMA StepSlots ==
    ASSUME SlotInvariant, StoreInvariant', NEW p \in Procs,
           \/ TransitionTask(p) \/ ReleaseDependents(p) \/ FailTask(p) \/ CountTasks(p)
           \/ UpdateJob(p) \/ CancelTasks(p)
           \/ \E t \in Tasks, n \in Numbers : ExpireFinished(p, t, n) \/ ExpireTask(p, t, n)
    PROVE  SlotInvariant'
<1>1. TypeOK /\ PhaseOK(p) /\ SlotOK(p)
  BY DEF SlotInvariant, StoreInvariant
<1>2. CASE TransitionTask(p) \/ ReleaseDependents(p) \/ FailTask(p) \/ CountTasks(p)
           \/ UpdateJob(p) \/ CancelTasks(p)
  <2>1. UNCHANGED <<att, attNew, attLock, op, tid, wrk>>
    BY <1>2 DEF TransitionTask, ReleaseDependents, FailTask, CountTasks, UpdateJob,
       CancelTasks,
                tables
  <2>2. pc' = [pc EXCEPT ![p] = pc'[p]] /\ pc'[p] # "idle"
    BY <1>1, <1>2 DEF TransitionTask, ReleaseDependents, FailTask, CountTasks,
       UpdateJob,
                      CancelTasks, Goto, TypeOK
  <2>3. op' = [op EXCEPT ![p] = op'[p]] /\ tid' = [tid EXCEPT ![p] = tid'[p]]
    BY <1>1, <2>1 DEF TypeOK
  <2> QED
    BY <2>1, <2>2, <2>3, OtherSlots
<1>3. ASSUME NEW t \in Tasks, NEW n \in Numbers, ExpireFinished(p, t, n) \/ ExpireTask(p, t, n)
      PROVE  SlotInvariant'
  <2>1. /\ <<t, n>> \in todo[p] /\ att' = att /\ wrk' = wrk /\ op' = op
        /\ \E row : WriteAttempt(p, t, n, row)
    BY <1>3 DEF ExpireFinished, ExpireTask
  <2>2. wrk[p] = NoWorker
    BY <1>1, <2>1 DEF PhaseOK, SlotOK
  <2>3. att[t][n].state # "absent"
    BY <2>1 DEF SlotInvariant, StoreInvariant, SweepRowOK, Live
  <2>4. /\ pc' = [pc EXCEPT ![p] = pc'[p]] /\ pc'[p] # "idle"
        /\ op' = [op EXCEPT ![p] = op'[p]] /\ tid' = [tid EXCEPT ![p] = tid'[p]]
    BY <1>1, <1>3 DEF ExpireFinished, ExpireTask, Goto, TypeOK
  <2>5. \A x \in Tasks, m \in Numbers :
          att[x][m].state = "absent" =>
            attLock'[x][m] = attLock[x][m] /\ attNew'[x][m] = attNew[x][m]
    BY <1>1, <2>1, <2>3 DEF WriteAttempt, TypeOK
  <2> QED
    BY <2>1, <2>2, <2>4, <2>5, OtherSlots
<1> QED
  BY <1>2, <1>3

\* A poll takes the worker's lock, which nobody else holds, and finds a free slot.
LEMMA LeaseSelectSlots ==
    ASSUME SlotInvariant, StoreInvariant', NEW p \in Procs, NEW w \in Workers, NEW t \in Tasks,
           LeaseSelect(p, w, t)
    PROVE  SlotInvariant'
<1>1. TypeOK /\ w # NoWorker
  BY SentinelAssumption DEF SlotInvariant, StoreInvariant
<1>2. /\ UNCHANGED <<att, attNew, attLock>> /\ pc[p] = "idle"
      /\ op' = [op EXCEPT ![p] = "lease"] /\ tid' = [tid EXCEPT ![p] = t]
      /\ wrk' = [wrk EXCEPT ![p] = w] /\ pc' = [pc EXCEPT ![p] = "leaseTask"]
      /\ \A q \in Procs : wrk[q] # w
  BY DEF LeaseSelect, Goto, tables, WorkerFree
<1>3. /\ Cardinality(Taken(w, t)) < Capacity[w][SlotClass[t]]
      /\ \A v, x : Taken(v, x)' = Taken(v, x)
  BY <1>2 DEF LeaseSelect, HasFreeSlot, Taken, LiveAttempts
<1>4. SlotsWithinCapacity'
  BY <1>2 DEF SlotInvariant, SlotsWithinCapacity, LiveAttempts
<1>5. SlotOK(p)'
  <2>1. op'[p] = "lease" /\ tid'[p] = t /\ wrk'[p] = w /\ pc'[p] = "leaseTask"
    BY <1>1, <1>2 DEF TypeOK
  <2>2. \A q \in Procs : wrk'[q] = w => q = p
    BY <1>1, <1>2 DEF TypeOK
  <2>3. \A x \in Tasks, n \in Numbers : ~(attLock[x][n] = p /\ att[x][n].state = "absent")
    BY <1>2, IdleHoldsNoWorker DEF SlotInvariant, SlotOK
  <2>4. Taken(wrk[p], tid[p])' = Taken(w, t)
    BY <1>2, <2>1 DEF Taken, LiveAttempts
  <2> QED
    BY <1>1, <1>2, <1>3, <2>1, <2>2, <2>3, <2>4 DEF SlotOK
<1>6. ASSUME NEW q \in Procs, q # p PROVE SlotOK(q)'
  <2>1. op'[q] = op[q] /\ tid'[q] = tid[q] /\ wrk'[q] = wrk[q] /\ pc'[q] = pc[q]
    BY <1>1, <1>2, <1>6 DEF TypeOK
  <2>2. wrk[q] # NoWorker => \A r \in Procs : wrk'[r] = wrk[q] => r = q
    BY <1>1, <1>2, <2>1 DEF TypeOK, SlotInvariant, SlotOK
  <2>3. Taken(wrk[q], tid[q])' = Taken(wrk[q], tid[q])
    BY <1>2, <2>1 DEF Taken, LiveAttempts
  <2>4. SlotOK(q)
    BY DEF SlotInvariant
  <2> QED
    BY <1>2, <2>1, <2>2, <2>3, <2>4 DEF SlotOK
<1> QED
  BY <1>4, <1>5, <1>6 DEF SlotInvariant

\* The attempt is inserted for the worker whose lock the transaction holds.
LEMMA LeaseTaskSlots ==
    ASSUME SlotInvariant, StoreInvariant', NEW p \in Procs, LeaseTask(p)
    PROVE  SlotInvariant'
<1>1. TypeOK /\ PhaseOK(p)
  BY DEF SlotInvariant, StoreInvariant
<1>2. PICK t0 \in Tasks, n0 \in Numbers : t0 = tid[p] /\ n0 = num[p] /\ wrk[p] \in Workers
  BY <1>1 DEF LeaseTask, PhaseOK
<1>3. /\ UNCHANGED <<att, op, tid, wrk>> /\ pc' = [pc EXCEPT ![p] = "count"]
      /\ attLock' = [attLock EXCEPT ![t0][n0] = p]
      /\ attNew' = [attNew EXCEPT ![t0][n0] =
                      [state |-> "leased", worker |-> wrk[p], lapsed |-> FALSE]]
  BY <1>2 DEF LeaseTask, WriteAttempt, Goto
<1>4. SlotsWithinCapacity'
  BY <1>3 DEF SlotInvariant, SlotsWithinCapacity, LiveAttempts
<1>5. ASSUME NEW q \in Procs PROVE SlotOK(q)'
  <2>1. SlotOK(q)
    BY DEF SlotInvariant
  <2>2. Taken(wrk[q], tid[q])' = Taken(wrk[q], tid[q])
    BY <1>3 DEF Taken, LiveAttempts
  <2>3. pc'[q] = "idle" => wrk[q] = NoWorker
    BY <1>1, <1>3, <2>1 DEF SlotOK, TypeOK
  <2>4. ASSUME NEW t \in Tasks, NEW n \in Numbers, attLock'[t][n] = q, att[t][n].state = "absent"
        PROVE  wrk[q] # NoWorker /\ attNew'[t][n].worker = wrk[q]
    <3>1. CASE t = t0 /\ n = n0
      BY <1>1, <1>2, <1>3, <2>4, <3>1, SentinelAssumption DEF TypeOK
    <3>2. CASE ~(t = t0 /\ n = n0)
      <4>1. attLock'[t][n] = attLock[t][n] /\ attNew'[t][n] = attNew[t][n]
        BY <1>1, <1>3, <3>2 DEF TypeOK
      <4> QED
        BY <2>1, <2>4, <4>1 DEF SlotOK
    <3> QED
      BY <3>1, <3>2
  <2> QED
    BY <1>3, <2>1, <2>2, <2>3, <2>4 DEF SlotOK
<1> QED
  BY <1>4, <1>5 DEF SlotInvariant

\* A transaction that is rolled back gives its worker back and inserts nothing.
LEMMA RollbackSlots ==
    ASSUME SlotInvariant, StoreInvariant', NEW p \in Procs, Rollback(p)
    PROVE  SlotInvariant'
<1>1. TypeOK
  BY DEF SlotInvariant, StoreInvariant
<1>2. /\ att' = att
      /\ \A q \in Procs : IF q = p THEN wrk'[q] = NoWorker
                          ELSE /\ wrk'[q] = wrk[q] /\ op'[q] = op[q] /\ tid'[q] = tid[q]
                               /\ pc'[q] = pc[q]
  BY <1>1 DEF Rollback, Forget, TypeOK
<1>3. \A x \in Tasks, n \in Numbers, q \in Procs :
        attLock'[x][n] = q =>
          attLock[x][n] = q /\ q # p /\ attNew'[x][n] = attNew[x][n]
  BY <1>1, SentinelAssumption DEF Rollback, ReleaseLocks, TypeOK
<1>4. \A q \in Procs : pc'[q] = "idle" => wrk'[q] = NoWorker
  BY <1>2 DEF SlotInvariant, SlotOK
<1> QED
  BY <1>2, <1>3, <1>4, QuietSlots

\* A transaction that commits opens at most one attempt, in the slot it found free.
LEMMA CommitSlots ==
    ASSUME SlotInvariant, StoreInvariant', NEW p \in Procs, Commit(p)
    PROVE  SlotInvariant'
<1>1. TypeOK /\ StoreInvariant /\ SlotOK(p) /\ ScopeOK(p)
  BY DEF SlotInvariant, StoreInvariant
<1>2. \A q \in Procs : IF q = p THEN wrk'[q] = NoWorker
                       ELSE /\ wrk'[q] = wrk[q] /\ op'[q] = op[q] /\ tid'[q] = tid[q]
                            /\ pc'[q] = pc[q]
  BY <1>1 DEF Commit, Forget, TypeOK
<1>3. \A x \in Tasks, n \in Numbers, q \in Procs :
        attLock'[x][n] = q =>
          attLock[x][n] = q /\ q # p /\ attNew'[x][n] = attNew[x][n] /\ att'[x][n] = att[x][n]
  BY <1>1, SentinelAssumption DEF Commit, ReleaseLocks, TypeOK
<1>4. \A q \in Procs : pc'[q] = "idle" => wrk'[q] = NoWorker
  BY <1>2 DEF SlotInvariant, SlotOK
<1>5. CASE wrk[p] = NoWorker
  <2>1. ASSUME NEW x \in Tasks, NEW n \in Numbers, att'[x][n].state \in Live
        PROVE  att[x][n].state \in Live /\ att'[x][n].worker = att[x][n].worker
    <3>1. ~(attLock[x][n] = p /\ att[x][n].state = "absent")
      BY <1>1, <1>5 DEF SlotOK
    <3> QED
      BY <1>1, <2>1, <3>1, CommittedAttempt
  <2> QED
    BY <1>2, <1>3, <1>4, <2>1, QuietSlots
<1>6. CASE wrk[p] # NoWorker
  <2>1. PICK w0 \in Workers, t0 \in Tasks :
          /\ w0 = wrk[p] /\ t0 = tid[p] /\ op[p] = "lease"
          /\ Cardinality(Taken(w0, t0)) < Capacity[w0][SlotClass[t0]]
          /\ \A q \in Procs : wrk[q] = w0 => q = p
    BY <1>1, <1>6 DEF SlotOK
  <2>2. ASSUME NEW x \in Tasks, NEW n \in Numbers, att'[x][n].state \in Live
        PROVE  \/ att[x][n].state \in Live /\ att'[x][n].worker = att[x][n].worker
               \/ x = t0 /\ n = num[p] /\ att'[x][n].worker = w0
    <3>1. CASE attLock[x][n] = p /\ att[x][n].state = "absent"
      <4>1. attNew[x][n].worker = w0
        BY <1>1, <2>1, <3>1 DEF SlotOK
      <4>2. x = t0 /\ n = num[p]
        BY <1>1, <2>1, <3>1 DEF ScopeOK
      <4>3. att'[x][n] = attNew[x][n]
        BY <3>1 DEF Commit
      <4> QED
        BY <4>1, <4>2, <4>3
    <3>2. CASE ~(attLock[x][n] = p /\ att[x][n].state = "absent")
      BY <1>1, <2>2, <3>2, CommittedAttempt
    <3> QED
      BY <3>1, <3>2
  <2>3. ASSUME NEW w \in Workers, NEW t \in Tasks, w # w0 \/ SlotClass[t] # SlotClass[t0]
        PROVE  Taken(w, t)' \subseteq Taken(w, t)
    BY <2>2, <2>3 DEF Taken, LiveAttempts
  <2>4. ASSUME NEW w \in Workers, NEW t \in Tasks
        PROVE  Taken(w, t)' \subseteq Taken(w, t) \cup {<<t0, num[p]>>}
    BY <2>2 DEF Taken, LiveAttempts
  <2>5. ASSUME NEW w \in Workers, NEW t \in Tasks
        PROVE  Cardinality(Taken(w, t)') <= Capacity[w][SlotClass[t]]
    <3>0. /\ Cardinality(Taken(w, t)) <= Capacity[w][SlotClass[t]]
          /\ Cardinality(Taken(w, t)) \in Nat /\ Capacity[w][SlotClass[t]] \in Nat
      <4>1. Cardinality(Taken(w, t)) <= Capacity[w][SlotClass[t]]
        BY DEF SlotInvariant, SlotsWithinCapacity, Taken
      <4> QED
        BY <4>1, TakenFinite, CapacityAssumption
    <3>1. CASE w # w0 \/ SlotClass[t] # SlotClass[t0]
      <4>1. Cardinality(Taken(w, t)') <= Cardinality(Taken(w, t))
            /\ Cardinality(Taken(w, t)') \in Nat
        BY <2>3, <3>1, FewerTaken
      <4> QED
        BY <3>0, <4>1
    <3>2. CASE w = w0 /\ SlotClass[t] = SlotClass[t0]
      <4>1. Taken(w, t) = Taken(w0, t0)
        BY <3>2 DEF Taken
      <4>2. Cardinality(Taken(w, t)') <= Cardinality(Taken(w, t)) + 1
        BY <2>4, OneMoreTaken
      <4>3. Cardinality(Taken(w, t)) < Capacity[w][SlotClass[t]]
        BY <2>1, <3>2, <4>1
      <4>4. IsFiniteSet(Taken(w, t) \cup {<<t0, num[p]>>})
        BY TakenFinite, FS_AddElement
      <4>5. Cardinality(Taken(w, t)') \in Nat
        BY <2>4, <4>4, FS_Subset, FS_CardinalityType
      <4> QED
        BY <3>0, <4>2, <4>3, <4>5
    <3> QED
      BY <3>1, <3>2
  <2>6. SlotsWithinCapacity'
    BY <2>5 DEF SlotsWithinCapacity, Taken
  <2>7. ASSUME NEW q \in Procs PROVE SlotOK(q)'
    <3>1. CASE q = p
      <4>1. \A t \in Tasks, n \in Numbers : attLock'[t][n] # p
        BY <1>3
      <4> QED
        BY <1>2, <3>1, <4>1 DEF SlotOK
    <3>2. CASE q # p
      <4>1. SlotOK(q) /\ wrk'[q] = wrk[q] /\ op'[q] = op[q] /\ tid'[q] = tid[q] /\ pc'[q] = pc[q]
        BY <1>2, <3>2 DEF SlotInvariant
      <4>2. ASSUME wrk[q] # NoWorker
            PROVE  Cardinality(Taken(wrk[q], tid[q])') < Capacity[wrk[q]][SlotClass[tid[q]]]
        <5>1. PICK w \in Workers, t \in Tasks :
                /\ w = wrk[q] /\ t = tid[q] /\ w # w0
                /\ Cardinality(Taken(w, t)) < Capacity[w][SlotClass[t]]
          BY <2>1, <3>2, <4>1, <4>2 DEF SlotOK
        <5>2. Cardinality(Taken(w, t)') <= Cardinality(Taken(w, t))
              /\ Cardinality(Taken(w, t)') \in Nat
          BY <2>3, <5>1, FewerTaken
        <5>3. Cardinality(Taken(w, t)') < Capacity[w][SlotClass[t]]
          BY <5>1, <5>2, TakenFinite, CapacityAssumption
        <5>4. Taken(wrk[q], tid[q])' = Taken(w, t)'
          BY <4>1, <5>1 DEF Taken
        <5> QED
          BY <5>1, <5>3, <5>4
      <4>3. \A r \in Procs : wrk[q] # NoWorker /\ wrk'[r] = wrk[q] => r = q
        BY <1>2, <4>1 DEF SlotOK
      <4>4. \A t \in Tasks, n \in Numbers :
              attLock'[t][n] = q /\ att'[t][n].state = "absent" =>
                wrk[q] # NoWorker /\ attNew'[t][n].worker = wrk[q]
        BY <1>3, <4>1 DEF SlotOK
      <4> QED
        BY <4>1, <4>2, <4>3, <4>4 DEF SlotOK
    <3> QED
      BY <3>1, <3>2
  <2> QED
    BY <2>6, <2>7 DEF SlotInvariant
<1> QED
  BY <1>5, <1>6

\* Every step keeps the slots.
LEMMA SlotStep == SlotInvariant /\ [Next]_vars => SlotInvariant'
<1> SUFFICES ASSUME SlotInvariant, [Next]_vars PROVE SlotInvariant'
  OBVIOUS
<1>0. TypeOK /\ StoreInvariant'
  BY NextInvariant DEF SlotInvariant, StoreInvariant
<1>1. ASSUME UNCHANGED <<pc, op, tid, wrk, attLock>>,
             \A x \in Tasks, n \in Numbers :
               /\ att'[x][n].state = att[x][n].state /\ att'[x][n].worker = att[x][n].worker
               /\ att[x][n].state = "absent" => attNew'[x][n] = attNew[x][n]
      PROVE  SlotInvariant'
  <2>1. \A q \in Procs : pc'[q] = "idle" => wrk'[q] = NoWorker
    BY <1>1 DEF SlotInvariant, SlotOK
  <2> QED
    BY <1>0, <1>1, <2>1, QuietSlots
<1>2. ASSUME NEW j \in Jobs, Create(j) PROVE SlotInvariant'
  BY <1>1, <1>2 DEF Create, locals
<1>3. ASSUME NEW t0 \in Tasks, NEW n0 \in Numbers, Lapse(t0, n0) PROVE SlotInvariant'
  <2>1. \A x \in Tasks, n \in Numbers :
          /\ att'[x][n].state = att[x][n].state /\ att'[x][n].worker = att[x][n].worker
          /\ att[x][n].state = "absent" => attNew'[x][n] = attNew[x][n]
    BY <1>0, <1>3 DEF Lapse, TypeOK, AttemptRow, Live
  <2> QED
    BY <1>1, <1>3, <2>1 DEF Lapse, locals
<1>4. ASSUME NEW p \in Procs, Step(p) PROVE SlotInvariant'
  BY <1>0, <1>4, StepSlots, LeaseTaskSlots, RollbackSlots, CommitSlots DEF Step,
     Refuse, LeaseMiss
<1>5. ASSUME NEW p \in Procs, Call(p) \/ Sweep(p) PROVE SlotInvariant'
  BY <1>0, <1>5, CallSlots, LeaseSelectSlots DEF Call
<1>6. ASSUME NEW p \in Procs, Abort(p) PROVE SlotInvariant'
  BY <1>0, <1>6, RollbackSlots DEF Abort
<1>7. CASE UNCHANGED vars
  BY <1>1, <1>7 DEF vars, tables, locals
<1> QED
  BY <1>2, <1>3, <1>4, <1>5, <1>6, <1>7 DEF Next

\* freeSlotClasses under the worker's advisory lock: however many connections a
\* worker polls from, and whatever else commits between the count of its open
\* attempts and the insert of a new one, it never holds more leases in a pool than
\* the pool has slots.
THEOREM SlotsSuffice == Spec => []SlotsWithinCapacity
<1>1. Init => SlotInvariant
  <2> SUFFICES ASSUME Init PROVE SlotInvariant
    OBVIOUS
  <2>1. StoreInvariant
    BY InitInvariant
  <2>2. \A w \in Workers, t \in Tasks : Taken(w, t) = {}
    BY DEF Init, Taken, LiveAttempts, AbsentAttempt, Live
  <2>3. \A w \in Workers, t \in Tasks : Cardinality(Taken(w, t)) <= Capacity[w][SlotClass[t]]
    <3>1. Cardinality({}) = 0
      BY FS_EmptySet, Zenon
    <3>2. \A w \in Workers, t \in Tasks : Capacity[w][SlotClass[t]] \in Nat
      BY CapacityAssumption
    <3>3. ASSUME NEW w \in Workers, NEW t \in Tasks
          PROVE  Cardinality(Taken(w, t)) <= Capacity[w][SlotClass[t]]
      <4>1. Cardinality(Taken(w, t)) = 0
        BY <2>2, <3>1
      <4> QED
        BY <3>2, <4>1
    <3> QED
      BY <3>3
  <2>4. SlotsWithinCapacity
    BY <2>3 DEF SlotsWithinCapacity, Taken
  <2>5. \A p \in Procs : SlotOK(p)
    BY SentinelAssumption DEF Init, SlotOK
  <2> QED
    BY <2>1, <2>4, <2>5 DEF SlotInvariant
<1>2. SlotInvariant => SlotsWithinCapacity
  BY DEF SlotInvariant
<1> QED
  BY <1>1, <1>2, SlotStep, PTL DEF Spec
============================================================================

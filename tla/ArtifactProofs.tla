--------------------------- MODULE ArtifactProofs ---------------------------
(***************************************************************************)
(* Proofs about ArtifactSet, for any number of outputs, attempts, contents *)
(* and troubles: ArtifactInvariant is inductive, and with it what is       *)
(* delivered was validated, a job is lost to two races only and a complete *)
(* set is frozen.                                                          *)
(***************************************************************************)
EXTENDS ArtifactSet, TLAPS

USE ArtifactAssumption

----------------------------------------------------------------------------
(* Lemmas about the operators *)

\* Replacing one entry of a table of a task's attempts.
LEMMA Replace ==
    ASSUME NEW S, NEW V, NEW f \in [S -> [Numbers -> V]],
           NEW s \in S, NEW n \in Numbers, NEW v \in V,
           NEW g, g = [f EXCEPT ![s][n] = v]
    PROVE  /\ g \in [S -> [Numbers -> V]]
           /\ \A x \in S, y \in Numbers : g[x][y] = IF x = s /\ y = n THEN v ELSE f[x][y]
OBVIOUS

\* reconcileJob's switch: the counted tasks decide how a job ends.
LEMMA DeriveMeans ==
    ASSUME NEW st \in [Tasks -> TaskStates]
    PROVE  /\ Derive(st, Tasks) \in JobStates
           /\ Derive(st, Tasks) = "succeeded" <=> \A t \in Tasks : st[t] = "succeeded"
           /\ Derive(st, Tasks) = "failed" => \E t \in Tasks : st[t] = "failed"
           /\ Derive(st, Tasks) = "cancelled" => \E t \in Tasks : st[t] = "cancelled"
BY DEF Derive, JobStates, Tasks

\* The worker of an attempt moves on.
LEMMA Moves ==
    ASSUME TypeOK, NEW t \in Tasks, NEW n \in Numbers, NEW p \in Places, Goto(t, n, p)
    PROVE  /\ pc' \in [Tasks -> [Numbers -> Places]]
           /\ \A u \in Tasks, m \in Numbers :
                pc'[u][m] = IF u = t /\ m = n THEN p ELSE pc[u][m]
BY Replace DEF TypeOK, Goto

\* A transaction ends.
LEMMA Ends ==
    ASSUME TypeOK, NEW t \in Tasks, NEW n \in Numbers, EndTransaction(t, n)
    PROVE  /\ step' \in [Tasks -> [Numbers -> {"none", "report", "sweep", "write"}]]
           /\ new' \in [Tasks -> [Numbers -> Writes]]
           /\ \A u \in Tasks, m \in Numbers :
                /\ step'[u][m] = IF u = t /\ m = n THEN "none" ELSE step[u][m]
                /\ new'[u][m] = IF u = t /\ m = n THEN NoWrite ELSE new[u][m]
<1>1. NoWrite \in Writes
  BY DEF NoWrite, Writes, TaskStates, AttemptStates, JobStates
<1>2. /\ step' \in [Tasks -> [Numbers -> {"none", "report", "sweep", "write"}]]
      /\ \A u \in Tasks, m \in Numbers :
           step'[u][m] = IF u = t /\ m = n THEN "none" ELSE step[u][m]
  BY Replace DEF TypeOK, EndTransaction
<1>3. /\ new' \in [Tasks -> [Numbers -> Writes]]
      /\ \A u \in Tasks, m \in Numbers :
           new'[u][m] = IF u = t /\ m = n THEN NoWrite ELSE new[u][m]
  BY <1>1, Replace DEF TypeOK, EndTransaction
<1> QED
  BY <1>2, <1>3

----------------------------------------------------------------------------
(* The initial state *)

LEMMA ArtifactInit == Init => ArtifactInvariant
<1> SUFFICES ASSUME Init PROVE ArtifactInvariant
  OBVIOUS
<1>1. TypeOK
  <2>1. NoWrite \in Writes
    BY DEF NoWrite, Writes, TaskStates, AttemptStates, JobStates
  <2>2. /\ step \in [Tasks -> [Numbers -> {"none", "report", "sweep", "write"}]]
        /\ new \in [Tasks -> [Numbers -> Writes]] /\ cancelled \in BOOLEAN
    BY <2>1 DEF Init
  <2>3. /\ task \in [Tasks -> [state : TaskStates, count : 0 .. MaxAttempts]]
        /\ att \in [Tasks -> [Numbers -> AttemptStates]] /\ job \in JobStates
        /\ pc \in [Tasks -> [Numbers -> Places]]
    BY DEF Init, Places, TaskStates, AttemptStates, JobStates
  <2> QED
    BY <2>2, <2>3 DEF Init, TypeOK, Unregistered
<1>2. \A t \in Tasks : AttemptsOK(t)
  BY DEF Init, AttemptsOK, Open, Live, Tasks
<1>3. GateOK /\ RegisteredOK /\ StepsOK
  BY DEF Init, GateOK, RegisteredOK, StepsOK, Tasks, Unregistered
<1>4. JobOK
  BY DEF Init, JobOK, Tasks
<1>5. ClosedSetMatchesJob /\ SuccessDelivers
  BY DEF Init, ClosedSetMatchesJob, SuccessDelivers
<1> QED
  BY <1>1, <1>2, <1>3, <1>4, <1>5 DEF ArtifactInvariant

----------------------------------------------------------------------------
(* Steps of workers and requests *)

\* A worker or a request moves on and touches no committed row of the store. Its own
\* transaction, if it leaves one, is over.
LEMMA StoreKept ==
    ASSUME ArtifactInvariant, NEW t \in Tasks, NEW n \in Numbers,
           NEW p \in Places, Goto(t, n, p), pc[t][n] # "none",
           UNCHANGED <<task, att, job, cancelled>>,
           \A u \in Tasks, m \in Numbers : step'[u][m] # "none" =>
             step'[u][m] = step[u][m] /\ new'[u][m] = new[u][m],
           Reporting(t, n) => step'[t][n] = "none",
           \A u \in Tasks, m \in Numbers :
             (u # t \/ m # n) => res'[u][m] = res[u][m],
           p = "complete" => job = "succeeded",
           p = "fail" => Failed \/ cancelled
    PROVE  /\ \A u \in Tasks : AttemptsOK(u)'
           /\ GateOK' /\ StepsOK' /\ JobOK'
<1>1. \A u \in Tasks, m \in Numbers : pc'[u][m] = IF u = t /\ m = n THEN p ELSE pc[u][m]
  BY Moves DEF ArtifactInvariant
<1>2. ASSUME NEW u \in Tasks PROVE AttemptsOK(u)'
  <2>1. AttemptsOK(u)
    BY DEF ArtifactInvariant
  <2> QED
    BY <2>1, <1>1 DEF AttemptsOK, Open
<1>3. GateOK'
  BY DEF ArtifactInvariant, GateOK
<1>4. ASSUME NEW u \in Tasks, NEW m \in Numbers
      PROVE  /\ step'[u][m] \in {"report", "sweep"} => Open(u, m)'
             /\ step'[u][m] = "report" => pc'[u][m] = "report"
             /\ step'[u][m] = "write" => WriteOK(u, m)'
  <2>1. /\ step[u][m] \in {"report", "sweep"} => Open(u, m)
        /\ step[u][m] = "report" => pc[u][m] = "report"
        /\ step[u][m] = "write" => WriteOK(u, m)
    BY DEF ArtifactInvariant, StepsOK
  <2>2. step'[u][m] \in {"report", "sweep"} => Open(u, m)'
    BY <2>1 DEF Open
  <2>3. step'[u][m] = "report" => pc'[u][m] = "report"
    BY <2>1, <1>1 DEF Reporting
  <2>4. ASSUME step'[u][m] = "write" PROVE WriteOK(u, m)'
    <3>1. step[u][m] = "write" /\ new'[u][m] = new[u][m] /\ WriteOK(u, m)
      BY <2>1, <2>4
    <3>2. LeaseOK(u, m) => LeaseOK(u, m)'
      BY <3>1 DEF LeaseOK
    <3>3. EndOK(u, m) => EndOK(u, m)'
      <4>1. CASE u = t /\ m = n
        <5>1. new[u][m].att \notin {"succeeded", "failed"}
          BY <2>4, <3>1, <4>1 DEF Reporting
        <5> QED
          BY <5>1, <3>1 DEF EndOK, Open
      <4>2. CASE u # t \/ m # n
        <5>1. pc'[u][m] = pc[u][m] /\ res'[u][m] = res[u][m]
          BY <1>1, <4>2
        <5> QED
          BY <5>1, <3>1 DEF EndOK, Open
      <4> QED
        BY <4>1, <4>2
    <3> QED
      BY <3>1, <3>2, <3>3 DEF WriteOK, Failed
  <2> QED
    BY <2>2, <2>3, <2>4
<1>5. StepsOK'
  BY <1>4 DEF ArtifactInvariant, StepsOK
<1>6. JobOK'
  BY <1>1 DEF ArtifactInvariant, JobOK, Failed
<1> QED
  BY <1>2, <1>3, <1>5, <1>6

\* A worker or a request moves on, with or without a failure to report, and touches
\* neither the store nor the rows.
LEMMA ArtifactMoveOn ==
    ASSUME ArtifactInvariant, NEW t \in Tasks, NEW n \in Numbers,
           NEW p \in Places, Goto(t, n, p), pc[t][n] # "none",
           pc[t][n] \in {"close", "complete", "fail"} =>
             faults' # 0 \/ p \in {"close", "complete", "fail"} \/ job # "succeeded",
           UNCHANGED <<task, att, job, cancelled, made, list, obj, set, art, lapses>>,
           step' \in [Tasks -> [Numbers -> {"none", "report", "sweep", "write"}]],
           new' \in [Tasks -> [Numbers -> Writes]],
           \A u \in Tasks, m \in Numbers : step'[u][m] # "none" =>
             step'[u][m] = step[u][m] /\ new'[u][m] = new[u][m],
           Reporting(t, n) => step'[t][n] = "none",
           faults' \in 0 .. MaxFaults, faults' = 0 => faults = 0,
           res' \in [Tasks -> [Numbers -> {"none", "success"} \cup FailureClasses]],
           \A u \in Tasks, m \in Numbers :
             (u # t \/ m # n) => res'[u][m] = res[u][m],
           t = Check /\ (p = "run" \/ res'[t][n] = "success") =>
             pc[t][n] = "run" \/ res[t][n] = "success",
           t \in Outputs /\ p = "report" /\ res'[t][n] = "success" => art[t] # None,
           t \in Outputs /\ p \in {"register", "head", "set", "insert", "row", "create"} =>
             made[t][n] # None,
           p \in {"insert", "row"} => set # "none",
           p = "complete" => job = "succeeded",
           p = "fail" => Failed \/ cancelled
    PROVE  ArtifactInvariant'
<1>1. /\ pc' \in [Tasks -> [Numbers -> Places]]
      /\ \A u \in Tasks, m \in Numbers : pc'[u][m] = IF u = t /\ m = n THEN p ELSE pc[u][m]
  BY Moves DEF ArtifactInvariant
<1>2. TypeOK'
  BY <1>1 DEF ArtifactInvariant, TypeOK
<1>3. RegisteredOK'
  <2>1. RegisteredOK /\ Check \in Tasks /\ Check \notin Outputs /\ Outputs \subseteq Tasks
    BY DEF ArtifactInvariant, Tasks
  <2>2. ASSUME NEW o \in Outputs, NEW m \in Numbers
        PROVE  /\ pc'[o][m] \in {"register", "head", "set", "insert", "row", "create"} =>
                    made'[o][m] # None
               /\ pc'[o][m] \in {"insert", "row"} => set' # "none"
               /\ pc'[o][m] = "report" /\ res'[o][m] = "success" => art'[o] # None
    <3>1. CASE o = t /\ m = n
      BY <3>1, <1>1, <2>1
    <3>2. CASE o # t \/ m # n
      <4>1. pc'[o][m] = pc[o][m] /\ res'[o][m] = res[o][m]
        BY <3>2, <1>1, <2>1
      <4> QED
        BY <4>1, <2>1 DEF RegisteredOK
    <3> QED
      BY <3>1, <3>2
  <2>3. ASSUME NEW m \in Numbers,
               pc'[Check][m] = "run" \/ res'[Check][m] = "success"
                 \/ att'[Check][m] = "succeeded"
        PROVE  list'[m] = art' /\ att'[Check][m] # "absent"
    <3>1. pc[Check][m] = "run" \/ res[Check][m] = "success" \/ att[Check][m] = "succeeded"
      BY <1>1, <2>1, <2>3
    <3> QED
      BY <3>1, <2>1 DEF RegisteredOK
  <2> QED
    BY <2>1, <2>2, <2>3 DEF RegisteredOK
<1>4. ClosedSetMatchesJob' /\ SuccessDelivers'
  BY <1>1 DEF ArtifactInvariant, ClosedSetMatchesJob, SuccessDelivers, Failed
<1> QED
  BY <1>2, <1>3, <1>4, StoreKept DEF ArtifactInvariant

\* What a worker or request does between transactions: a result to report, one of
\* Register's reads, an answer, or what the job has become.
LEMMA ArtifactBetween ==
    ASSUME ArtifactInvariant, NEW t \in Tasks, NEW n \in Numbers, NEW p \in Places,
           NEW c \in {"none", "success"} \cup FailureClasses,
           pc[t][n] \notin {"none", "report", "complete", "fail"},
           pc[t][n] = "close" => p \in {"complete", "fail"} \/ job # "succeeded",
           Goto(t, n, p), res' = [res EXCEPT ![t][n] = c],
           t = Check => pc[t][n] = "run" \/ c = res[t][n],
           t = Check => p # "run",
           t \in Outputs /\ p = "report" /\ c = "success" => art[t] # None,
           t \in Outputs /\ p \in {"register", "head", "set", "insert", "row", "create"} =>
             made[t][n] # None,
           p \in {"insert", "row"} => set # "none",
           p = "complete" => job = "succeeded",
           p = "fail" => Failed \/ cancelled,
           UNCHANGED <<store, made, list, obj, set, art, lapses>>,
           faults' \in 0 .. MaxFaults, faults' = 0 => faults = 0
    PROVE  ArtifactInvariant'
<1>1. /\ res' \in [Tasks -> [Numbers -> {"none", "success"} \cup FailureClasses]]
      /\ \A u \in Tasks, m \in Numbers : res'[u][m] = IF u = t /\ m = n THEN c ELSE res[u][m]
  BY Replace DEF ArtifactInvariant, TypeOK
<1>2. /\ UNCHANGED <<task, att, job, cancelled>> /\ step' = step /\ new' = new
      /\ step' \in [Tasks -> [Numbers -> {"none", "report", "sweep", "write"}]]
      /\ new' \in [Tasks -> [Numbers -> Writes]]
  BY DEF store, ArtifactInvariant, TypeOK
<1>3. ~Reporting(t, n)
  BY DEF Reporting, ArtifactInvariant, StepsOK, WriteOK, LeaseOK, EndOK
<1>4. t = Check /\ (p = "run" \/ res'[t][n] = "success") =>
        pc[t][n] = "run" \/ res[t][n] = "success"
  BY <1>1
<1>5. t \in Outputs /\ p = "report" /\ res'[t][n] = "success" => art[t] # None
  BY <1>1
<1>6. \A u \in Tasks, m \in Numbers : (u # t \/ m # n) => res'[u][m] = res[u][m]
  BY <1>1
<1> QED
  BY <1>1, <1>2, <1>3, <1>4, <1>5, <1>6, ArtifactMoveOn

\* An execution that fails, and a validation, have only a result to report; one that
\* is stopped has none.
LEMMA ArtifactExecutionEnds ==
    ASSUME ArtifactInvariant, NEW t \in Tasks, NEW n \in Numbers,
           ExecutionFails(t, n) \/ (t = Check /\ ValidateTask(n)) \/ ExecutionStops(t, n)
    PROVE  ArtifactInvariant'
<1>1. /\ pc[t][n] = "run"
      /\ UNCHANGED <<store, made, list, obj, set, art, faults, lapses>>
  BY DEF ExecutionFails, ValidateTask, ExecutionStops
<1>2. /\ res[t][n] \in {"none", "success"} \cup FailureClasses
      /\ res = [res EXCEPT ![t][n] = res[t][n]]
  BY DEF ArtifactInvariant, TypeOK
<1>3. PICK c \in {"none", "success"} \cup FailureClasses, p \in {"report", "over"} :
        /\ res' = [res EXCEPT ![t][n] = c] /\ Goto(t, n, p)
        /\ t \in Outputs /\ p = "report" => c # "success"
  BY <1>2 DEF ExecutionFails, ValidateTask, ExecutionStops, FailureClasses
<1>4. faults' \in 0 .. MaxFaults /\ faults' = faults /\ p \in Places
  BY <1>1 DEF ArtifactInvariant, TypeOK, Places
<1> QED
  BY <1>1, <1>3, <1>4, ArtifactBetween

\* The reads of Register: what was produced is still there to be registered, and a
\* set that has been found stays.
LEMMA ArtifactBeforeInsert ==
    ASSUME ArtifactInvariant, NEW o \in Outputs, NEW n \in Numbers,
           AuthorizeAttempt(o, n) \/ HeadObject(o, n) \/ CurrentSet(o, n)
             \/ (art[o] = None /\ FindArtifact(o, n))
    PROVE  ArtifactInvariant'
<1>1. PICK p \in {"head", "over", "set", "create", "insert", "row"} :
        Goto(o, n, p) /\ (p \in {"insert", "row"} => set # "none")
  BY DEF AuthorizeAttempt, HeadObject, CurrentSet, FindArtifact, ArtifactInvariant,
         RegisteredOK
<1>2. /\ o \in Tasks /\ o # Check /\ p \in Places /\ made[o][n] # None
      /\ pc[o][n] \notin {"none", "report", "close", "complete", "fail"}
  BY DEF ArtifactInvariant, RegisteredOK, Tasks, Places, AuthorizeAttempt, HeadObject,
         CurrentSet, FindArtifact
<1>3. UNCHANGED <<store, made, list, res, obj, set, art, faults, lapses>>
  BY DEF AuthorizeAttempt, HeadObject, CurrentSet, FindArtifact
<1>4. /\ faults' \in 0 .. MaxFaults /\ faults' = faults
      /\ res[o][n] \in {"none", "success"} \cup FailureClasses
      /\ res' = [res EXCEPT ![o][n] = res[o][n]]
  BY <1>2, <1>3 DEF ArtifactInvariant, TypeOK
<1> QED
  BY <1>1, <1>2, <1>3, <1>4, ArtifactBetween

\* The job is read after the commit; what is read of its end stays true.
LEMMA ArtifactReadJob ==
    ASSUME ArtifactInvariant, NEW t \in Tasks, NEW n \in Numbers, ReadJob(t, n)
    PROVE  ArtifactInvariant'
<1>1. PICK p \in {"complete", "fail", "over"} :
        /\ Goto(t, n, p)
        /\ p = "complete" => job = "succeeded"
        /\ p = "fail" => job \in {"failed", "cancelled"}
        /\ p = "over" => job # "succeeded"
  BY DEF ReadJob
<1>2. p = "fail" => Failed \/ cancelled
  BY <1>1 DEF ArtifactInvariant, JobOK
<1>3. /\ pc[t][n] = "close" /\ p \in Places
      /\ UNCHANGED <<store, made, list, res, obj, set, art, faults, lapses>>
  BY DEF ReadJob, Places
<1>4. /\ faults' \in 0 .. MaxFaults /\ faults' = faults
      /\ res[t][n] \in {"none", "success"} \cup FailureClasses
      /\ res' = [res EXCEPT ![t][n] = res[t][n]]
  BY <1>3 DEF ArtifactInvariant, TypeOK
<1> QED
  BY <1>1, <1>2, <1>3, <1>4, ArtifactBetween

\* A worker or a request that vanishes leaves a failure behind, and its transaction
\* is rolled back.
LEMMA ArtifactVanish ==
    ASSUME ArtifactInvariant, NEW t \in Tasks, NEW n \in Numbers, Vanish(t, n)
    PROVE  ArtifactInvariant'
<1>1. /\ Goto(t, n, "over") /\ "over" \in Places /\ pc[t][n] # "none"
      /\ UNCHANGED <<task, att, job, cancelled, made, list, res, obj, set, art, lapses>>
  BY DEF Vanish, Places
<1>2. faults' \in 0 .. MaxFaults /\ faults' # 0
  BY DEF ArtifactInvariant, TypeOK, Vanish, Fault
<1>3. /\ res' \in [Tasks -> [Numbers -> {"none", "success"} \cup FailureClasses]]
      /\ res' = res
  BY <1>1 DEF ArtifactInvariant, TypeOK
<1>4. /\ step' \in [Tasks -> [Numbers -> {"none", "report", "sweep", "write"}]]
      /\ new' \in [Tasks -> [Numbers -> Writes]]
      /\ \A u \in Tasks, m \in Numbers : step'[u][m] # "none" =>
           step'[u][m] = step[u][m] /\ new'[u][m] = new[u][m]
      /\ Reporting(t, n) => step'[t][n] = "none"
  <2>1. CASE Reporting(t, n)
    BY <2>1, Ends DEF Vanish, ArtifactInvariant
  <2>2. CASE ~Reporting(t, n)
    BY <2>2 DEF Vanish, ArtifactInvariant, TypeOK
  <2> QED
    BY <2>1, <2>2
<1> QED
  BY <1>1, <1>2, <1>3, <1>4, ArtifactMoveOn

\* The object changes, not the rows.
LEMMA ArtifactEncodeTask ==
    ASSUME ArtifactInvariant, NEW o \in Outputs, NEW n \in Numbers, EncodeTask(o, n)
    PROVE  ArtifactInvariant'
<1>1. PICK c \in Contents : made' = [made EXCEPT ![o][n] = c] /\ obj' = [obj EXCEPT ![o] = c]
  BY DEF EncodeTask
<1>2. /\ made' \in [Outputs -> [Numbers -> Contents \cup {None}]]
      /\ \A u \in Outputs, m \in Numbers :
           made'[u][m] = IF u = o /\ m = n THEN c ELSE made[u][m]
  BY <1>1, Replace DEF ArtifactInvariant, TypeOK
<1>3. /\ res' \in [Tasks -> [Numbers -> {"none", "success"} \cup FailureClasses]]
      /\ \A u \in Tasks, m \in Numbers :
           res'[u][m] = IF u = o /\ m = n THEN "success" ELSE res[u][m]
  BY Replace DEF ArtifactInvariant, TypeOK, EncodeTask, Tasks
<1>4. /\ o \in Tasks /\ "register" \in Places /\ Goto(o, n, "register")
      /\ pc[o][n] = "run" /\ Check \in Tasks
  BY DEF Tasks, Places, EncodeTask
<1>5. /\ pc' \in [Tasks -> [Numbers -> Places]]
      /\ \A u \in Tasks, m \in Numbers :
           pc'[u][m] = IF u = o /\ m = n THEN "register" ELSE pc[u][m]
  BY <1>4, Moves DEF ArtifactInvariant
<1>6. /\ UNCHANGED <<task, att, job, cancelled>> /\ step' = step /\ new' = new
      /\ UNCHANGED <<list, set, art, faults, lapses>>
  BY DEF EncodeTask, store
<1>7. TypeOK'
  BY <1>1, <1>2, <1>3, <1>5, <1>6 DEF ArtifactInvariant, TypeOK
<1>8. RegisteredOK'
  <2>1. RegisteredOK /\ c # None /\ Outputs \subseteq Tasks /\ Check \notin Outputs
    BY DEF ArtifactInvariant, Tasks
  <2>2. ASSUME NEW u \in Outputs, NEW m \in Numbers
        PROVE  /\ pc'[u][m] \in {"register", "head", "set", "insert", "row", "create"} =>
                    made'[u][m] # None
               /\ pc'[u][m] \in {"insert", "row"} => set' # "none"
               /\ pc'[u][m] = "report" /\ res'[u][m] = "success" => art'[u] # None
    <3>1. CASE u = o /\ m = n
      BY <3>1, <2>1, <1>2, <1>5
    <3>2. CASE ~(u = o /\ m = n)
      <4>1. made'[u][m] = made[u][m] /\ pc'[u][m] = pc[u][m] /\ res'[u][m] = res[u][m]
        BY <3>2, <2>1, <1>2, <1>3, <1>5
      <4> QED
        BY <4>1, <2>1, <1>6 DEF RegisteredOK
    <3> QED
      BY <3>1, <3>2
  <2>3. \A m \in Numbers : pc'[Check][m] = pc[Check][m] /\ res'[Check][m] = res[Check][m]
    BY <2>1, <1>3, <1>4, <1>5
  <2> QED
    BY <2>1, <2>2, <2>3, <1>6 DEF RegisteredOK
<1>9. ClosedSetMatchesJob' /\ SuccessDelivers'
  BY <1>4, <1>5, <1>6 DEF ArtifactInvariant, ClosedSetMatchesJob, SuccessDelivers,
     Failed
<1>10. ~Reporting(o, n)
  BY <1>4 DEF Reporting, ArtifactInvariant, StepsOK, WriteOK, LeaseOK, EndOK
<1>11. (\A u \in Tasks : AttemptsOK(u)') /\ GateOK' /\ StepsOK' /\ JobOK'
  BY <1>3, <1>4, <1>6, <1>10, StoreKept
<1> QED
  BY <1>7, <1>8, <1>9, <1>11 DEF ArtifactInvariant

\* resolveSpec: the rows that validation is given are final, since every encode has
\* succeeded when it is leased.
LEMMA ArtifactResolveSpec ==
    ASSUME ArtifactInvariant, NEW n \in Numbers, ResolveSpec(n)
    PROVE  ArtifactInvariant'
<1>1. /\ Check \in Tasks /\ Check \notin Outputs /\ "run" \in Places /\ Outputs \subseteq Tasks
      /\ pc[Check][n] = "spec" /\ Goto(Check, n, "run")
      /\ list' = [list EXCEPT ![n] = art] /\ TypeOK /\ RegisteredOK
  BY DEF ResolveSpec, ForJob, Tasks, Places, ArtifactInvariant
<1>2. /\ UNCHANGED <<task, att, job, cancelled>> /\ step' = step /\ new' = new
      /\ UNCHANGED <<made, res, obj, set, art, faults, lapses>>
  BY DEF ResolveSpec, store
<1>3. /\ pc' \in [Tasks -> [Numbers -> Places]]
      /\ \A u \in Tasks, m \in Numbers :
           pc'[u][m] = IF u = Check /\ m = n THEN "run" ELSE pc[u][m]
  BY <1>1, Moves
<1>4. TypeOK'
  BY <1>1, <1>2, <1>3 DEF TypeOK
<1>5. att[Check][n] # "absent"
  BY <1>1 DEF ArtifactInvariant, AttemptsOK
<1>6. RegisteredOK'
  <2>1. \A o \in Outputs, m \in Numbers : pc'[o][m] = pc[o][m]
    BY <1>1, <1>3
  <2>2. ASSUME NEW m \in Numbers,
               pc'[Check][m] = "run" \/ res'[Check][m] = "success"
                 \/ att'[Check][m] = "succeeded"
        PROVE  list'[m] = art' /\ att'[Check][m] # "absent"
    <3>1. CASE m = n
      BY <3>1, <1>1, <1>2, <1>5 DEF TypeOK
    <3>2. CASE m # n
      BY <3>2, <2>2, <1>1, <1>2, <1>3 DEF TypeOK, RegisteredOK
    <3> QED
      BY <3>1, <3>2
  <2> QED
    BY <2>1, <2>2, <1>1, <1>2 DEF RegisteredOK
<1>7. ClosedSetMatchesJob' /\ SuccessDelivers'
  BY <1>1, <1>2, <1>3 DEF ArtifactInvariant, ClosedSetMatchesJob, SuccessDelivers,
     Failed
<1>8. ~Reporting(Check, n)
  BY <1>1 DEF Reporting, ArtifactInvariant, StepsOK, WriteOK, LeaseOK, EndOK
<1>9. (\A u \in Tasks : AttemptsOK(u)') /\ GateOK' /\ StepsOK' /\ JobOK'
  BY <1>1, <1>2, <1>8, StoreKept
<1> QED
  BY <1>4, <1>6, <1>7, <1>9 DEF ArtifactInvariant

\* The tail of handleWorkerComplete: a set that is closed is closed for a reason that
\* still holds, and a job that succeeded has a set to close.
LEMMA ArtifactCloseSet ==
    ASSUME ArtifactInvariant, NEW t \in Tasks, NEW n \in Numbers, CloseSet(t, n)
    PROVE  ArtifactInvariant'
<1>1. /\ UNCHANGED <<task, att, job, cancelled>> /\ step' = step /\ new' = new
      /\ UNCHANGED <<made, list, res, obj, art, faults, lapses>>
      /\ Goto(t, n, "over") /\ "over" \in Places /\ pc[t][n] \in {"complete", "fail"}
  BY DEF CloseSet, Places, store
<1>2. /\ pc' \in [Tasks -> [Numbers -> Places]]
      /\ \A u \in Tasks, m \in Numbers :
           pc'[u][m] = IF u = t /\ m = n THEN "over" ELSE pc[u][m]
  BY <1>1, Moves DEF ArtifactInvariant
<1>3. set' = IF set # "building" THEN set
             ELSE IF pc[t][n] = "complete" THEN "complete" ELSE "failed"
  BY <1>1 DEF CloseSet, MarkComplete, MarkFailed
<1>4. TypeOK'
  BY <1>1, <1>2, <1>3 DEF ArtifactInvariant, TypeOK
<1>5. /\ pc[t][n] = "complete" => job = "succeeded"
      /\ pc[t][n] = "fail" => Failed \/ cancelled
      /\ job = "succeeded" => ~Failed
  BY DEF ArtifactInvariant, JobOK, Failed
<1>6. job = "succeeded" => set # "none" /\ \A o \in Outputs : art[o] # None
  <2>1. Outputs # {} /\ Outputs \subseteq Tasks
    BY DEF Tasks
  <2> QED
    BY <2>1 DEF ArtifactInvariant, JobOK, RegisteredOK
<1>7. ClosedSetMatchesJob'
  BY <1>1, <1>3, <1>5, <1>6 DEF ArtifactInvariant, ClosedSetMatchesJob, Failed
<1>8. SuccessDelivers'
  <2>1. job = "succeeded" => set' = "complete" \/ (cancelled /\ set' = "failed")
    BY <1>1, <1>3, <1>5, <1>6 DEF ArtifactInvariant, ClosedSetMatchesJob, TypeOK
  <2> QED
    BY <2>1, <1>1 DEF SuccessDelivers
<1>9. RegisteredOK'
  <2>1. /\ RegisteredOK /\ Outputs \subseteq Tasks /\ Check \in Tasks
        /\ (set # "none" => set' # "none")
    BY <1>3 DEF ArtifactInvariant, Tasks
  <2>2. ASSUME NEW u \in Outputs, NEW m \in Numbers
        PROVE  /\ pc'[u][m] \in {"register", "head", "set", "insert", "row", "create"} =>
                    made'[u][m] # None
               /\ pc'[u][m] \in {"insert", "row"} => set' # "none"
               /\ pc'[u][m] = "report" /\ res'[u][m] = "success" => art'[u] # None
    BY <2>1, <1>1, <1>2 DEF RegisteredOK
  <2>3. \A m \in Numbers : pc'[Check][m] = "run" => pc[Check][m] = "run"
    BY <2>1, <1>2
  <2> QED
    BY <2>1, <2>2, <2>3, <1>1 DEF RegisteredOK
<1>10. ~Reporting(t, n)
  BY <1>1 DEF Reporting, ArtifactInvariant, StepsOK, WriteOK, LeaseOK, EndOK
<1>11. (\A u \in Tasks : AttemptsOK(u)') /\ GateOK' /\ StepsOK' /\ JobOK'
  BY <1>1, <1>10, StoreKept
<1> QED
  BY <1>4, <1>7, <1>8, <1>9, <1>11 DEF ArtifactInvariant

\* A registration that commits: a row that is there stays, a set that is there too.
LEMMA ArtifactRegisters ==
    ASSUME ArtifactInvariant, NEW o \in Outputs, NEW n \in Numbers,
           pc[o][n] \in {"insert", "row", "create"}, Registered(o, n),
           art' = [art EXCEPT ![o] = IF @ = None THEN made[o][n] ELSE @],
           set' = IF set = "none" THEN "building" ELSE set,
           UNCHANGED <<store, made, list, obj, lapses>>
    PROVE  ArtifactInvariant'
<1>1. PICK c \in {"success", "transient"} : res' = [res EXCEPT ![o][n] = c]
  BY DEF Registered, RegisteredAnswer
<1>2. /\ res' \in [Tasks -> [Numbers -> {"none", "success"} \cup FailureClasses]]
      /\ \A u \in Tasks, m \in Numbers : res'[u][m] = IF u = o /\ m = n THEN c ELSE res[u][m]
  <2>1. c \in {"none", "success"} \cup FailureClasses /\ o \in Tasks
    BY DEF FailureClasses, Tasks
  <2> QED
    BY <2>1, <1>1, Replace DEF ArtifactInvariant, TypeOK
<1>3. /\ o \in Tasks /\ "report" \in Places /\ Goto(o, n, "report")
      /\ Check \in Tasks /\ Check \notin Outputs /\ Outputs \subseteq Tasks
  BY DEF Tasks, Places, Registered, RegisteredAnswer
<1>4. /\ pc' \in [Tasks -> [Numbers -> Places]]
      /\ \A u \in Tasks, m \in Numbers :
           pc'[u][m] = IF u = o /\ m = n THEN "report" ELSE pc[u][m]
  BY <1>3, Moves DEF ArtifactInvariant
<1>5. faults' \in 0 .. MaxFaults /\ (faults' = 0 => faults = 0)
  <2>1. faults' = faults \/ (faults < MaxFaults /\ faults' = faults + 1)
    BY DEF Registered, Fault
  <2>2. faults \in 0 .. MaxFaults
    BY DEF ArtifactInvariant, TypeOK
  <2> QED
    BY <2>1, <2>2
<1>6. /\ UNCHANGED <<task, att, job, cancelled>> /\ step' = step /\ new' = new
      /\ UNCHANGED <<made, list, obj, lapses>>
  BY DEF store
<1>7. /\ art' \in [Outputs -> Contents \cup {None}] /\ art'[o] # None
      /\ \A u \in Outputs : art[u] # None => art'[u] = art[u]
      /\ \A u \in Outputs : art'[u] # None => art[u] # None \/ u = o
  BY DEF ArtifactInvariant, TypeOK, RegisteredOK
<1>8. set' # "none" /\ (set # "none" => set' = set)
      /\ set' \in {"none", "building", "complete", "failed"}
  BY DEF ArtifactInvariant, TypeOK
<1>9. TypeOK'
  BY <1>2, <1>4, <1>5, <1>6, <1>7, <1>8 DEF ArtifactInvariant, TypeOK
<1>10. RegisteredOK'
  <2>1. RegisteredOK
    BY DEF ArtifactInvariant
  <2>2. ASSUME NEW u \in Outputs, NEW m \in Numbers
        PROVE  /\ pc'[u][m] \in {"register", "head", "set", "insert", "row", "create"} =>
                    made'[u][m] # None
               /\ pc'[u][m] \in {"insert", "row"} => set' # "none"
               /\ pc'[u][m] = "report" /\ res'[u][m] = "success" => art'[u] # None
    <3>1. CASE u = o /\ m = n
      BY <3>1, <1>3, <1>4, <1>7
    <3>2. CASE ~(u = o /\ m = n)
      <4>1. made'[u][m] = made[u][m] /\ pc'[u][m] = pc[u][m] /\ res'[u][m] = res[u][m]
        BY <3>2, <1>2, <1>3, <1>4, <1>6
      <4> QED
        BY <4>1, <2>1, <1>7, <1>8 DEF RegisteredOK
    <3> QED
      BY <3>1, <3>2
  <2>3. ASSUME NEW m \in Numbers,
               pc'[Check][m] = "run" \/ res'[Check][m] = "success"
                 \/ att'[Check][m] = "succeeded"
        PROVE  list'[m] = art' /\ att'[Check][m] # "absent"
    <3>1. list[m] = art /\ att[Check][m] # "absent"
      BY <2>1, <2>3, <1>2, <1>3, <1>4, <1>6 DEF RegisteredOK
    <3>2. \A u \in Outputs : art[u] # None
      BY <3>1, <2>1 DEF ArtifactInvariant, GateOK, RegisteredOK
    <3>3. art' = art
      BY <3>2, <1>7 DEF ArtifactInvariant, TypeOK
    <3> QED
      BY <3>1, <3>3, <1>6
  <2> QED
    BY <2>1, <2>2, <2>3, <1>6, <1>7, <1>8 DEF RegisteredOK
<1>11. ClosedSetMatchesJob'
  BY <1>6, <1>7, <1>8 DEF ArtifactInvariant, ClosedSetMatchesJob, Failed
<1>12. SuccessDelivers'
  <2>1. job = "succeeded" => set # "none"
    BY <1>3 DEF ArtifactInvariant, JobOK, RegisteredOK
  <2>2. \A u \in Tasks, m \in Numbers :
          pc[u][m] \in {"close", "complete", "fail"} => pc'[u][m] = pc[u][m]
    BY <1>3, <1>4
  <2> QED
    BY <2>1, <2>2, <1>5, <1>6, <1>8 DEF ArtifactInvariant, SuccessDelivers
<1>13. ~Reporting(o, n)
  BY <1>3 DEF Reporting, ArtifactInvariant, StepsOK, WriteOK, LeaseOK, EndOK
<1>14. (\A u \in Tasks : AttemptsOK(u)') /\ GateOK' /\ StepsOK' /\ JobOK'
  BY <1>2, <1>3, <1>6, <1>13, StoreKept
<1> QED
  BY <1>9, <1>10, <1>11, <1>12, <1>14 DEF ArtifactInvariant

\* A registration that another one has overtaken, of the set or of the row, is an
\* error the worker reports.
LEMMA ArtifactRefused ==
    ASSUME ArtifactInvariant, NEW o \in Outputs, NEW n \in Numbers,
           pc[o][n] \in {"row", "create"}, RegisteredAnswer(o, n, FALSE),
           UNCHANGED <<store, made, list, obj, set, art, faults, lapses>>
    PROVE  ArtifactInvariant'
<1>1. /\ o \in Tasks /\ o # Check /\ "report" \in Places /\ Goto(o, n, "report")
      /\ "transient" \in {"none", "success"} \cup FailureClasses
      /\ res' = [res EXCEPT ![o][n] = "transient"]
  BY DEF Tasks, Places, FailureClasses, RegisteredAnswer
<1>2. faults' \in 0 .. MaxFaults /\ faults' = faults
  BY DEF ArtifactInvariant, TypeOK
<1> QED
  BY <1>1, <1>2, ArtifactBetween

\* Register's transaction.
LEMMA ArtifactInsert ==
    ASSUME ArtifactInvariant, NEW o \in Outputs, NEW n \in Numbers,
           FindArtifact(o, n) \/ InsertArtifact(o, n) \/ CreateSet(o, n)
    PROVE  ArtifactInvariant'
<1>1. CASE FindArtifact(o, n) /\ art[o] # None
  <2>1. /\ art' = [art EXCEPT ![o] = IF @ = None THEN made[o][n] ELSE @]
        /\ set' = IF set = "none" THEN "building" ELSE set
    BY <1>1 DEF FindArtifact, ArtifactInvariant, TypeOK, RegisteredOK
  <2> QED
    BY <2>1, <1>1, ArtifactRegisters DEF FindArtifact
<1>2. CASE InsertArtifact(o, n) /\ art[o] = None
  <2>1. /\ art' = [art EXCEPT ![o] = IF @ = None THEN made[o][n] ELSE @]
        /\ set' = IF set = "none" THEN "building" ELSE set
    BY <1>2 DEF InsertArtifact, ArtifactInvariant, TypeOK, RegisteredOK
  <2> QED
    BY <2>1, <1>2, ArtifactRegisters DEF InsertArtifact
<1>3. CASE CreateSet(o, n) /\ set = "none"
  <2>1. art[o] = None
    BY <1>3 DEF ArtifactInvariant, RegisteredOK
  <2>2. art' = [art EXCEPT ![o] = IF @ = None THEN made[o][n] ELSE @]
    BY <2>1, <1>3 DEF CreateSet, ArtifactInvariant, TypeOK
  <2> QED
    BY <2>2, <1>3, ArtifactRegisters DEF CreateSet
<1>4. CASE InsertArtifact(o, n) /\ art[o] # None
  BY <1>4, ArtifactRefused DEF InsertArtifact
<1>5. CASE CreateSet(o, n) /\ set # "none"
  BY <1>5, ArtifactRefused DEF CreateSet
<1> QED
  BY <1>1, <1>2, <1>3, <1>4, <1>5, ArtifactBeforeInsert

----------------------------------------------------------------------------
(* Transactions that have not committed *)

\* A step that leaves every row, worker and result alone, and changes no transaction
\* but the one on attempt n of t.
LEMMA TablesKept ==
    ASSUME ArtifactInvariant, NEW t \in Tasks, NEW n \in Numbers,
           UNCHANGED <<task, att, job, cancelled, pc, made, list, res, obj, set, art, faults>>,
           lapses' \in 0 .. MaxLapses,
           step' \in [Tasks -> [Numbers -> {"none", "report", "sweep", "write"}]],
           new' \in [Tasks -> [Numbers -> Writes]],
           \A u \in Tasks, m \in Numbers :
             (u # t \/ m # n) => step'[u][m] = step[u][m] /\ new'[u][m] = new[u][m],
           step'[t][n] \in {"report", "sweep"} => Open(t, n),
           step'[t][n] = "report" => pc[t][n] = "report",
           step'[t][n] = "write" => ~Locked(t) /\ WriteOK(t, n)'
    PROVE  ArtifactInvariant'
<1>1. TypeOK' /\ ClosedSetMatchesJob' /\ SuccessDelivers'
  BY DEF ArtifactInvariant, TypeOK, ClosedSetMatchesJob, SuccessDelivers, Failed
<1>2. (\A u \in Tasks : AttemptsOK(u)') /\ GateOK' /\ JobOK' /\ RegisteredOK'
  BY DEF ArtifactInvariant, AttemptsOK, Open, GateOK, JobOK, Failed, RegisteredOK
<1>3. ASSUME NEW u \in Tasks, NEW m \in Numbers
      PROVE  /\ step'[u][m] \in {"report", "sweep"} => Open(u, m)'
             /\ step'[u][m] = "report" => pc'[u][m] = "report"
             /\ step'[u][m] = "write" => WriteOK(u, m)'
  <2>1. CASE u = t /\ m = n
    BY <2>1 DEF Open
  <2>2. CASE u # t \/ m # n
    <3>1. /\ step'[u][m] = step[u][m] /\ new'[u][m] = new[u][m]
          /\ step[u][m] \in {"report", "sweep"} => Open(u, m)
          /\ step[u][m] = "report" => pc[u][m] = "report"
          /\ step[u][m] = "write" => WriteOK(u, m)
      BY <2>2 DEF ArtifactInvariant, StepsOK
    <3>2. WriteOK(u, m) => WriteOK(u, m)'
      BY <3>1 DEF WriteOK, LeaseOK, EndOK, Open, Failed
    <3> QED
      BY <3>1, <3>2 DEF Open
  <2> QED
    BY <2>1, <2>2
<1>4. ASSUME NEW u \in Tasks, NEW k \in Numbers, NEW m \in Numbers,
             step'[u][k] = "write", step'[u][m] = "write"
      PROVE  k = m
  <2>1. step'[t][n] = "write" => \A x \in Numbers : step[t][x] # "write"
    BY DEF Locked
  <2>2. \A x, y \in Numbers : step[u][x] = "write" /\ step[u][y] = "write" => x = y
    BY DEF ArtifactInvariant, StepsOK
  <2>3. CASE u = t /\ k = n
    BY <2>1, <2>3, <1>4
  <2>4. CASE u = t /\ m = n
    BY <2>1, <2>4, <1>4
  <2>5. CASE u # t \/ (k # n /\ m # n)
    BY <2>2, <2>5, <1>4
  <2> QED
    BY <2>3, <2>4, <2>5
<1>5. StepsOK'
  BY <1>3, <1>4 DEF StepsOK
<1> QED
  BY <1>1, <1>2, <1>5 DEF ArtifactInvariant

\* A transaction writes its task and counts: what it has counted claims no end of the
\* job that is not there, and success only when validation succeeds.
LEMMA ArtifactWrite ==
    ASSUME ArtifactInvariant, NEW t \in Tasks, NEW n \in Numbers,
           NEW s \in {"running", "succeeded", "failed", "queued"}, NEW a \in AttemptStates,
           Write(t, n, s, a),
           UNCHANGED <<task, att, job, cancelled, pc, made, list, res, obj, set, art, faults,
                       lapses>>,
           new'[t][n].task = s /\ new'[t][n].att = a => LeaseOK(t, n)' \/ EndOK(t, n)',
           s = "succeeded" => task[t].state = "running",
           s # "running" => Open(t, n)
    PROVE  ArtifactInvariant'
<1> DEFINE view == [u \in Tasks |-> IF u = t THEN s ELSE task[u].state]
           ready == /\ s = "succeeded" /\ view[Check] = "pending"
                    /\ \A o \in Outputs : view[o] = "succeeded"
           after == IF ready THEN [view EXCEPT ![Check] = "queued"] ELSE view
           w == [task |-> s, att |-> a, job |-> Derive(after, Tasks), release |-> ready]
<1>1. ~Locked(t) /\ step' = [step EXCEPT ![t][n] = "write"] /\ new' = [new EXCEPT ![t][n] = w]
  BY DEF Write
<1>2. /\ Check \in Tasks /\ Check \notin Outputs /\ Tasks = Outputs \cup {Check}
      /\ TypeOK /\ GateOK /\ JobOK /\ AttemptsOK(t)
      /\ s \in TaskStates /\ "queued" \in TaskStates
  BY DEF Tasks, ArtifactInvariant, TaskStates
<1>3. view \in [Tasks -> TaskStates] /\ after \in [Tasks -> TaskStates]
  <2>1. view \in [Tasks -> TaskStates]
    BY <1>2 DEF TypeOK
  <2>2. [view EXCEPT ![Check] = "queued"] \in [Tasks -> TaskStates]
    BY <2>1, <1>2
  <2> QED
    BY <2>1, <2>2
<1>4. /\ \A u \in Tasks : view[u] = IF u = t THEN s ELSE task[u].state
      /\ \A u \in Tasks : after[u] = IF ready /\ u = Check THEN "queued" ELSE view[u]
  BY <1>2, <1>3
<1>5. ready \in BOOLEAN
  OBVIOUS
<1>6. ready => /\ t \in Outputs /\ task[Check].state = "pending"
               /\ \A o \in Outputs \ {t} : task[o].state = "succeeded"
  BY <1>2, <1>4
<1>7. ready => s = "succeeded"
  OBVIOUS
<1> HIDE DEF ready, view, after
<1>8. /\ Derive(after, Tasks) \in JobStates
      /\ Derive(after, Tasks) = "succeeded" <=> \A u \in Tasks : after[u] = "succeeded"
      /\ Derive(after, Tasks) = "failed" => \E u \in Tasks : after[u] = "failed"
      /\ Derive(after, Tasks) = "cancelled" => \E u \in Tasks : after[u] = "cancelled"
  BY <1>3, DeriveMeans
<1>9. w \in Writes
  BY <1>2, <1>5, <1>8 DEF Writes
<1>10. /\ step' \in [Tasks -> [Numbers -> {"none", "report", "sweep", "write"}]]
       /\ \A u \in Tasks, m \in Numbers :
            step'[u][m] = IF u = t /\ m = n THEN "write" ELSE step[u][m]
  BY <1>1, <1>2, Replace DEF TypeOK
<1>11. /\ new' \in [Tasks -> [Numbers -> Writes]]
       /\ \A u \in Tasks, m \in Numbers :
            new'[u][m] = IF u = t /\ m = n THEN w ELSE new[u][m]
  BY <1>1, <1>2, <1>9, Replace DEF TypeOK
<1>12. Open(t, n) => n = task[t].count /\ task[t].state \in {"running", "cancelled"}
  BY <1>2 DEF AttemptsOK
<1>13. t = Check /\ s = "succeeded" => Derive(after, Tasks) = "succeeded"
  <2> SUFFICES ASSUME t = Check, s = "succeeded" PROVE Derive(after, Tasks) = "succeeded"
    OBVIOUS
  <2>1. ~ready
    BY <1>2, <1>6
  <2>2. \A o \in Outputs : task[o].state = "succeeded"
    BY <1>2 DEF GateOK
  <2> QED
    BY <2>1, <2>2, <1>2, <1>4, <1>8
<1>14. Derive(after, Tasks) = "succeeded" => t = Check /\ s = "succeeded"
  <2> SUFFICES ASSUME Derive(after, Tasks) = "succeeded" PROVE t = Check /\ s = "succeeded"
    OBVIOUS
  <2>1. ~ready /\ \A u \in Tasks : view[u] = "succeeded"
    BY <1>2, <1>4, <1>8
  <2>2. s = "succeeded"
    BY <2>1, <1>4
  <2>3. t # Check => task[Check].state = "succeeded"
    BY <2>1, <1>2, <1>4
  <2>4. t # Check => task[t].state = "succeeded"
    BY <2>3, <1>2 DEF GateOK
  <2> QED
    BY <2>2, <2>4
<1>15. Derive(after, Tasks) = "failed" => Failed \/ s = "failed"
  BY <1>4, <1>8 DEF Failed
<1>16. Derive(after, Tasks) = "cancelled" => cancelled
  BY <1>2, <1>4, <1>8 DEF JobOK
<1>17. WriteOK(t, n)'
  <2>1. w.task = s /\ w.att = a /\ w.job = Derive(after, Tasks) /\ w.release = ready
    OBVIOUS
  <2> HIDE DEF w
  <2>2. new'[t][n] = w /\ (LeaseOK(t, n) \/ EndOK(t, n))'
    BY <1>11, <2>1
  <2> QED
    BY <2>1, <2>2, <1>6, <1>7, <1>13, <1>14, <1>15, <1>16 DEF WriteOK, Failed
<1>18. lapses' \in 0 .. MaxLapses
  BY <1>2 DEF TypeOK
<1> QED
  BY <1>1, <1>10, <1>11, <1>17, <1>18, TablesKept

\* A transaction ends without having committed.
LEMMA ArtifactGivenUp ==
    ASSUME ArtifactInvariant, NEW t \in Tasks, NEW n \in Numbers, EndTransaction(t, n),
           UNCHANGED <<task, att, job, cancelled, pc, made, list, res, obj, set, art, faults,
                       lapses>>
    PROVE  ArtifactInvariant'
<1>1. TypeOK /\ lapses' \in 0 .. MaxLapses
  BY DEF ArtifactInvariant, TypeOK
<1>2. /\ step' \in [Tasks -> [Numbers -> {"none", "report", "sweep", "write"}]]
      /\ new' \in [Tasks -> [Numbers -> Writes]]
      /\ \A u \in Tasks, m \in Numbers :
           /\ step'[u][m] = IF u = t /\ m = n THEN "none" ELSE step[u][m]
           /\ new'[u][m] = IF u = t /\ m = n THEN NoWrite ELSE new[u][m]
  BY <1>1, Ends
<1>3. /\ step'[t][n] = "none"
      /\ \A u \in Tasks, m \in Numbers :
           (u # t \/ m # n) => step'[u][m] = step[u][m] /\ new'[u][m] = new[u][m]
  BY <1>2
<1> QED
  BY <1>1, <1>2, <1>3, TablesKept

\* Lease writes the next attempt of a queued task.
LEMMA ArtifactLease ==
    ASSUME ArtifactInvariant, NEW t \in Tasks, Lease(t)
    PROVE  ArtifactInvariant'
<1>1. PICK n \in Numbers : n = task[t].count + 1
  <2>1. task[t].count \in 0 .. MaxAttempts /\ task[t].count < MaxAttempts
    BY DEF Lease, ArtifactInvariant, TypeOK, AttemptsOK
  <2> QED
    BY <2>1 DEF Numbers
<1>2. /\ task[t].state = "queued" /\ Write(t, n, "running", "running")
      /\ UNCHANGED <<task, att, job, cancelled, pc, made, list, res, obj, set, art, faults,
                     lapses>>
  BY <1>1 DEF Lease
<1>3. new'[t][n].task = "running" /\ new'[t][n].att = "running" =>
        LeaseOK(t, n)' \/ EndOK(t, n)'
  BY <1>1, <1>2 DEF LeaseOK
<1>4. "running" \in {"running", "succeeded", "failed", "queued"} /\ "running" \in AttemptStates
  BY DEF AttemptStates
<1> QED
  BY <1>2, <1>3, <1>4, ArtifactWrite

\* A sweep writes a task that its worker has lost, whatever has become of it.
LEMMA ArtifactRequeue ==
    ASSUME ArtifactInvariant, NEW t \in Tasks, NEW n \in Numbers, Requeue(t, n)
    PROVE  ArtifactInvariant'
<1> DEFINE s == IF task[t].count < MaxAttempts THEN "queued" ELSE "failed"
<1>1. /\ step[t][n] = "sweep" /\ Write(t, n, s, "expired")
      /\ UNCHANGED <<task, att, job, cancelled, pc, made, list, res, obj, set, art, faults,
                     lapses>>
  BY DEF Requeue
<1>2. Open(t, n) /\ "expired" \in AttemptStates
  BY <1>1 DEF ArtifactInvariant, StepsOK, AttemptStates
<1>3. s \in {"queued", "failed"} /\ (s = "queued" => task[t].count < MaxAttempts)
  OBVIOUS
<1> HIDE DEF s
<1>4. new'[t][n].task = s /\ new'[t][n].att = "expired" => EndOK(t, n)'
  BY <1>1, <1>2, <1>3 DEF EndOK, Open
<1> QED
  BY <1>1, <1>2, <1>3, <1>4, ArtifactWrite

\* The rest of Complete writes the task, or gives up on one that has been cancelled.
LEMMA ArtifactFinishTask ==
    ASSUME ArtifactInvariant, NEW t \in Tasks, NEW n \in Numbers, FinishTask(t, n)
    PROVE  ArtifactInvariant'
<1>1. /\ step[t][n] = "report"
      /\ UNCHANGED <<task, att, job, cancelled, pc, made, list, res, obj, set, art, faults,
                     lapses>>
  BY DEF FinishTask
<1>2. Open(t, n) /\ pc[t][n] = "report" /\ {"succeeded", "failed"} \subseteq AttemptStates
  BY <1>1 DEF ArtifactInvariant, StepsOK, AttemptStates
<1>3. CASE EndTransaction(t, n)
  BY <1>1, <1>3, ArtifactGivenUp
<1>4. CASE /\ res[t][n] = "success" /\ CanTransitionTask(task[t].state, "succeeded")
           /\ Write(t, n, "succeeded", "succeeded")
  <2>1. task[t].state = "running"
    BY <1>4 DEF CanTransitionTask, LegalTaskTransitions
  <2>2. new'[t][n].task = "succeeded" /\ new'[t][n].att = "succeeded" => EndOK(t, n)'
    BY <1>1, <1>2, <1>4, <2>1 DEF EndOK, Open
  <2> QED
    BY <1>1, <1>2, <1>4, <2>1, <2>2, ArtifactWrite
<1>5. CASE res[t][n] # "success" /\ Write(t, n, AfterReport(t, n), "failed")
  <2> DEFINE s == AfterReport(t, n)
  <2>1. s \in {"queued", "failed"} /\ (s = "queued" => task[t].count < MaxAttempts)
    BY DEF AfterReport, Retrying
  <2>2. Write(t, n, s, "failed")
    BY <1>5
  <2> HIDE DEF s
  <2>3. new'[t][n].task = s /\ new'[t][n].att = "failed" => EndOK(t, n)'
    BY <1>1, <1>2, <2>1 DEF EndOK, Open
  <2> QED
    BY <1>1, <1>2, <2>1, <2>2, <2>3, ArtifactWrite
<1> QED
  BY <1>3, <1>4, <1>5 DEF FinishTask

\* A transaction that is rolled back leaves nothing.
LEMMA ArtifactRollback ==
    ASSUME ArtifactInvariant, NEW t \in Tasks, NEW n \in Numbers, Rollback(t, n)
    PROVE  ArtifactInvariant'
BY ArtifactGivenUp DEF Rollback

----------------------------------------------------------------------------
(* Rows of the store *)

\* The open attempt of a cancelled task is closed, by a sweep or by its worker's
\* report, and nothing else of the store changes.
LEMMA ArtifactAttemptEnds ==
    ASSUME ArtifactInvariant, NEW t \in Tasks, NEW n \in Numbers,
           NEW a \in {"expired", "cancelled"}, NEW p \in Places,
           Open(t, n), task[t].state = "cancelled", step[t][n] = "none",
           att' = [att EXCEPT ![t][n] = a],
           UNCHANGED <<task, job, step, new, cancelled, made, list, res, obj, set, art,
                       faults>>,
           lapses' \in 0 .. MaxLapses,
           Goto(t, n, p), p \in {pc[t][n], "close"}
    PROVE  ArtifactInvariant'
<1>1. /\ att' \in [Tasks -> [Numbers -> AttemptStates]]
      /\ \A u \in Tasks, m \in Numbers : att'[u][m] = IF u = t /\ m = n THEN a ELSE att[u][m]
  <2>1. a \in AttemptStates
    BY DEF AttemptStates
  <2> QED
    BY <2>1, Replace DEF ArtifactInvariant, TypeOK
<1>2. /\ pc' \in [Tasks -> [Numbers -> Places]]
      /\ \A u \in Tasks, m \in Numbers : pc'[u][m] = IF u = t /\ m = n THEN p ELSE pc[u][m]
  BY Moves DEF ArtifactInvariant
<1>3. TypeOK'
  BY <1>1, <1>2 DEF ArtifactInvariant, TypeOK
<1>4. att[t][n] # "absent" /\ Check \in Tasks /\ Outputs \subseteq Tasks /\ Check \notin Outputs
  BY DEF Open, Live, Tasks
<1>5. ASSUME NEW u \in Tasks PROVE AttemptsOK(u)'
  <2>1. AttemptsOK(u)
    BY DEF ArtifactInvariant
  <2>2. CASE u = t
    BY <2>1, <2>2, <1>1, <1>2 DEF AttemptsOK, Open, Live
  <2>3. CASE u # t
    BY <2>1, <2>3, <1>1, <1>2 DEF AttemptsOK, Open
  <2> QED
    BY <2>2, <2>3
<1>6. GateOK'
  BY <1>1, <1>4 DEF ArtifactInvariant, GateOK
<1>7. ASSUME NEW u \in Tasks, NEW m \in Numbers, step[u][m] # "none"
      PROVE  /\ Open(u, m)' <=> Open(u, m)
             /\ pc'[u][m] = pc[u][m]
  BY <1>1, <1>2, <1>7 DEF Open
<1>8. StepsOK'
  <2>1. ASSUME NEW u \in Tasks, NEW m \in Numbers, step[u][m] = "write"
        PROVE  WriteOK(u, m)'
    <3>1. WriteOK(u, m) /\ (Open(u, m)' <=> Open(u, m)) /\ pc'[u][m] = pc[u][m]
      BY <2>1, <1>7 DEF ArtifactInvariant, StepsOK
    <3>2. LeaseOK(u, m) => LeaseOK(u, m)'
      BY DEF LeaseOK
    <3>3. EndOK(u, m) => EndOK(u, m)'
      BY <3>1 DEF EndOK
    <3> QED
      BY <3>1, <3>2, <3>3 DEF WriteOK, Failed
  <2>2. StepsOK
    BY DEF ArtifactInvariant
  <2>3. \A u \in Tasks, m \in Numbers :
          /\ step'[u][m] \in {"report", "sweep"} => Open(u, m)'
          /\ step'[u][m] = "report" => pc'[u][m] = "report"
    BY <2>2, <1>7 DEF StepsOK
  <2> QED
    BY <2>1, <2>2, <2>3 DEF StepsOK
<1>9. JobOK'
  BY <1>2 DEF ArtifactInvariant, JobOK, Failed
<1>10. RegisteredOK'
  <2>1. RegisteredOK
    BY DEF ArtifactInvariant
  <2>2. ASSUME NEW o \in Outputs, NEW m \in Numbers
        PROVE  /\ pc'[o][m] \in {"register", "head", "set", "insert", "row", "create"} =>
                    made'[o][m] # None
               /\ pc'[o][m] \in {"insert", "row"} => set' # "none"
               /\ pc'[o][m] = "report" /\ res'[o][m] = "success" => art'[o] # None
    <3>1. pc'[o][m] \in {pc[o][m], "close"}
      BY <1>2, <1>4
    <3> QED
      BY <3>1, <2>1 DEF RegisteredOK
  <2>3. ASSUME NEW m \in Numbers,
               pc'[Check][m] = "run" \/ res'[Check][m] = "success"
                 \/ att'[Check][m] = "succeeded"
        PROVE  list'[m] = art' /\ att'[Check][m] # "absent"
    <3>1. pc[Check][m] = "run" \/ res[Check][m] = "success" \/ att[Check][m] = "succeeded"
      BY <2>3, <1>1, <1>2, <1>4
    <3>2. att[Check][m] # "absent" => att'[Check][m] # "absent"
      BY <1>1, <1>4
    <3> QED
      BY <3>1, <3>2, <2>1 DEF RegisteredOK
  <2> QED
    BY <2>1, <2>2, <2>3 DEF RegisteredOK
<1>11. ClosedSetMatchesJob' /\ SuccessDelivers'
  <2>1. job # "succeeded"
    BY DEF ArtifactInvariant, JobOK
  <2> QED
    BY <2>1 DEF ArtifactInvariant, ClosedSetMatchesJob, SuccessDelivers, Failed
<1> QED
  BY <1>3, <1>5, <1>6, <1>8, <1>9, <1>10, <1>11 DEF ArtifactInvariant

\* ExpireLeases' select: an open attempt of a task that is over belongs to a
\* cancelled one.
LEMMA ArtifactExpire ==
    ASSUME ArtifactInvariant, NEW t \in Tasks, NEW n \in Numbers, Expire(t, n)
    PROVE  ArtifactInvariant'
<1>1. /\ step[t][n] = "none" /\ Open(t, n) /\ AttemptsOK(t)
      /\ UNCHANGED <<task, job, new, cancelled, pc, made, list, res, obj, set, art, faults>>
  BY DEF Expire, LeaseRunsOut, ArtifactInvariant
<1>2. lapses' \in 0 .. MaxLapses
  <2>1. lapses \in 0 .. MaxLapses
    BY DEF ArtifactInvariant, TypeOK
  <2>2. lapses' = lapses \/ (lapses < MaxLapses /\ lapses' = lapses + 1)
    BY DEF Expire, LeaseRunsOut
  <2> QED
    BY <2>1, <2>2
<1>3. CASE task[t].state \in TaskTerminal
  <2>1. /\ task[t].state = "cancelled" /\ att' = [att EXCEPT ![t][n] = "expired"]
        /\ UNCHANGED step
    BY <1>1, <1>3 DEF AttemptsOK, TaskTerminal, Expire
  <2>2. pc[t][n] \in Places /\ Goto(t, n, pc[t][n])
    BY <1>1 DEF ArtifactInvariant, TypeOK, Goto
  <2> QED
    BY <1>1, <1>2, <2>1, <2>2, ArtifactAttemptEnds
<1>4. CASE task[t].state \notin TaskTerminal
  <2>1. step' = [step EXCEPT ![t][n] = "sweep"] /\ UNCHANGED att
    BY <1>4 DEF Expire
  <2>2. /\ step' \in [Tasks -> [Numbers -> {"none", "report", "sweep", "write"}]]
        /\ \A u \in Tasks, m \in Numbers :
             step'[u][m] = IF u = t /\ m = n THEN "sweep" ELSE step[u][m]
    BY <2>1, Replace DEF ArtifactInvariant, TypeOK
  <2>3. new' \in [Tasks -> [Numbers -> Writes]]
    BY <1>1 DEF ArtifactInvariant, TypeOK
  <2> QED
    BY <1>1, <1>2, <2>1, <2>2, <2>3, TablesKept
<1> QED
  BY <1>3, <1>4

\* Complete's withAttempt.
LEMMA ArtifactComplete ==
    ASSUME ArtifactInvariant, NEW t \in Tasks, NEW n \in Numbers, Complete(t, n)
    PROVE  ArtifactInvariant'
<1>1. /\ pc[t][n] = "report" /\ step[t][n] = "none"
      /\ UNCHANGED <<task, job, new, cancelled, made, list, res, obj, set, art, faults,
                     lapses>>
      /\ "over" \in Places /\ "close" \in Places
  BY DEF Complete, Places
<1>2. /\ lapses' \in 0 .. MaxLapses /\ faults' \in 0 .. MaxFaults
      /\ new' \in [Tasks -> [Numbers -> Writes]]
      /\ step \in [Tasks -> [Numbers -> {"none", "report", "sweep", "write"}]]
      /\ res' \in [Tasks -> [Numbers -> {"none", "success"} \cup FailureClasses]]
  BY <1>1 DEF ArtifactInvariant, TypeOK
<1>3. CASE ~Open(t, n) /\ Goto(t, n, "over") /\ UNCHANGED <<att, step>>
  <2>1. ~Reporting(t, n)
    BY <1>1 DEF Reporting
  <2> QED
    BY <1>1, <1>2, <1>3, <2>1, ArtifactMoveOn
<1>4. CASE /\ Open(t, n) /\ task[t].state = "cancelled"
           /\ att' = [att EXCEPT ![t][n] = "cancelled"]
           /\ Goto(t, n, "close") /\ UNCHANGED step
  BY <1>1, <1>2, <1>4, ArtifactAttemptEnds
<1>5. CASE /\ Open(t, n) /\ step' = [step EXCEPT ![t][n] = "report"]
           /\ UNCHANGED <<att, pc>>
  <2>1. /\ step' \in [Tasks -> [Numbers -> {"none", "report", "sweep", "write"}]]
        /\ \A u \in Tasks, m \in Numbers :
             step'[u][m] = IF u = t /\ m = n THEN "report" ELSE step[u][m]
    BY <1>2, <1>5, Replace
  <2> QED
    BY <1>1, <1>2, <1>5, <2>1, TablesKept
<1> QED
  BY <1>3, <1>4, <1>5 DEF Complete

\* The commit of a lease, or of the end of an attempt: the task and the attempt change
\* together, the job takes what was counted, and no other transaction on an attempt
\* is disturbed.
LEMMA ArtifactCommit ==
    ASSUME ArtifactInvariant, NEW t \in Tasks, NEW n \in Numbers, Commit(t, n)
    PROVE  ArtifactInvariant'
<1> DEFINE w == new[t][n]
           p == CASE w.att = "running" -> IF t = Check THEN "spec" ELSE "run"
                  [] w.att = "expired" -> pc[t][n]
                  [] OTHER -> "close"
<1>1. /\ TypeOK /\ GateOK /\ StepsOK /\ JobOK /\ RegisteredOK
      /\ \A u \in Tasks : AttemptsOK(u)
      /\ ClosedSetMatchesJob
      /\ Check \in Tasks /\ Check \notin Outputs /\ Outputs \subseteq Tasks
  BY DEF ArtifactInvariant, Tasks
<1>2. /\ step[t][n] = "write" /\ att' = [att EXCEPT ![t][n] = w.att] /\ job' = w.job
      /\ Goto(t, n, p) /\ EndTransaction(t, n)
      /\ UNCHANGED <<cancelled, made, list, res, obj, set, art, faults, lapses>>
  BY DEF Commit
<1>3. w \in Writes /\ WriteOK(t, n) /\ n \in 1 .. MaxAttempts
  BY <1>1, <1>2 DEF TypeOK, StepsOK, Numbers
<1>4. /\ w.task \in {"running", "succeeded", "failed", "queued"}
      /\ w.att \in {"running", "succeeded", "failed", "expired"}
      /\ w.att = "running" <=> w.task = "running"
      /\ w.att = "succeeded" <=> w.task = "succeeded"
      /\ w.att = "running" => task[t].state = "queued" /\ n = task[t].count + 1
      /\ w.att # "running" => Open(t, n)
      /\ w.task = "queued" => task[t].count < MaxAttempts
      /\ w.task = "succeeded" => /\ task[t].state = "running" /\ res[t][n] = "success"
                                 /\ pc[t][n] = "report"
  BY <1>3 DEF WriteOK, LeaseOK, EndOK
<1>5. task[t].state \in {"queued", "running", "cancelled"}
  BY <1>1, <1>4 DEF AttemptsOK
<1>6. p \in Places /\ (p = pc[t][n] \/ p \in {"spec", "run", "close"})
      /\ (w.att = "succeeded" => p = "close") /\ (t = Check /\ p = "run" => pc[t][n] = "run")
  <2>1. pc[t][n] \in Places
    BY <1>1 DEF TypeOK
  <2> QED
    BY <2>1, <1>4 DEF Places
<1> HIDE DEF p
<1>7. /\ pc' \in [Tasks -> [Numbers -> Places]]
      /\ \A u \in Tasks, m \in Numbers : pc'[u][m] = IF u = t /\ m = n THEN p ELSE pc[u][m]
  BY <1>1, <1>2, <1>6, Moves
<1>8. /\ att' \in [Tasks -> [Numbers -> AttemptStates]]
      /\ \A u \in Tasks, m \in Numbers :
           att'[u][m] = IF u = t /\ m = n THEN w.att ELSE att[u][m]
  <2>1. w.att \in AttemptStates
    BY <1>3 DEF Writes
  <2> QED
    BY <2>1, <1>1, <1>2, Replace DEF TypeOK
<1>9. /\ step' \in [Tasks -> [Numbers -> {"none", "report", "sweep", "write"}]]
      /\ new' \in [Tasks -> [Numbers -> Writes]]
      /\ \A u \in Tasks, m \in Numbers :
           /\ step'[u][m] = IF u = t /\ m = n THEN "none" ELSE step[u][m]
           /\ new'[u][m] = IF u = t /\ m = n THEN NoWrite ELSE new[u][m]
  BY <1>1, <1>2, Ends
<1>10. w.release => /\ t \in Outputs /\ w.task = "succeeded" /\ task[Check].state = "pending"
                    /\ \A o \in Outputs \ {t} : task[o].state = "succeeded"
  BY <1>3 DEF WriteOK
<1>11. /\ task' \in [Tasks -> [state : TaskStates, count : 0 .. MaxAttempts]]
       /\ task'[t].state = w.task
       /\ task'[t].count = IF w.att = "running" THEN n ELSE task[t].count
       /\ \A u \in Tasks : u # t =>
            /\ task'[u].count = task[u].count
            /\ task'[u].state = IF u = Check /\ w.release THEN "queued" ELSE task[u].state
  <2> DEFINE c == IF w.att = "running" THEN n ELSE task[t].count
             f(u) == IF u = t THEN [state |-> w.task, count |-> c]
                     ELSE IF u = Check /\ w.release THEN [task[u] EXCEPT !.state = "queued"]
                     ELSE task[u]
  <2>1. task' = [u \in Tasks |-> f(u)]
    BY DEF Commit
  <2>2. c \in 0 .. MaxAttempts /\ w.task \in TaskStates /\ "queued" \in TaskStates
    BY <1>1, <1>3, <1>4 DEF TypeOK, TaskStates
  <2>3. ASSUME NEW u \in Tasks, u # t
        PROVE  /\ f(u) \in [state : TaskStates, count : 0 .. MaxAttempts]
               /\ f(u).count = task[u].count
               /\ f(u).state = IF u = Check /\ w.release THEN "queued" ELSE task[u].state
    <3>1. task[u] \in [state : TaskStates, count : 0 .. MaxAttempts]
      BY <1>1 DEF TypeOK
    <3> HIDE DEF w
    <3>2. CASE u = Check /\ w.release
      BY <3>1, <3>2, <2>2, <2>3
    <3>3. CASE ~(u = Check /\ w.release)
      BY <3>1, <3>3, <2>3
    <3> QED
      BY <3>2, <3>3
  <2>4. /\ f(t) \in [state : TaskStates, count : 0 .. MaxAttempts]
        /\ f(t).state = w.task /\ f(t).count = c
    BY <2>2
  <2> HIDE DEF f
  <2>5. task' \in [Tasks -> [state : TaskStates, count : 0 .. MaxAttempts]]
    BY <2>1, <2>3, <2>4
  <2> QED
    BY <2>1, <2>3, <2>4, <2>5
<1>12. job' \in JobStates
  BY <1>2, <1>3 DEF Writes
<1> HIDE DEF w
<1>13. TypeOK'
  BY <1>1, <1>2, <1>7, <1>8, <1>9, <1>11, <1>12 DEF TypeOK
<1>14. \A m \in Numbers : m # n => ~Open(t, m)
  <2>1. ASSUME NEW m \in Numbers, m # n, Open(t, m) PROVE FALSE
    <3>1. m = task[t].count /\ task[t].state \in {"running", "cancelled"}
      BY <2>1, <1>1 DEF AttemptsOK
    <3>2. w.att # "running"
      BY <3>1, <1>4
    <3>3. n = task[t].count
      BY <3>2, <1>1, <1>4 DEF AttemptsOK
    <3> QED
      BY <2>1, <3>1, <3>3
  <2> QED
    BY <2>1
<1>15. ASSUME w.release
       PROVE  \A m \in Numbers : ~Open(Check, m) /\ step[Check][m] = "none"
  <2>1. \A m \in Numbers : ~Open(Check, m)
    BY <1>1, <1>10, <1>15 DEF AttemptsOK
  <2>2. ASSUME NEW m \in Numbers PROVE step[Check][m] # "write"
    <3>1. step[Check][m] = "write" => LeaseOK(Check, m) \/ EndOK(Check, m)
      BY <1>1 DEF StepsOK, WriteOK
    <3> QED
      BY <3>1, <2>1, <1>10, <1>15 DEF LeaseOK, EndOK
  <2>3. \A m \in Numbers : step[Check][m] \in {"none", "report", "sweep", "write"}
    BY <1>1 DEF TypeOK
  <2> QED
    BY <2>1, <2>2, <2>3, <1>1 DEF StepsOK
<1>16. ASSUME NEW u \in Tasks PROVE AttemptsOK(u)'
  <2>1. AttemptsOK(u)
    BY <1>1
  <2>2. CASE u = t
    <3>1. \A m \in Numbers : att[t][m] # "succeeded"
      BY <1>5, <2>1, <2>2 DEF AttemptsOK
    <3>2. \A m \in Numbers : Open(t, m)' <=> m = n /\ w.att = "running"
      BY <1>4, <1>8, <1>14 DEF Open, Live
    <3>3. \A m \in Numbers : att'[t][m] = "succeeded" <=> m = n /\ w.att = "succeeded"
      BY <3>1, <1>8
    <3>4. \A m \in Numbers : att'[t][m] = "absent" => pc'[t][m] = "none"
      BY <2>1, <2>2, <1>4, <1>7, <1>8 DEF AttemptsOK
    <3> QED
      BY <2>2, <3>2, <3>3, <3>4, <1>4, <1>11 DEF AttemptsOK
  <2>3. CASE u # t
    <3>1. \A m \in Numbers : att'[u][m] = att[u][m] /\ pc'[u][m] = pc[u][m]
      BY <2>3, <1>7, <1>8
    <3>2. CASE u = Check /\ w.release
      <4>1. \A m \in Numbers : ~Open(u, m)' /\ att'[u][m] # "succeeded"
        BY <3>1, <3>2, <2>1, <1>10, <1>15 DEF AttemptsOK, Open
      <4> QED
        BY <4>1, <3>1, <3>2, <2>1, <2>3, <1>10, <1>11 DEF AttemptsOK
    <3>3. CASE ~(u = Check /\ w.release)
      <4>1. task'[u].state = task[u].state /\ task'[u].count = task[u].count
        BY <2>3, <3>3, <1>11
      <4> QED
        BY <4>1, <3>1, <2>1 DEF AttemptsOK, Open
    <3> QED
      BY <3>2, <3>3
  <2> QED
    BY <2>2, <2>3
<1>17. \A o \in Outputs : task[o].state = "succeeded" => o # t /\ task'[o].state = "succeeded"
  BY <1>1, <1>5, <1>11
<1>18. GateOK'
  <2>1. ASSUME NEW o \in Outputs PROVE task'[o].state # "pending"
    BY <1>1, <1>4, <1>11 DEF GateOK
  <2>2. ASSUME task'[Check].state \notin {"pending", "cancelled"}
                 \/ \E m \in Numbers : att'[Check][m] # "absent",
               NEW o \in Outputs
        PROVE  task'[o].state = "succeeded"
    <3>1. CASE w.release
      BY <3>1, <1>1, <1>10, <1>11, <1>17
    <3>2. CASE ~w.release /\ t = Check
      <4>1. task[Check].state = "queued" \/ \E m \in Numbers : att[Check][m] # "absent"
        BY <3>2, <1>4 DEF Open, Live
      <4> QED
        BY <4>1, <1>1, <1>17 DEF GateOK
    <3>3. CASE ~w.release /\ t # Check
      <4>1. task'[Check].state = task[Check].state /\ \A m \in Numbers : att'[Check][m] = att[Check][m]
        BY <3>3, <1>1, <1>8, <1>11
      <4> QED
        BY <4>1, <2>2, <1>1, <1>17 DEF GateOK
    <3> QED
      BY <3>1, <3>2, <3>3
  <2> QED
    BY <2>1, <2>2 DEF GateOK
<1>19. Failed => Failed'
  <2> SUFFICES ASSUME Failed PROVE Failed'
    OBVIOUS
  <2>1. PICK u \in Tasks : task[u].state = "failed"
    BY DEF Failed
  <2>2. u # t /\ ~(u = Check /\ w.release)
    BY <2>1, <1>5, <1>10
  <2> QED
    BY <2>1, <2>2, <1>11 DEF Failed
<1>20. StepsOK'
  <2>1. ASSUME NEW u \in Tasks, NEW m \in Numbers, step'[u][m] # "none"
        PROVE  /\ u # t /\ ~(u = Check /\ w.release)
               /\ step'[u][m] = step[u][m] /\ new'[u][m] = new[u][m]
    <3>1. ~(u = t /\ m = n) /\ step'[u][m] = step[u][m] /\ new'[u][m] = new[u][m]
      BY <2>1, <1>9
    <3>2. ~(u = Check /\ w.release)
      BY <2>1, <3>1, <1>15
    <3>3. u # t
      <4> SUFFICES ASSUME u = t PROVE FALSE
        OBVIOUS
      <4>1. m # n /\ ~Open(t, m)
        BY <3>1, <1>14
      <4>2. step[t][m] = "write"
        BY <2>1, <3>1, <4>1, <1>1 DEF StepsOK, TypeOK
      <4> QED
        BY <4>1, <4>2, <1>1, <1>2 DEF StepsOK
    <3> QED
      BY <3>1, <3>2, <3>3
  <2>2. ASSUME NEW u \in Tasks, NEW m \in Numbers, step'[u][m] # "none"
        PROVE  /\ Open(u, m)' <=> Open(u, m)
               /\ pc'[u][m] = pc[u][m]
               /\ task'[u].state = task[u].state /\ task'[u].count = task[u].count
    BY <2>1, <2>2, <1>7, <1>8, <1>11 DEF Open
  <2>3. ASSUME NEW u \in Tasks, NEW m \in Numbers, step'[u][m] = "write"
        PROVE  WriteOK(u, m)'
    <3>1. WriteOK(u, m) /\ u # t /\ new'[u][m] = new[u][m]
      BY <2>1, <2>3, <1>1 DEF StepsOK
    <3>2. LeaseOK(u, m) => LeaseOK(u, m)'
      BY <2>2, <2>3, <3>1 DEF LeaseOK
    <3>3. EndOK(u, m) => EndOK(u, m)'
      BY <2>2, <2>3, <3>1, <1>2 DEF EndOK
    <3>4. ASSUME new[u][m].release
          PROVE  /\ task'[Check].state = "pending"
                 /\ \A o \in Outputs \ {u} : task'[o].state = "succeeded"
      <4>1. /\ u \in Outputs /\ task[Check].state = "pending"
            /\ \A o \in Outputs \ {u} : task[o].state = "succeeded"
        BY <3>1, <3>4 DEF WriteOK
      <4>2. t = Check
        BY <3>1, <4>1, <1>5 DEF Tasks
      <4> QED
        BY <4>1, <4>2, <1>5
    <3> QED
      BY <3>1, <3>2, <3>3, <3>4, <1>2, <1>19 DEF WriteOK
  <2>4. \A u \in Tasks, m \in Numbers :
          /\ step'[u][m] \in {"report", "sweep"} => Open(u, m)'
          /\ step'[u][m] = "report" => pc'[u][m] = "report"
    BY <2>1, <2>2, <1>1 DEF StepsOK
  <2>5. \A u \in Tasks : \A k, m \in Numbers :
          step'[u][k] = "write" /\ step'[u][m] = "write" => k = m
    BY <2>1, <1>1 DEF StepsOK
  <2> QED
    BY <2>3, <2>4, <2>5 DEF StepsOK
<1>21. job # "succeeded"
  BY <1>1, <1>5 DEF JobOK
<1>22. job' = "succeeded" <=> t = Check /\ w.task = "succeeded"
  BY <1>2, <1>3 DEF WriteOK, w
<1>23. JobOK'
  <2>1. (job = "succeeded" <=> \A u \in Tasks : task[u].state = "succeeded")'
    <3>1. ASSUME t = Check, w.task = "succeeded", NEW u \in Tasks
          PROVE  task'[u].state = "succeeded"
      <4>1. \E m \in Numbers : att[Check][m] # "absent"
        BY <3>1, <1>4 DEF Open, Live
      <4>2. \A o \in Outputs : task[o].state = "succeeded"
        BY <4>1, <1>1 DEF GateOK
      <4> QED
        BY <3>1, <4>2, <1>11, <1>17 DEF Tasks
    <3>2. ASSUME \A u \in Tasks : task'[u].state = "succeeded"
          PROVE  t = Check /\ w.task = "succeeded"
      <4>1. w.task = "succeeded" /\ ~(t # Check /\ w.release)
        BY <3>2, <1>1, <1>11
      <4>2. t # Check => task[Check].state = "succeeded"
        BY <3>2, <4>1, <1>1, <1>11
      <4>3. t # Check => task[t].state = "succeeded"
        BY <4>2, <1>1 DEF GateOK, Tasks
      <4> QED
        BY <4>1, <4>3, <1>5
    <3> QED
      BY <3>1, <3>2, <1>22
  <2>2. job' = "failed" => Failed'
    <3>1. w.job = "failed" => Failed \/ w.task = "failed"
      BY <1>3 DEF WriteOK, w
    <3>2. w.task = "failed" => Failed'
      BY <1>11 DEF Failed
    <3> QED
      BY <3>1, <3>2, <1>2, <1>19
  <2>3. job' = "cancelled" => cancelled'
    BY <1>2, <1>3 DEF WriteOK, w
  <2>4. (\E u \in Tasks : task'[u].state = "cancelled") => cancelled'
    BY <1>1, <1>2, <1>4, <1>11 DEF JobOK
  <2>5. \A u \in Tasks, m \in Numbers :
          pc'[u][m] # "complete" /\ (pc'[u][m] = "fail" => Failed' \/ cancelled')
    BY <1>1, <1>2, <1>6, <1>7, <1>19, <1>21 DEF JobOK
  <2> QED
    BY <2>1, <2>2, <2>3, <2>4, <2>5 DEF JobOK
<1>24. RegisteredOK'
  <2>1. ASSUME NEW o \in Outputs PROVE task'[o].state = "succeeded" => art'[o] # None
    <3>1. CASE o = t
      BY <3>1, <1>1, <1>2, <1>4, <1>11 DEF RegisteredOK
    <3>2. CASE o # t
      BY <3>2, <1>1, <1>2, <1>11 DEF RegisteredOK
    <3> QED
      BY <3>1, <3>2
  <2>2. ASSUME NEW o \in Outputs, NEW m \in Numbers
        PROVE  /\ pc'[o][m] \in {"register", "head", "set", "insert", "row", "create"} =>
                    made'[o][m] # None
               /\ pc'[o][m] \in {"insert", "row"} => set' # "none"
               /\ pc'[o][m] = "report" /\ res'[o][m] = "success" => art'[o] # None
    <3>1. pc'[o][m] \in {pc[o][m], "spec", "run", "close"}
      BY <1>1, <1>6, <1>7
    <3> QED
      BY <3>1, <1>1, <1>2 DEF RegisteredOK
  <2>3. ASSUME NEW m \in Numbers,
               pc'[Check][m] = "run" \/ res'[Check][m] = "success"
                 \/ att'[Check][m] = "succeeded"
        PROVE  list'[m] = art' /\ att'[Check][m] # "absent"
    <3>1. pc[Check][m] = "run" \/ res[Check][m] = "success" \/ att[Check][m] = "succeeded"
      BY <2>3, <1>1, <1>2, <1>4, <1>6, <1>7, <1>8
    <3>2. att[Check][m] # "absent" => att'[Check][m] # "absent"
      BY <1>1, <1>4, <1>8
    <3> QED
      BY <3>1, <3>2, <1>1, <1>2 DEF RegisteredOK
  <2> QED
    BY <2>1, <2>2, <2>3, <1>1, <1>2 DEF RegisteredOK
<1>25. ClosedSetMatchesJob'
  BY <1>1, <1>2, <1>19, <1>21 DEF ClosedSetMatchesJob
<1>26. SuccessDelivers'
  BY <1>4, <1>6, <1>7, <1>22 DEF SuccessDelivers
<1> QED
  BY <1>13, <1>16, <1>18, <1>20, <1>23, <1>24, <1>25, <1>26 DEF ArtifactInvariant

\* handleCancelJob: the job is not over, and no transaction is in its way but one
\* that writes over an earlier cancellation.
LEMMA ArtifactCancel ==
    ASSUME ArtifactInvariant, Cancel
    PROVE  ArtifactInvariant'
<1>1. /\ job \notin JobTerminal /\ job' = "cancelled" /\ cancelled'
      /\ \A t \in Tasks : task[t].state \notin TaskTerminal => ~Locked(t)
      /\ UNCHANGED <<att, step, new, pc, made, list, res, obj, set, art, faults, lapses>>
      /\ TypeOK /\ GateOK /\ StepsOK /\ JobOK /\ RegisteredOK
      /\ Check \in Tasks /\ Outputs \subseteq Tasks
  BY DEF Cancel, ArtifactInvariant, Tasks
<1>2. /\ task' \in [Tasks -> [state : TaskStates, count : 0 .. MaxAttempts]]
      /\ \A u \in Tasks : task'[u].count = task[u].count
      /\ \A u \in Tasks : task'[u].state = IF task[u].state \in {"succeeded", "failed"}
                                           THEN task[u].state ELSE "cancelled"
  <2>1. ASSUME NEW u \in Tasks
        PROVE  /\ task'[u] \in [state : TaskStates, count : 0 .. MaxAttempts]
               /\ task'[u].count = task[u].count
               /\ task'[u].state = IF task[u].state \in {"succeeded", "failed"}
                                   THEN task[u].state ELSE "cancelled"
    <3>1. task[u] \in [state : TaskStates, count : 0 .. MaxAttempts]
      BY <1>1 DEF TypeOK
    <3>2. task'[u] = IF task[u].state \in TaskTerminal THEN task[u]
                     ELSE [task[u] EXCEPT !.state = "cancelled"]
      BY DEF Cancel
    <3>3. CASE task[u].state \in TaskTerminal
      BY <3>1, <3>2, <3>3 DEF TaskTerminal
    <3>4. CASE task[u].state \notin TaskTerminal
      BY <3>1, <3>2, <3>4 DEF TaskTerminal, TaskStates
    <3> QED
      BY <3>3, <3>4
  <2>2. task' = [t \in Tasks |-> task'[t]]
    BY DEF Cancel
  <2> QED
    BY <2>1, <2>2
<1>3. TypeOK'
  BY <1>1, <1>2 DEF TypeOK, JobStates
<1>4. ASSUME NEW u \in Tasks PROVE AttemptsOK(u)'
  <2>1. AttemptsOK(u)
    BY DEF ArtifactInvariant
  <2> QED
    BY <2>1, <1>1, <1>2 DEF AttemptsOK, Open
<1>5. GateOK'
  BY <1>1, <1>2 DEF GateOK
<1>6. Failed => Failed'
  BY <1>2 DEF Failed
<1>7. StepsOK'
  <2>1. ASSUME NEW u \in Tasks, NEW m \in Numbers, step[u][m] = "write"
        PROVE  WriteOK(u, m)'
    <3>1. WriteOK(u, m) /\ Locked(u)
      BY <2>1, <1>1 DEF StepsOK, Locked
    <3>2. task[u].state \in TaskTerminal
      BY <3>1, <1>1
    <3>3. EndOK(u, m)
      BY <3>1, <3>2 DEF WriteOK, LeaseOK, TaskTerminal
    <3>4. task'[u].count = task[u].count /\ new[u][m].task # "succeeded"
      BY <3>2, <3>3, <1>2 DEF EndOK, TaskTerminal
    <3>5. EndOK(u, m)'
      BY <3>3, <3>4, <1>1 DEF EndOK, Open
    <3> QED
      BY <3>1, <3>4, <3>5, <1>1, <1>6 DEF WriteOK
  <2>2. \A u \in Tasks, m \in Numbers : Open(u, m)' <=> Open(u, m)
    BY <1>1 DEF Open
  <2> QED
    BY <2>1, <2>2, <1>1 DEF StepsOK
<1>8. JobOK'
  BY <1>1, <1>2 DEF JobOK, JobTerminal
<1>9. RegisteredOK'
  BY <1>1, <1>2 DEF RegisteredOK
<1>10. ClosedSetMatchesJob' /\ SuccessDelivers'
  BY <1>1, <1>6 DEF ArtifactInvariant, ClosedSetMatchesJob, SuccessDelivers, JobTerminal
<1> QED
  BY <1>3, <1>4, <1>5, <1>7, <1>8, <1>9, <1>10 DEF ArtifactInvariant

----------------------------------------------------------------------------
(* The theorems *)

\* Every step keeps the invariant.
LEMMA ArtifactStep == ArtifactInvariant /\ [Next]_vars => ArtifactInvariant'
<1> SUFFICES ASSUME ArtifactInvariant, [Next]_vars PROVE ArtifactInvariant'
  OBVIOUS
<1>1. ASSUME NEW t \in Tasks, Lease(t) PROVE ArtifactInvariant'
  BY <1>1, ArtifactLease
<1>2. ASSUME NEW t \in Tasks, NEW n \in Numbers, Work(t, n) PROVE ArtifactInvariant'
  <2>1. ASSUME t \in Outputs, EncodeTask(t, n) \/ Register(t, n) PROVE ArtifactInvariant'
    BY <2>1, ArtifactEncodeTask, ArtifactBeforeInsert, ArtifactInsert DEF Register
  <2>2. ASSUME t = Check, ResolveSpec(n) PROVE ArtifactInvariant'
    BY <2>2, ArtifactResolveSpec
  <2>3. ASSUME \/ ExecutionFails(t, n) \/ ExecutionStops(t, n)
               \/ t = Check /\ ValidateTask(n)
        PROVE  ArtifactInvariant'
    BY <2>3, ArtifactExecutionEnds
  <2>4. ASSUME \/ Complete(t, n) \/ FinishTask(t, n)
               \/ ReadJob(t, n) \/ CloseSet(t, n)
        PROVE  ArtifactInvariant'
    BY <2>4, ArtifactComplete, ArtifactFinishTask, ArtifactReadJob, ArtifactCloseSet
  <2> QED
    BY <1>2, <2>1, <2>2, <2>3, <2>4 DEF Work
<1>3. ASSUME NEW t \in Tasks, NEW n \in Numbers,
             \/ Vanish(t, n) \/ Expire(t, n) \/ Requeue(t, n)
             \/ Commit(t, n) \/ Rollback(t, n)
      PROVE  ArtifactInvariant'
  BY <1>3, ArtifactVanish, ArtifactExpire, ArtifactRequeue, ArtifactCommit,
     ArtifactRollback
<1>4. CASE Cancel
  BY <1>4, ArtifactCancel
<1>5. CASE UNCHANGED vars
  BY <1>5 DEF vars, store, ArtifactInvariant, TypeOK, ClosedSetMatchesJob,
     SuccessDelivers,
              AttemptsOK, Open, GateOK, StepsOK, WriteOK, LeaseOK, EndOK, JobOK, Failed,
              RegisteredOK
<1> QED
  BY <1>1, <1>2, <1>3, <1>4, <1>5 DEF Next

\* The set and the job end alike, for any plan and however the transactions of the
\* reports, sweeps and leases interleave: a complete set belongs to a job that
\* succeeded and has every output, a failed one to a job of which a task failed or
\* that was cancelled, and while no process fails the set of a succeeded job is
\* closed by whichever report is the last.
THEOREM SetAgreesWithJob == Spec => []ArtifactInvariant
BY ArtifactInit, ArtifactStep, PTL DEF Spec

\* What is delivered is what was validated, whatever attempts that lost their leases
\* register meanwhile: the rows are final when validation is leased, since every
\* encode has then succeeded and no encode succeeds unregistered.
THEOREM DeliversTheValidated == Spec => []DeliveredWasValidated
<1>1. ArtifactInvariant => DeliveredWasValidated
  <2> SUFFICES ASSUME ArtifactInvariant, set = "complete"
               PROVE  \E n \in Numbers : att[Check][n] = "succeeded" /\ list[n] = art
    BY DEF DeliveredWasValidated
  <2>1. task[Check].state = "succeeded" /\ Check \in Tasks
    BY DEF ArtifactInvariant, ClosedSetMatchesJob, JobOK, Tasks
  <2>2. PICK n \in Numbers : att[Check][n] = "succeeded"
    BY <2>1 DEF ArtifactInvariant, AttemptsOK
  <2> QED
    BY <2>2 DEF ArtifactInvariant, RegisteredOK
<1> QED
  BY <1>1, SetAgreesWithJob, PTL

\* A job is lost to two races only: while it is not over, something is queued, or
\* something is leased and will be taken further by its worker or the reaper, or all
\* encodes have succeeded and none of their completions has released the validation,
\* or a task has ended without success and an older count hides it.
THEOREM JobsLostOnlyToRaces == Spec => []LostOnlyToRaces
<1>1. ArtifactInvariant => LostOnlyToRaces
  <2> SUFFICES ASSUME ArtifactInvariant, job \notin JobTerminal,
                      \A t \in Tasks : task[t].state # "queued",
                      ~Stalled, ~Overtaken
               PROVE  \E t \in Tasks, n \in Numbers :
                        Open(t, n) /\ task[t].state \notin TaskTerminal
    BY DEF LostOnlyToRaces
  <2>1. \E t \in Tasks : task[t].state # "succeeded"
    BY DEF ArtifactInvariant, JobOK, JobTerminal
  <2>2. \A t \in Tasks : task[t].state \in {"pending", "running", "succeeded"}
    BY DEF Overtaken, ArtifactInvariant, TypeOK, AttemptsOK, TaskStates
  <2>3. PICK t \in Tasks : task[t].state = "running"
    <3>1. \A o \in Outputs : task[o].state # "pending"
      BY DEF ArtifactInvariant, GateOK
    <3> QED
      BY <3>1, <2>1, <2>2 DEF Stalled, Tasks
  <2>4. task[t].count \in Numbers /\ Open(t, task[t].count)
    BY <2>3 DEF ArtifactInvariant, AttemptsOK
  <2> QED
    BY <2>3, <2>4 DEF TaskTerminal
<1> QED
  BY <1>1, SetAgreesWithJob, PTL

\* A complete set is frozen, although registrations may still be under way.
THEOREM DeliveredSetFrozen == Spec => CompleteSetFrozen
<1>1. ArtifactInvariant /\ [Next]_vars => [set = "complete" => set' = set /\ art' = art]_vars
  <2> SUFFICES ASSUME ArtifactInvariant, Next, set = "complete"
               PROVE  set' = set /\ art' = art
    BY DEF vars
  <2>1. /\ \A o \in Outputs : art[o] # None
        /\ art \in [Outputs -> Contents \cup {None}]
    BY DEF ArtifactInvariant, ClosedSetMatchesJob, TypeOK
  <2>2. ASSUME NEW t \in Tasks, Lease(t) PROVE set' = set /\ art' = art
    BY <2>2 DEF Lease
  <2>3. ASSUME NEW t \in Tasks, NEW n \in Numbers,
               \/ Vanish(t, n) \/ Expire(t, n) \/ Requeue(t, n)
               \/ Commit(t, n) \/ Rollback(t, n)
        PROVE  set' = set /\ art' = art
    BY <2>3 DEF Vanish, Expire, Requeue, Commit, Rollback
  <2>4. ASSUME NEW o \in Outputs, NEW n \in Numbers, InsertArtifact(o, n) \/ CreateSet(o, n)
        PROVE  set' = set /\ art' = art
    BY <2>1, <2>4 DEF InsertArtifact, CreateSet
  <2>5. ASSUME NEW t \in Tasks, NEW n \in Numbers, Work(t, n)
        PROVE  set' = set /\ art' = art
    BY <2>4, <2>5 DEF Work, Register, EncodeTask, AuthorizeAttempt, HeadObject,
       CurrentSet,
       FindArtifact, ResolveSpec, ValidateTask, ExecutionFails, ExecutionStops, Complete,
       FinishTask, ReadJob, CloseSet, MarkComplete, MarkFailed
  <2>6. CASE Cancel
    BY <2>6 DEF Cancel
  <2> QED
    BY <2>2, <2>3, <2>5, <2>6 DEF Next
<1> QED
  BY <1>1, SetAgreesWithJob, PTL DEF Spec, CompleteSetFrozen
=============================================================================

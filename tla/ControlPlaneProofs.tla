------------------------- MODULE ControlPlaneProofs -------------------------
(***************************************************************************)
(* Proofs about the start of the control plane and about submissions: for  *)
(* any number of instances, of releases, of deaths and of requests, and    *)
(* for a pool of any size, MigrateInvariant and SubmissionInvariant hold.  *)
(* SubmissionInvariant is inductive relative to MigrateInvariant, which is *)
(* inductive by itself.                                                    *)
(***************************************************************************)
EXTENDS ControlPlane, TLAPS, FiniteSetTheorems

----------------------------------------------------------------------------
(* db.Migrate *)

\* A file an instance carries is a file, and files are positive.
LEMMA FilesKnown ==
    /\ AllFiles \subseteq Nat
    /\ \A i \in Instances : 1 .. Known[i] \subseteq AllFiles
    /\ \A f \in AllFiles : f >= 1
BY MigrateAssumption DEF AllFiles

\* A file an instance has yet to apply, and the next one to apply.
LEMMA NextIsAFile ==
    ASSUME NEW i \in Instances, NEW f, IsNext(i, f)
    PROVE  f \in AllFiles /\ f \in 1 .. Known[i] /\ f \notin applied[i]
BY FilesKnown DEF IsNext, Pending

\* Nothing has been applied and nobody is past the lock.
LEMMA MigrateInit == Init => MigrateInvariant
BY MigrateAssumption, FilesKnown
DEF Init, MigrateInvariant, TypeOK, RecordedIsApplied, AppliedInOrder, NobodyRefused

\* Only an instance that finds the lock free takes it.
LEMMA MigrateAcquireLock ==
    ASSUME MigrateInvariant, NEW i \in Instances, AcquireLock(i)
    PROVE  MigrateInvariant'
BY MigrateAssumption
DEF MigrateInvariant, TypeOK, RecordedIsApplied, AppliedInOrder, NobodyRefused,
    AcquireLock, Goto

\* The holder reads what is recorded, and nobody else may record anything.
LEMMA MigrateReadApplied ==
    ASSUME MigrateInvariant, NEW i \in Instances, ReadApplied(i)
    PROVE  MigrateInvariant'
BY MigrateAssumption
DEF MigrateInvariant, TypeOK, RecordedIsApplied, AppliedInOrder, NobodyRefused,
    ReadApplied, Goto

\* What the holder has not applied is not in the schema, so the body succeeds.
LEMMA MigrateExecute ==
    ASSUME MigrateInvariant, NEW i \in Instances, NEW f \in AllFiles, Execute(i, f)
    PROVE  MigrateInvariant'
<1>1. f \notin applied[i] /\ applied[i] = recorded
  BY NextIsAFile DEF Execute, MigrateInvariant
<1>2. schema[f] = 0
  BY <1>1 DEF MigrateInvariant, TypeOK, RecordedIsApplied
<1> QED
  BY <1>2, MigrateAssumption
  DEF MigrateInvariant, TypeOK, RecordedIsApplied, AppliedInOrder, NobodyRefused,
      Execute, Goto

\* The same holds when the transaction commits; and since every file before this
\* one is applied, the order is kept.
LEMMA MigrateRecordAndCommit ==
    ASSUME MigrateInvariant, NEW i \in Instances, NEW f \in AllFiles, RecordAndCommit(i, f)
    PROVE  MigrateInvariant'
<1>1. /\ f \notin applied[i] /\ applied[i] = recorded /\ f \in 1 .. Known[i]
      /\ pc[i] = "executed" /\ lock = i
  BY NextIsAFile DEF RecordAndCommit, MigrateInvariant
<1>2. schema[f] = 0
  BY <1>1 DEF MigrateInvariant, TypeOK, RecordedIsApplied
<1>3. \A g \in AllFiles : g < f => schema[g] = 1
  <2> SUFFICES ASSUME NEW g \in AllFiles, g < f PROVE schema[g] = 1
    OBVIOUS
  <2>1. g \in 1 .. Known[i]
    BY <1>1, FilesKnown, MigrateAssumption
  <2>2. g \in applied[i]
    BY <2>1, <1>1, FilesKnown DEF RecordAndCommit, IsNext, Pending
  <2> QED
    BY <2>2, <1>1 DEF MigrateInvariant, RecordedIsApplied
<1>4. /\ schema' = [schema EXCEPT ![f] = 1] /\ recorded' = recorded \cup {f}
      /\ applied' = [applied EXCEPT ![i] = @ \cup {f}]
      /\ pc' = [pc EXCEPT ![i] = "apply"] /\ lock' = lock /\ deaths' = deaths
  BY <1>2 DEF RecordAndCommit, Goto
<1>5. TypeOK'
  BY <1>4 DEF MigrateInvariant, TypeOK
<1>6. RecordedIsApplied'
  BY <1>4 DEF MigrateInvariant, TypeOK, RecordedIsApplied
<1>7. AppliedInOrder'
  <2> SUFFICES ASSUME NEW g \in AllFiles, NEW h \in AllFiles, g < h, schema'[h] = 1
               PROVE  schema'[g] = 1
    BY DEF AppliedInOrder
  <2>1. CASE h = f
    BY <2>1, <1>3, <1>4 DEF MigrateInvariant, TypeOK
  <2>2. CASE h # f
    BY <2>2, <1>4 DEF MigrateInvariant, TypeOK, AppliedInOrder
  <2> QED
    BY <2>1, <2>2
<1>8. NobodyRefused'
  BY <1>4 DEF MigrateInvariant, TypeOK, NobodyRefused
<1> QED
  BY <1>1, <1>4, <1>5, <1>6, <1>7, <1>8 DEF MigrateInvariant, TypeOK

\* The holder gives up the lock once everything it carries is recorded.
LEMMA MigrateUnlock ==
    ASSUME MigrateInvariant, NEW i \in Instances, Unlock(i)
    PROVE  MigrateInvariant'
<1>1. (1 .. Known[i]) \subseteq recorded /\ lock = i
  BY DEF MigrateInvariant, Unlock, Pending
<1> QED
  BY <1>1, MigrateAssumption
  DEF MigrateInvariant, TypeOK, RecordedIsApplied, AppliedInOrder, NobodyRefused,
      Unlock, Goto

\* With the process goes its lock, and what it had read.
LEMMA MigrateDie ==
    ASSUME MigrateInvariant, NEW i \in Instances, Die(i)
    PROVE  MigrateInvariant'
BY MigrateAssumption
DEF MigrateInvariant, TypeOK, RecordedIsApplied, AppliedInOrder, NobodyRefused,
    Die, Goto

\* A step that leaves the migration alone.
LEMMA MigrateStutter == MigrateInvariant /\ UNCHANGED vars => MigrateInvariant'
BY DEF MigrateInvariant, TypeOK, RecordedIsApplied, AppliedInOrder, NobodyRefused, vars

LEMMA MigrateStep == MigrateInvariant /\ [PlaneNext]_allVars => MigrateInvariant'
<1> SUFFICES ASSUME MigrateInvariant, [PlaneNext]_allVars
             PROVE  MigrateInvariant'
  OBVIOUS
<1>1. ASSUME NEW i \in Instances, Boot(i) \/ Die(i)
      PROVE  MigrateInvariant'
  BY <1>1, MigrateAcquireLock, MigrateReadApplied, MigrateExecute,
     MigrateRecordAndCommit, MigrateUnlock, MigrateDie DEF Boot
<1>2. ASSUME NEW r \in Requests, Serve(r) \/ HangUp(r)
      PROVE  MigrateInvariant'
  BY <1>2, MigrateStutter DEF Serve, HangUp
<1>3. CASE UNCHANGED allVars
  BY <1>3, MigrateStutter DEF allVars
<1> QED
  BY <1>1, <1>2, <1>3 DEF PlaneNext

\* db.Migrate, for any instances and releases: each file takes effect at most once
\* and in its order, it is recorded exactly when it has, nobody is refused, and an
\* instance serves only when everything it carries has been applied.
THEOREM MigrationSafe == PlaneSpec => []MigrateInvariant
<1>1. PlaneInit => MigrateInvariant
  BY MigrateInit DEF PlaneInit
<1> QED
  BY <1>1, MigrateStep, PTL DEF PlaneSpec

----------------------------------------------------------------------------
(* handleCreateJob *)

\* The stages at which a request has a transaction open.
Open == {"missing", "naming", "tx", "inserted", "conflict"}

\* A key some request has is a key.
LEMMA KeyIsAKey == \A r \in Requests : KeyOf[r] # NoKey => KeyOf[r] \in Api!Keys
BY DEF Api!Keys

\* The instance counts as this module does.
LEMMA SameCount == \A S : Api!Cardinality(S) = Cardinality(S)
BY DEF Cardinality, Api!Cardinality

\* The requests are finitely many, so those with a connection are counted right.
LEMMA HoldingFinite == IsFiniteSet(Api!Holding) /\ Cardinality(Api!Holding) \in Nat
BY FS_Subset, FS_CardinalityType, SubmissionAssumption DEF Api!Holding

\* The pool is not overdrawn by a request that moves on: it had a connection, takes
\* one that was free, or needs none.
LEMMA PoolHolds ==
    ASSUME Api!TypeOK, NEW r \in Requests, NEW p \in Api!Stages,
           stage' = [stage EXCEPT ![r] = p],
           Api!Acquire \/ r \in Api!Holding \/ p \notin Open
    PROVE  Api!Cardinality(Api!Holding') <= PoolSize
<1>1. Api!Holding' \subseteq Api!Holding \cup {r}
  BY DEF Api!Holding, Api!TypeOK
<1>2. IsFiniteSet(Api!Holding \cup {r}) /\ Cardinality(Api!Holding \cup {r}) \in Nat
  BY HoldingFinite, FS_AddElement, FS_CardinalityType
<1>3. Cardinality(Api!Holding') <= Cardinality(Api!Holding \cup {r})
  BY <1>1, <1>2, FS_Subset
<1>4. Cardinality(Api!Holding') \in Nat
  BY <1>1, <1>2, FS_Subset, FS_CardinalityType
<1>5. CASE Api!Acquire
  <2>1. Cardinality(Api!Holding \cup {r}) <= Cardinality(Api!Holding) + 1
    <3>1. Cardinality(Api!Holding \cup {r}) =
            IF r \in Api!Holding THEN Cardinality(Api!Holding) ELSE Cardinality(Api!Holding) + 1
      BY HoldingFinite, FS_AddElement, Zenon
    <3> QED
      BY <3>1, HoldingFinite
  <2> QED
    BY <2>1, <1>2, <1>3, <1>4, <1>5, HoldingFinite, SubmissionAssumption, SameCount
    DEF Api!Acquire
<1>6. CASE r \in Api!Holding
  <2>1. Api!Holding \cup {r} = Api!Holding
    BY <1>6
  <2>2. Cardinality(Api!Holding') <= Cardinality(Api!Holding)
    BY <2>1, <1>3
  <2> QED
    BY <2>2, <1>4, HoldingFinite, SubmissionAssumption, SameCount DEF Api!TypeOK
<1>7. CASE p \notin Open
  <2>1. Api!Holding' \subseteq Api!Holding
    BY <1>7 DEF Api!Holding, Api!TypeOK, Open
  <2>2. Cardinality(Api!Holding') <= Cardinality(Api!Holding)
    BY <2>1, HoldingFinite, FS_Subset
  <2> QED
    BY <2>2, <1>4, HoldingFinite, SubmissionAssumption, SameCount DEF Api!TypeOK
<1> QED
  BY <1>5, <1>6, <1>7

\* No request has been looked at, and no key has a job.
LEMMA SubmissionInit == PlaneInit => SubmissionInvariant
<1> SUFFICES ASSUME PlaneInit PROVE SubmissionInvariant
  OBVIOUS
<1>1. Api!Holding = {}
  BY DEF PlaneInit, Api!Init, Api!Holding
<1>2. Api!Cardinality(Api!Holding) <= PoolSize
  BY <1>1, SameCount, FS_EmptySet, SubmissionAssumption
<1>3. Api!TypeOK
  BY <1>2 DEF PlaneInit, Api!Init, Api!TypeOK, Api!Stages, Api!Nobody
<1>4. TypeOK
  BY MigrateInit DEF PlaneInit, MigrateInvariant
<1>5. \A k \in Api!Keys : KeyOK(k)
  BY KeyIsAKey, SubmissionAssumption DEF PlaneInit, Api!Init, KeyOK, Api!Nobody
<1> QED
  BY <1>3, <1>4, <1>5, SubmissionAssumption
  DEF PlaneInit, Api!Init, SubmissionInvariant, PlaneTypeOK, SameKeySameJob,
      SchemaBeforeRequests

\* A step of a request on the serving instance leaves the schema as it is, and it is
\* complete.
LEMMA ServedOnSchema ==
    ASSUME SubmissionInvariant, MigrateInvariant, pc[Server] = "serving", UNCHANGED vars
    PROVE  SchemaBeforeRequests' /\ TypeOK'
BY SubmissionAssumption
DEF SubmissionInvariant, MigrateInvariant, SchemaBeforeRequests, PlaneTypeOK, TypeOK,
    vars

\* ResolveLookup: the request takes a free connection; no key is touched.
LEMMA SubmissionResolveLookup ==
    ASSUME SubmissionInvariant, NEW r \in Requests, Api!ResolveLookup(r)
    PROVE  Api!TypeOK' /\ (\A k \in Api!Keys : KeyOK(k)')
           /\ (\A s \in Requests : stage'[s] = "conflict" => KeyOf[s] # NoKey)
<1>1. Api!Cardinality(Api!Holding') <= PoolSize
  BY PoolHolds DEF SubmissionInvariant, PlaneTypeOK, Api!TypeOK, Api!ResolveLookup,
     Api!Holding, Api!Stages, Open
<1>2. Api!TypeOK'
  BY <1>1, KeyIsAKey DEF SubmissionInvariant, PlaneTypeOK, Api!TypeOK,
     Api!ResolveLookup,
     Api!Stages, Api!Nobody
<1>3. ASSUME NEW k \in Api!Keys PROVE KeyOK(k)'
  BY KeyIsAKey, SubmissionAssumption
  DEF SubmissionInvariant, PlaneTypeOK, Api!TypeOK, Api!ResolveLookup, KeyOK, Api!Nobody
<1>4. ASSUME NEW s \in Requests, stage'[s] = "conflict" PROVE KeyOf[s] # NoKey
  BY <1>4 DEF SubmissionInvariant, PlaneTypeOK, Api!TypeOK, Api!ResolveLookup
<1> QED
  BY <1>2, <1>3, <1>4

\* ResolveInsert: the transaction goes on, or ends with an error.
LEMMA SubmissionResolveInsert ==
    ASSUME SubmissionInvariant, NEW r \in Requests, Api!ResolveInsert(r)
    PROVE  Api!TypeOK' /\ (\A k \in Api!Keys : KeyOK(k)')
           /\ (\A s \in Requests : stage'[s] = "conflict" => KeyOf[s] # NoKey)
<1>1. Api!Cardinality(Api!Holding') <= PoolSize
  BY PoolHolds DEF SubmissionInvariant, PlaneTypeOK, Api!TypeOK, Api!ResolveInsert,
     Api!Answer,
     Api!Holding, Api!Stages, Open
<1>2. Api!TypeOK'
  BY <1>1, KeyIsAKey DEF SubmissionInvariant, PlaneTypeOK, Api!TypeOK,
     Api!ResolveInsert, Api!Answer,
     Api!Stages, Api!Nobody
<1>3. ASSUME NEW k \in Api!Keys PROVE KeyOK(k)'
  BY KeyIsAKey, SubmissionAssumption
  DEF SubmissionInvariant, PlaneTypeOK, Api!TypeOK, Api!ResolveInsert, Api!Answer,
      KeyOK, Api!Nobody
<1>4. ASSUME NEW s \in Requests, stage'[s] = "conflict" PROVE KeyOf[s] # NoKey
  BY <1>4 DEF SubmissionInvariant, PlaneTypeOK, Api!TypeOK, Api!ResolveInsert,
     Api!Answer
<1> QED
  BY <1>2, <1>3, <1>4

\* ResolveCommit: the connection goes back.
LEMMA SubmissionResolveCommit ==
    ASSUME SubmissionInvariant, NEW r \in Requests, Api!ResolveCommit(r)
    PROVE  Api!TypeOK' /\ (\A k \in Api!Keys : KeyOK(k)')
           /\ (\A s \in Requests : stage'[s] = "conflict" => KeyOf[s] # NoKey)
<1>1. Api!Cardinality(Api!Holding') <= PoolSize
  BY PoolHolds DEF SubmissionInvariant, PlaneTypeOK, Api!TypeOK, Api!ResolveCommit,
     Api!Holding, Api!Stages, Open
<1>2. Api!TypeOK'
  BY <1>1, KeyIsAKey DEF SubmissionInvariant, PlaneTypeOK, Api!TypeOK,
     Api!ResolveCommit,
     Api!Stages, Api!Nobody
<1>3. ASSUME NEW k \in Api!Keys PROVE KeyOK(k)'
  BY KeyIsAKey, SubmissionAssumption
  DEF SubmissionInvariant, PlaneTypeOK, Api!TypeOK, Api!ResolveCommit, KeyOK, Api!Nobody
<1>4. ASSUME NEW s \in Requests, stage'[s] = "conflict" PROVE KeyOf[s] # NoKey
  BY <1>4 DEF SubmissionInvariant, PlaneTypeOK, Api!TypeOK, Api!ResolveCommit
<1> QED
  BY <1>2, <1>3, <1>4

\* Begin: the request takes a free connection; no key is touched.
LEMMA SubmissionBegin ==
    ASSUME SubmissionInvariant, NEW r \in Requests, Api!Begin(r)
    PROVE  Api!TypeOK' /\ (\A k \in Api!Keys : KeyOK(k)')
           /\ (\A s \in Requests : stage'[s] = "conflict" => KeyOf[s] # NoKey)
<1>1. Api!Cardinality(Api!Holding') <= PoolSize
  BY PoolHolds DEF SubmissionInvariant, PlaneTypeOK, Api!TypeOK, Api!Begin,
     Api!Holding, Api!Stages, Open
<1>2. Api!TypeOK'
  BY <1>1, KeyIsAKey DEF SubmissionInvariant, PlaneTypeOK, Api!TypeOK, Api!Begin,
     Api!Stages, Api!Nobody
<1>3. ASSUME NEW k \in Api!Keys PROVE KeyOK(k)'
  BY KeyIsAKey, SubmissionAssumption
  DEF SubmissionInvariant, PlaneTypeOK, Api!TypeOK, Api!Begin, KeyOK, Api!Nobody
<1>4. ASSUME NEW s \in Requests, stage'[s] = "conflict" PROVE KeyOf[s] # NoKey
  BY <1>4 DEF SubmissionInvariant, PlaneTypeOK, Api!TypeOK, Api!Begin
<1> QED
  BY <1>2, <1>3, <1>4

\* Insert: the request becomes the only one with an uncommitted insert of its key, or
\* conflicts with the job that has it.
LEMMA SubmissionInsert ==
    ASSUME SubmissionInvariant, NEW r \in Requests, Api!Insert(r)
    PROVE  Api!TypeOK' /\ (\A k \in Api!Keys : KeyOK(k)')
           /\ (\A s \in Requests : stage'[s] = "conflict" => KeyOf[s] # NoKey)
<1>1. Api!Cardinality(Api!Holding') <= PoolSize
  BY PoolHolds DEF SubmissionInvariant, PlaneTypeOK, Api!TypeOK, Api!Insert,
     Api!Holding, Api!Stages, Open
<1>2. Api!TypeOK'
  BY <1>1, KeyIsAKey DEF SubmissionInvariant, PlaneTypeOK, Api!TypeOK, Api!Insert,
     Api!Stages, Api!Nobody
<1>3. ASSUME NEW k \in Api!Keys PROVE KeyOK(k)'
  <2>1. KeyOK(k) /\ stage \in [Requests -> Api!Stages] /\ job' = job /\ jobs' = jobs
        /\ answer' = answer /\ pending \in [Api!Keys -> Requests \cup {"nobody"}]
        /\ stage[r] = "tx"
    BY DEF SubmissionInvariant, PlaneTypeOK, Api!TypeOK, Api!Insert, Api!Nobody
  <2>2. CASE stage' = [stage EXCEPT ![r] = "conflict"] /\ pending' = pending
             /\ KeyOf[r] # NoKey /\ job[KeyOf[r]] # "nobody"
    <3>1. KeyOf[r] = k => job[k] \in Requests
      BY <2>2, KeyIsAKey DEF SubmissionInvariant, PlaneTypeOK, Api!TypeOK, Api!Nobody
    <3> QED
      BY <2>1, <2>2, <3>1 DEF KeyOK
  <2>3. CASE /\ stage' = [stage EXCEPT ![r] = "inserted"]
             /\ KeyOf[r] # NoKey => pending[KeyOf[r]] = "nobody" /\ job[KeyOf[r]] = "nobody"
             /\ pending' = IF KeyOf[r] = NoKey THEN pending
                                             ELSE [pending EXCEPT ![KeyOf[r]] = r]
    <3>1. KeyOf[r] = k => KeyOf[r] # NoKey
      BY DEF Api!Keys
    <3>2. CASE KeyOf[r] = k
      BY <2>1, <2>3, <3>1, <3>2, SubmissionAssumption DEF KeyOK
    <3>3. CASE KeyOf[r] # k
      <4>1. pending'[k] = pending[k] /\ pending[k] # r
        BY <2>1, <2>3, <3>3 DEF KeyOK
      <4> QED
        BY <2>1, <2>3, <3>3, <4>1 DEF KeyOK
    <3> QED
      BY <3>2, <3>3
  <2> QED
    BY <2>2, <2>3 DEF Api!Insert, Api!Nobody
<1>4. ASSUME NEW s \in Requests, stage'[s] = "conflict" PROVE KeyOf[s] # NoKey
  BY <1>4 DEF SubmissionInvariant, PlaneTypeOK, Api!TypeOK, Api!Insert
<1> QED
  BY <1>2, <1>3, <1>4

\* Commit: the insert that was pending is the key's job from now on.
LEMMA SubmissionCommit ==
    ASSUME SubmissionInvariant, NEW r \in Requests, Api!Commit(r)
    PROVE  Api!TypeOK' /\ (\A k \in Api!Keys : KeyOK(k)')
           /\ (\A s \in Requests : stage'[s] = "conflict" => KeyOf[s] # NoKey)
<1>1. Api!Cardinality(Api!Holding') <= PoolSize
  BY PoolHolds DEF SubmissionInvariant, PlaneTypeOK, Api!TypeOK, Api!Commit, Api!Answer,
     Api!Holding, Api!Stages, Open
<1>2. Api!TypeOK'
  BY <1>1, KeyIsAKey DEF SubmissionInvariant, PlaneTypeOK, Api!TypeOK, Api!Commit,
     Api!Answer,
     Api!Stages, Api!Nobody
<1>3. ASSUME NEW k \in Api!Keys PROVE KeyOK(k)'
  <2>1. /\ KeyOK(k) /\ stage[r] = "inserted" /\ jobs' = jobs \cup {r}
        /\ stage \in [Requests -> Api!Stages] /\ stage' = [stage EXCEPT ![r] = "done"]
        /\ answer \in [Requests -> Requests \cup {"error", "none"}]
        /\ answer' = [answer EXCEPT ![r] = r]
        /\ pending \in [Api!Keys -> Requests \cup {"nobody"}]
        /\ job \in [Api!Keys -> Requests \cup {"nobody"}]
    BY DEF SubmissionInvariant, PlaneTypeOK, Api!TypeOK, Api!Commit, Api!Answer,
       Api!Nobody
  <2>2. CASE KeyOf[r] = k
    <3>1. KeyOf[r] # NoKey /\ pending'[k] = "nobody" /\ job'[k] = r
      BY <2>1, <2>2 DEF Api!Commit, Api!Keys, Api!Nobody
    <3>2. pending[k] = r /\ job[k] \notin Requests
      BY <2>1, <2>2 DEF KeyOK
    <3>3. \A s \in Requests : KeyOf[s] = k =>
            s \notin jobs /\ answer[s] \notin Requests /\ stage[s] # "conflict"
            /\ (stage[s] = "inserted" => s = r)
      BY <2>1, <3>2 DEF KeyOK
    <3> QED
      BY <2>1, <3>1, <3>3, SubmissionAssumption DEF KeyOK
  <2>3. CASE KeyOf[r] # k
    <3>1. pending'[k] = pending[k] /\ job'[k] = job[k] /\ pending[k] # r
      BY <2>1, <2>3 DEF KeyOK, Api!Commit
    <3> QED
      BY <2>1, <2>3, <3>1 DEF KeyOK
  <2> QED
    BY <2>2, <2>3
<1>4. ASSUME NEW s \in Requests, stage'[s] = "conflict" PROVE KeyOf[s] # NoKey
  BY <1>4 DEF SubmissionInvariant, PlaneTypeOK, Api!TypeOK, Api!Commit, Api!Answer
<1> QED
  BY <1>2, <1>3, <1>4

\* ByIdempotencyKey: the request is given the job it conflicted with.
LEMMA SubmissionByIdempotencyKey ==
    ASSUME SubmissionInvariant, NEW r \in Requests, Api!ByIdempotencyKey(r)
    PROVE  Api!TypeOK' /\ (\A k \in Api!Keys : KeyOK(k)')
           /\ (\A s \in Requests : stage'[s] = "conflict" => KeyOf[s] # NoKey)
<1>1. Api!Cardinality(Api!Holding') <= PoolSize
  BY PoolHolds DEF SubmissionInvariant, PlaneTypeOK, Api!TypeOK, Api!ByIdempotencyKey,
     Api!Answer,
     Api!Holding, Api!Stages, Open
<1>2. Api!TypeOK'
  <2>1. job[KeyOf[r]] \in Requests
    BY KeyIsAKey DEF SubmissionInvariant, KeyOK, Api!ByIdempotencyKey
  <2> QED
    BY <1>1, <2>1 DEF SubmissionInvariant, PlaneTypeOK, Api!TypeOK,
       Api!ByIdempotencyKey, Api!Answer,
     Api!Stages, Api!Nobody
<1>3. ASSUME NEW k \in Api!Keys PROVE KeyOK(k)'
  BY KeyIsAKey, SubmissionAssumption
  DEF SubmissionInvariant, PlaneTypeOK, Api!TypeOK, Api!ByIdempotencyKey, Api!Answer,
      KeyOK, Api!Nobody
<1>4. ASSUME NEW s \in Requests, stage'[s] = "conflict" PROVE KeyOf[s] # NoKey
  BY <1>4 DEF SubmissionInvariant, PlaneTypeOK, Api!TypeOK, Api!ByIdempotencyKey,
     Api!Answer
<1> QED
  BY <1>2, <1>3, <1>4

\* HangUp: with the request goes its insert.
LEMMA SubmissionHangUp ==
    ASSUME SubmissionInvariant, NEW r \in Requests, Api!HangUp(r)
    PROVE  Api!TypeOK' /\ (\A k \in Api!Keys : KeyOK(k)')
           /\ (\A s \in Requests : stage'[s] = "conflict" => KeyOf[s] # NoKey)
<1>1. Api!Cardinality(Api!Holding') <= PoolSize
  BY PoolHolds DEF SubmissionInvariant, PlaneTypeOK, Api!TypeOK, Api!HangUp, Api!Answer,
     Api!Holding, Api!Stages, Open
<1>2. Api!TypeOK'
  BY <1>1, KeyIsAKey DEF SubmissionInvariant, PlaneTypeOK, Api!TypeOK, Api!HangUp,
     Api!Answer,
     Api!Stages, Api!Nobody
<1>3. ASSUME NEW k \in Api!Keys PROVE KeyOK(k)'
  BY KeyIsAKey, SubmissionAssumption
  DEF SubmissionInvariant, PlaneTypeOK, Api!TypeOK, Api!HangUp, Api!Answer, KeyOK,
      Api!Nobody
<1>4. ASSUME NEW s \in Requests, stage'[s] = "conflict" PROVE KeyOf[s] # NoKey
  BY <1>4 DEF SubmissionInvariant, PlaneTypeOK, Api!TypeOK, Api!HangUp, Api!Answer
<1> QED
  BY <1>2, <1>3, <1>4

\* A step of an instance that boots: the served one does not move, and the schema
\* does not shrink.
LEMMA SubmissionBoot ==
    ASSUME SubmissionInvariant, MigrateInvariant, MigrateInvariant',
           NEW i \in Instances, Boot(i) \/ Die(i), UNCHANGED api
    PROVE  SubmissionInvariant'
<1>1. recorded \subseteq recorded'
  BY DEF Boot, Die, AcquireLock, ReadApplied, Execute, RecordAndCommit, Unlock
<1>2. pc[Server] = "serving" => pc'[Server] = "serving"
  BY SubmissionAssumption
  DEF Boot, Die, AcquireLock, ReadApplied, Execute, RecordAndCommit, Unlock, Goto,
      MigrateInvariant, TypeOK
<1>3. SchemaBeforeRequests'
  BY <1>1, <1>2 DEF SubmissionInvariant, SchemaBeforeRequests, api
<1>4. PlaneTypeOK'
  BY DEF SubmissionInvariant, MigrateInvariant, PlaneTypeOK, Api!TypeOK, Api!Holding,
     api
<1> QED
  BY <1>3, <1>4 DEF SubmissionInvariant, SameKeySameJob, KeyOK, api

\* A step in which nothing changes.
LEMMA SubmissionStutter == SubmissionInvariant /\ UNCHANGED allVars => SubmissionInvariant'
BY DEF SubmissionInvariant, PlaneTypeOK, TypeOK, Api!TypeOK, Api!Holding,
   SameKeySameJob,
       SchemaBeforeRequests, KeyOK, allVars, vars, api

LEMMA SubmissionStep ==
    SubmissionInvariant /\ MigrateInvariant /\ MigrateInvariant' /\ [PlaneNext]_allVars
      => SubmissionInvariant'
<1> SUFFICES ASSUME SubmissionInvariant, MigrateInvariant, MigrateInvariant',
                    [PlaneNext]_allVars
             PROVE  SubmissionInvariant'
  OBVIOUS
<1>1. ASSUME NEW i \in Instances, Boot(i) \/ Die(i), UNCHANGED api
      PROVE  SubmissionInvariant'
  BY <1>1, SubmissionBoot
<1>2. ASSUME NEW r \in Requests, Serve(r) \/ HangUp(r)
      PROVE  SubmissionInvariant'
  <2>1. Api!TypeOK' /\ (\A k \in Api!Keys : KeyOK(k)')
        /\ (\A s \in Requests : stage'[s] = "conflict" => KeyOf[s] # NoKey)
    BY <1>2, SubmissionResolveLookup, SubmissionResolveInsert, SubmissionResolveCommit,
       SubmissionBegin, SubmissionInsert, SubmissionCommit, SubmissionByIdempotencyKey,
       SubmissionHangUp DEF Serve, HangUp, Api!Serve
  <2>2. SchemaBeforeRequests' /\ TypeOK'
    BY <1>2, ServedOnSchema DEF Serve, HangUp
  <2>3. SameKeySameJob'
    BY <2>1, KeyIsAKey DEF KeyOK, SameKeySameJob
  <2> QED
    BY <2>1, <2>2, <2>3 DEF SubmissionInvariant, PlaneTypeOK
<1>3. CASE UNCHANGED allVars
  BY <1>3, SubmissionStutter
<1> QED
  BY <1>1, <1>2, <1>3 DEF PlaneNext

\* handleCreateJob, for any requests, keys and pool: retries of one submission never
\* create two jobs and are all given the same one, the pool is never overdrawn, and
\* no request is looked at before the schema is complete.
THEOREM RetriesSafe == PlaneSpec => []SubmissionInvariant
<1>1. PlaneSpec => []MigrateInvariant
  BY MigrationSafe
<1> QED
  BY <1>1, SubmissionInit, SubmissionStep, PTL DEF PlaneSpec
=============================================================================

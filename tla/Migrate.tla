------------------------------- MODULE Migrate -------------------------------
(***************************************************************************)
(* db.Migrate: control-plane instances of different releases boot at the   *)
(* same time, each applying the migrations it carries. An instance may die *)
(* anywhere; its connection then ends, and with it the advisory lock and   *)
(* whatever transaction was open. A migration creates objects, so its body *)
(* fails if it has already been applied.                                   *)
(***************************************************************************)
EXTENDS Integers, FiniteSets

CONSTANTS
    Instances,  \* control-plane processes
    Known,      \* Known[i]: instance i carries the files 1 .. Known[i]
    MaxDeaths   \* processes that die while migrating

ASSUME MigrateAssumption ==
    /\ Known \in [Instances -> Nat \ {0}] /\ MaxDeaths \in Nat
    /\ "none" \notin Instances

VARIABLES
    lock,      \* the instance whose connection holds the advisory lock, or "none"
    schema,    \* schema[f]: how often the body of file f has been committed
    recorded,  \* rows of schema_migrations
    pc,        \* where each instance is
    applied,   \* applied[i]: the names instance i has read, or applied since
    deaths

vars == <<lock, schema, recorded, pc, applied, deaths>>

AllFiles == UNION { 1 .. Known[i] : i \in Instances }

TypeOK ==
    /\ lock \in Instances \cup {"none"}
    /\ schema \in [AllFiles -> 0 .. 1]
    /\ recorded \subseteq AllFiles
    /\ pc \in [Instances -> {"boot", "locked", "apply", "executed", "serving", "refused"}]
    /\ applied \in [Instances -> SUBSET AllFiles]
    /\ deaths \in 0 .. MaxDeaths

Init ==
    /\ lock = "none" /\ recorded = {} /\ schema = [f \in AllFiles |-> 0]
    /\ pc = [i \in Instances |-> "boot"] /\ applied = [i \in Instances |-> {}]
    /\ deaths = 0

----------------------------------------------------------------------------

Goto(i, p) == pc' = [pc EXCEPT ![i] = p]

\* Faulty variant of AcquireLock: the lock is not waited for.
AcquireLockTry(i) ==
    /\ pc[i] = "boot"
    /\ lock' = IF lock = "none" THEN i ELSE lock
    /\ Goto(i, "locked")
    /\ UNCHANGED <<schema, recorded, applied, deaths>>

\* pg_advisory_lock waits until nobody holds the lock.
AcquireLock(i) ==
    /\ pc[i] = "boot" /\ lock = "none"
    /\ lock' = i /\ Goto(i, "locked")
    /\ UNCHANGED <<schema, recorded, applied, deaths>>

\* The bookkeeping table is created if need be and read once.
ReadApplied(i) ==
    /\ pc[i] = "locked" /\ Goto(i, "apply")
    /\ applied' = [applied EXCEPT ![i] = recorded]
    /\ UNCHANGED <<lock, schema, recorded, deaths>>

Pending(i) == (1 .. Known[i]) \ applied[i]

\* migrationNames sorts the files, and the loop skips the applied ones.
IsNext(i, f) == f \in Pending(i) /\ \A g \in Pending(i) : f <= g

\* The body runs in a transaction; if it has been applied already it fails, the
\* transaction is rolled back, and the process does not start.
Execute(i, f) ==
    /\ pc[i] = "apply" /\ IsNext(i, f)
    /\ IF schema[f] = 0 THEN Goto(i, "executed") /\ UNCHANGED lock
                        ELSE /\ Goto(i, "refused")
                             /\ lock' = IF lock = i THEN "none" ELSE lock
    /\ UNCHANGED <<schema, recorded, applied, deaths>>

\* The file is recorded in the same transaction, which commits. Two transactions
\* that ran the same body cannot both commit.
RecordAndCommit(i, f) ==
    /\ pc[i] = "executed" /\ IsNext(i, f)
    /\ IF schema[f] = 0
       THEN /\ schema' = [schema EXCEPT ![f] = @ + 1] /\ recorded' = recorded \cup {f}
            /\ applied' = [applied EXCEPT ![i] = @ \cup {f}]
            /\ Goto(i, "apply") /\ UNCHANGED lock
       ELSE /\ Goto(i, "refused") /\ lock' = IF lock = i THEN "none" ELSE lock
            /\ UNCHANGED <<schema, recorded, applied>>
    /\ UNCHANGED deaths

\* Faulty variant of Unlock: the connection goes back to the pool as it is.
UnlockNot(i) ==
    /\ pc[i] = "apply" /\ Pending(i) = {} /\ Goto(i, "serving")
    /\ UNCHANGED <<lock, schema, recorded, applied, deaths>>

\* All files are applied: the lock is given up and the process serves.
Unlock(i) ==
    /\ pc[i] = "apply" /\ Pending(i) = {} /\ Goto(i, "serving")
    /\ lock' = IF lock = i THEN "none" ELSE lock
    /\ UNCHANGED <<schema, recorded, applied, deaths>>

\* The process dies, or its connection does, and it boots again.
Die(i) ==
    /\ pc[i] \notin {"boot", "serving"} /\ deaths < MaxDeaths
    /\ deaths' = deaths + 1 /\ Goto(i, "boot")
    /\ lock' = IF lock = i THEN "none" ELSE lock
    /\ applied' = [applied EXCEPT ![i] = {}]
    /\ UNCHANGED <<schema, recorded>>

Boot(i) ==
    \/ AcquireLock(i) \/ ReadApplied(i) \/ Unlock(i)
    \/ \E f \in AllFiles : Execute(i, f) \/ RecordAndCommit(i, f)

Next == \E i \in Instances : Boot(i) \/ Die(i)

Spec == Init /\ [][Next]_vars

----------------------------------------------------------------------------

\* db.go: each file is applied at most once, and the table says which: whatever
\* dies, a file is recorded exactly when its body has been committed.
RecordedIsApplied == \A f \in AllFiles : f \in recorded <=> schema[f] = 1

\* Files take effect in their order, also when an old release and a new one boot
\* together: no file is applied before one that sorts before it.
AppliedInOrder == \A f, g \in AllFiles : (f < g /\ schema[g] = 1) => schema[f] = 1

\* db.go: Migrate is safe to run concurrently. No instance is refused because
\* another has just applied what it was about to apply.
NobodyRefused == \A i \in Instances : pc[i] # "refused"

\* What the lock buys, and what the other invariants rest on: exactly the holder
\* is between reading the table and giving the lock up, so what it read stays true,
\* and an instance serves only on a schema that has everything it carries.
MigrateInvariant ==
    /\ TypeOK /\ RecordedIsApplied /\ AppliedInOrder /\ NobodyRefused
    /\ \A i \in Instances :
         /\ pc[i] \in {"locked", "apply", "executed"} <=> lock = i
         /\ pc[i] \in {"apply", "executed"} => applied[i] = recorded
         /\ pc[i] = "serving" => (1 .. Known[i]) \subseteq recorded

\* Every instance comes up, with every file it carries applied.
EveryoneServes ==
    \A i \in Instances : <>(pc[i] = "serving" /\ (1 .. Known[i]) \subseteq recorded)
=============================================================================

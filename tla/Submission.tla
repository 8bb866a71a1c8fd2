----------------------------- MODULE Submission -----------------------------
(***************************************************************************)
(* Concurrent submissions of jobs: handleCreateJob as the database and the *)
(* connection pool see it. A request resolves its pipeline in one          *)
(* transaction and creates its job in another; the two unique constraints  *)
(* (tenant and pipeline name, tenant and idempotency key) make a statement *)
(* wait for an uncommitted row of another transaction. Every transaction   *)
(* and every lookup takes a connection of the pool. All requests are of    *)
(* one tenant and name one pipeline; what a job consists of is JobStore's  *)
(* business. ControlPlane composes this with the start of the process.     *)
(***************************************************************************)
EXTENDS Naturals, FiniteSets

CONSTANTS
    Requests,   \* submissions, retries of one another included
    NoKey,      \* the idempotency key of a request that has none
    KeyOf,      \* KeyOf[r]: the request's idempotency key
    PoolSize,   \* connections of the control plane
    Impatient   \* requests whose client may hang up

Nobody == "nobody"
Keys == {KeyOf[r] : r \in Requests} \ {NoKey}

VARIABLES
    pc,        \* pc[r]: where the request is
    pipeline,  \* "absent", "pending" (inserted, not committed) or "present"
    pending,   \* pending[k]: the request whose insert of key k is uncommitted
    job,       \* job[k]: the request that created the job of key k
    jobs,      \* requests that created a job
    answer     \* answer[r]: the creator of the job it was given, "error" or "none"

vars == <<pc, pipeline, pending, job, jobs, answer>>

Stages == {"arrived", "missing", "naming", "resolved", "tx", "inserted", "conflict", "done"}

\* The requests with a transaction open, each on a connection of its own.
Holding == {r \in Requests : pc[r] \in {"missing", "naming", "tx", "inserted", "conflict"}}

TypeOK ==
    /\ pc \in [Requests -> Stages]
    /\ pipeline \in {"absent", "pending", "present"}
    /\ pending \in [Keys -> Requests \cup {Nobody}]
    /\ job \in [Keys -> Requests \cup {Nobody}]
    /\ jobs \subseteq Requests
    /\ answer \in [Requests -> Requests \cup {"error", "none"}]
    /\ Cardinality(Holding) <= PoolSize

Init ==
    /\ pc = [r \in Requests |-> "arrived"]
    /\ pipeline \in {"absent", "present"}
    /\ pending = [k \in Keys |-> Nobody] /\ job = [k \in Keys |-> Nobody]
    /\ jobs = {} /\ answer = [r \in Requests |-> "none"]

\* pool.Begin and pool.QueryRow wait for a free connection.
Acquire == Cardinality(Holding) < PoolSize

Answer(r, a) ==
    pc' = [pc EXCEPT ![r] = "done"] /\ answer' = [answer EXCEPT ![r] = a]

----------------------------------------------------------------------------
(* pipeline.Store.Resolve *)

\* Begin and look the pipeline up; the row of a transaction that has not committed
\* is not seen.
ResolveLookup(r) ==
    /\ pc[r] = "arrived" /\ Acquire
    /\ pc' = [pc EXCEPT ![r] = IF pipeline = "present" THEN "resolved" ELSE "missing"]
    /\ UNCHANGED <<pipeline, pending, job, jobs, answer>>

\* Insert it. The statement waits while another insert of the name is uncommitted,
\* and fails if that one commits.
ResolveInsert(r) ==
    /\ pc[r] = "missing"
    /\ \/ /\ pipeline = "absent" /\ pipeline' = "pending"
          /\ pc' = [pc EXCEPT ![r] = "naming"] /\ UNCHANGED answer
       \/ pipeline = "present" /\ Answer(r, "error") /\ UNCHANGED pipeline
    /\ UNCHANGED <<pending, job, jobs>>

ResolveCommit(r) ==
    /\ pc[r] = "naming"
    /\ pipeline' = "present" /\ pc' = [pc EXCEPT ![r] = "resolved"]
    /\ UNCHANGED <<pending, job, jobs, answer>>

----------------------------------------------------------------------------
(* job.Store.Create *)

Begin(r) ==
    /\ pc[r] = "resolved" /\ Acquire
    /\ pc' = [pc EXCEPT ![r] = "tx"]
    /\ UNCHANGED <<pipeline, pending, job, jobs, answer>>

\* Faulty variant of Insert: an uncommitted job of the same key is not waited for.
InsertRacing(r) ==
    /\ pc[r] = "tx"
    /\ LET k == KeyOf[r] IN
         \/ /\ k # NoKey => job[k] = Nobody
            /\ pending' = IF k = NoKey THEN pending ELSE [pending EXCEPT ![k] = r]
            /\ pc' = [pc EXCEPT ![r] = "inserted"]
         \/ /\ k # NoKey /\ job[k] # Nobody
            /\ pc' = [pc EXCEPT ![r] = "conflict"] /\ UNCHANGED pending
    /\ UNCHANGED <<pipeline, job, jobs, answer>>

\* insert ... on conflict do nothing: waits for an uncommitted job of the same key,
\* inserts if there is none, and reports a conflict if there is one. Requests
\* without a key never conflict.
Insert(r) ==
    /\ pc[r] = "tx"
    /\ LET k == KeyOf[r] IN
         \/ /\ k # NoKey => pending[k] = Nobody /\ job[k] = Nobody
            /\ pending' = IF k = NoKey THEN pending ELSE [pending EXCEPT ![k] = r]
            /\ pc' = [pc EXCEPT ![r] = "inserted"]
         \/ /\ k # NoKey /\ job[k] # Nobody
            /\ pc' = [pc EXCEPT ![r] = "conflict"] /\ UNCHANGED pending
    /\ UNCHANGED <<pipeline, job, jobs, answer>>

\* The tasks are inserted and the transaction commits.
Commit(r) ==
    /\ pc[r] = "inserted"
    /\ jobs' = jobs \cup {r}
    /\ LET k == KeyOf[r] IN
         IF k = NoKey THEN UNCHANGED <<pending, job>>
         ELSE /\ pending' = [pending EXCEPT ![k] = Nobody]
              /\ job' = [job EXCEPT ![k] = r]
    /\ Answer(r, r)
    /\ UNCHANGED pipeline

\* byIdempotencyKey: a second connection, while the deferred Rollback has yet to
\* give the first one back.
ByIdempotencyKey(r) ==
    /\ pc[r] = "conflict" /\ Acquire
    /\ Answer(r, job[KeyOf[r]])
    /\ UNCHANGED <<pipeline, pending, job, jobs>>

----------------------------------------------------------------------------

\* Faulty variant of HangUp: the transaction of a job is left open.
HangUpNoRollback(r) ==
    /\ r \in Impatient /\ pc[r] # "done"
    /\ Answer(r, "error")
    /\ pipeline' = IF pc[r] = "naming" THEN "absent" ELSE pipeline
    /\ UNCHANGED <<pending, job, jobs>>

\* The client hangs up: the request's context ends, whatever it waited for fails
\* and its transaction is rolled back.
HangUp(r) ==
    /\ r \in Impatient /\ pc[r] # "done"
    /\ Answer(r, "error")
    /\ pipeline' = IF pc[r] = "naming" THEN "absent" ELSE pipeline
    /\ pending' = [k \in Keys |-> IF pending[k] = r THEN Nobody ELSE pending[k]]
    /\ UNCHANGED <<job, jobs>>

Serve(r) ==
    \/ ResolveLookup(r) \/ ResolveInsert(r) \/ ResolveCommit(r)
    \/ Begin(r) \/ Insert(r) \/ Commit(r) \/ ByIdempotencyKey(r)

Next == \E r \in Requests : Serve(r) \/ HangUp(r)
=============================================================================

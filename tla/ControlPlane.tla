---------------------------- MODULE ControlPlane ----------------------------
(***************************************************************************)
(* cmd/transflux: instances of two releases boot and migrate the           *)
(* database (Migrate), and one of them, once it serves, is sent            *)
(* submissions (Submission) while the others may still be starting. The    *)
(* requests and the connection pool are those of that instance.            *)
(***************************************************************************)
EXTENDS Migrate

CONSTANTS
    Server,                                          \* the instance followed
    Requests, NoKey, KeyOf, PoolSize, Impatient      \* see Submission

ASSUME SubmissionAssumption ==
    /\ Server \in Instances
    /\ PoolSize \in Nat \ {0} /\ Impatient \subseteq Requests /\ DOMAIN KeyOf = Requests
    /\ IsFiniteSet(Requests) /\ Requests \cap {"nobody", "error", "none"} = {}

VARIABLES stage, pipeline, pending, job, jobs, answer

api == <<stage, pipeline, pending, job, jobs, answer>>

Api == INSTANCE Submission WITH pc <- stage

PlaneInit == Init /\ Api!Init

\* api.Serve: a process that has migrated listens.
Serve(r) == pc[Server] = "serving" /\ Api!Serve(r) /\ UNCHANGED vars

HangUp(r) == pc[Server] = "serving" /\ Api!HangUp(r) /\ UNCHANGED vars

PlaneNext ==
    \/ \E i \in Instances : (Boot(i) \/ Die(i)) /\ UNCHANGED api
    \/ \E r \in Requests : Serve(r) \/ HangUp(r)

allVars == <<vars, api>>

(* A process that is not waiting runs on, and the lock is granted in turn; the
   handler of a request runs on until it waits, and a client need not hang up. *)
PlaneSpec ==
    /\ PlaneInit /\ [][PlaneNext]_allVars
    /\ \A i \in Instances : SF_allVars(Boot(i) /\ UNCHANGED api)
    /\ \A r \in Requests : WF_allVars(Serve(r))

----------------------------------------------------------------------------
(* Properties *)

PlaneTypeOK == TypeOK /\ Api!TypeOK

\* Retried submissions are safe: requests with the same key are given the same
\* job, and no key has two, however they interleave and whoever hangs up.
SameKeySameJob ==
    \A r, s \in Requests :
      (KeyOf[r] = KeyOf[s] /\ KeyOf[r] # NoKey) =>
        /\ (r \in jobs /\ s \in jobs) => r = s
        /\ (answer[r] \in Requests /\ answer[s] \in Requests) => answer[r] = answer[s]

\* What the database knows of key k: at most one uncommitted insert, and none once a
\* job has the key; that job is the only one, and the one everybody is given.
KeyOK(k) ==
    /\ pending[k] \in Requests =>
         stage[pending[k]] = "inserted" /\ KeyOf[pending[k]] = k /\ job[k] \notin Requests
    /\ \A r \in Requests : KeyOf[r] = k =>
         /\ stage[r] = "inserted" => pending[k] = r
         /\ stage[r] = "conflict" => job[k] \in Requests
         /\ r \in jobs => job[k] = r
         /\ answer[r] \in Requests => answer[r] = job[k]

\* No request is looked at on a schema that lacks something its handler needs.
SchemaBeforeRequests ==
    \A r \in Requests : stage[r] # "arrived" =>
      pc[Server] = "serving" /\ (1 .. Known[Server]) \subseteq recorded

\* Submissions are safe to retry, on a pool that never hands out more than it has
\* and on a schema that is complete. KeyOK is what makes it inductive.
SubmissionInvariant ==
    /\ PlaneTypeOK /\ SameKeySameJob /\ SchemaBeforeRequests
    /\ \A k \in Api!Keys : KeyOK(k)
    /\ \A r \in Requests : stage[r] = "conflict" => KeyOf[r] # NoKey

\* Every submission is answered, from a cold start: the instance comes up although
\* others die holding the lock, and with a connection more than one key has
\* retries waiting the pool does not run dry.
SubmissionsAnswered == \A r \in Requests : <>(stage[r] = "done")
=============================================================================

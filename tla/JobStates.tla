----------------------------- MODULE JobStates -----------------------------
(***************************************************************************)
(* The state machines of internal/job/state.go: the states of a task, of   *)
(* one attempt at a task and of a job, the legal moves between them, the   *)
(* retry policy, and the job state that reconcileJob derives from a job's  *)
(* tasks. Nothing here has state; JobStore applies these operators.        *)
(***************************************************************************)
EXTENDS Naturals

\* "absent" stands for a row that has not been inserted.
TaskStates == {"absent", "pending", "queued", "leased", "running",
               "succeeded", "failed", "cancelled"}

AttemptStates == {"absent", "leased", "running", "succeeded", "failed",
                  "cancelled", "expired"}

JobStates == {"absent", "pending", "running", "succeeded", "failed", "cancelled"}

\* The states a lease is held in: what every query of the store spells
\* `state in ('leased','running')`.
Live == {"leased", "running"}

\* Faulty variant of LegalTaskTransitions: no way back to the queue for a task
\* whose worker never started.
LegalTaskTransitionsNoRequeue ==
    ({"pending"} \X {"queued", "cancelled"})
      \cup ({"queued"} \X {"leased", "cancelled"})
      \cup ({"leased"} \X {"running", "failed", "cancelled"})
      \cup ({"running"} \X {"succeeded", "failed", "cancelled", "queued"})
      \cup ({"failed"} \X {"queued"})

\* The pairs legalTaskTransitions allows.
LegalTaskTransitions ==
    ({"pending"} \X {"queued", "cancelled"})
      \cup ({"queued"} \X {"leased", "cancelled"})
      \cup ({"leased"} \X {"running", "queued", "failed", "cancelled"})
      \cup ({"running"} \X {"succeeded", "failed", "cancelled", "queued"})
      \cup ({"failed"} \X {"queued"})

\* The pairs legalAttemptTransitions allows.
LegalAttemptTransitions ==
    ({"leased"} \X {"running", "failed", "cancelled", "expired"})
      \cup ({"running"} \X {"succeeded", "failed", "cancelled", "expired"})

CanTransitionTask(from, to) == <<from, to>> \in LegalTaskTransitions

CanTransitionAttempt(from, to) == <<from, to>> \in LegalAttemptTransitions

TaskTerminal == {"succeeded", "cancelled", "failed"}

JobTerminal == {"succeeded", "failed", "cancelled"}

----------------------------------------------------------------------------

FailureClasses == {"transient", "resource", "permanent_input",
                   "permanent_config", "infrastructure", "unknown"}

Retryable(class) == class \in {"transient", "resource", "infrastructure", "unknown"}

\* Faulty variant of Retrying: one attempt too many.
RetryingOffByOne(class, count, max) ==
    Retryable(IF class \in FailureClasses THEN class ELSE "unknown") /\ count <= max

\* Whether a failed attempt sends its task back to the queue. A class the
\* store does not know is recorded as "unknown", which is retryable.
Retrying(class, count, max) ==
    Retryable(IF class \in FailureClasses THEN class ELSE "unknown") /\ count < max

\* Faulty variant of Derive: a job has succeeded once nothing is left to do.
DeriveNothingLeft(state, T) ==
    IF \A t \in T : state[t] \in TaskTerminal THEN "succeeded"
    ELSE IF \E t \in T : state[t] \in Live \cup {"succeeded"} THEN "running"
    ELSE "pending"

\* reconcileJob's switch, over the states `state[t]` of the tasks T of a job.
Derive(state, T) ==
    IF \E t \in T : state[t] = "failed" THEN "failed"
    ELSE IF \E t \in T : state[t] = "cancelled" THEN "cancelled"
    ELSE IF \A t \in T : state[t] = "succeeded" THEN "succeeded"
    ELSE IF \E t \in T : state[t] \in Live \cup {"succeeded"} THEN "running"
    ELSE "pending"
============================================================================

--------------------------- MODULE LeaseProtocol ---------------------------
(***************************************************************************)
(* What the job store promises about leases, without tables, transactions  *)
(* or races: work on a task is handed to one worker at a time, each        *)
(* handing-over is numbered and spends one unit of a fixed budget, a lease *)
(* ends with or without a result, and a task that has a result is never    *)
(* handed out again. JobStore implements this specification.               *)
(***************************************************************************)
EXTENDS Naturals

CONSTANTS Tasks, Workers, MaxAttempts

VARIABLES
    open,    \* [Tasks -> set of <<attempt number, worker>>]: leases being held
    grants,  \* [Tasks -> Nat]: leases granted so far
    done     \* [Tasks -> BOOLEAN]: there is a result

vars == <<open, grants, done>>

Init ==
    /\ open = [t \in Tasks |-> {}]
    /\ grants = [t \in Tasks |-> 0]
    /\ done = [t \in Tasks |-> FALSE]

\* Lease: the attempt gets the next number.
Grant(t, w) ==
    /\ open[t] = {} /\ ~done[t] /\ grants[t] < MaxAttempts
    /\ open' = [open EXCEPT ![t] = {<<grants[t] + 1, w>>}]
    /\ grants' = [grants EXCEPT ![t] = grants[t] + 1]
    /\ UNCHANGED done

\* Complete with a result: only the one holder can.
Finish(t) ==
    /\ open[t] # {}
    /\ open' = [open EXCEPT ![t] = {}]
    /\ done' = [done EXCEPT ![t] = TRUE]
    /\ UNCHANGED grants

\* Leases end without a result: a failure report, a cancelled task's report, or
\* a sweep, which ends many at once.
Release(S) ==
    /\ open' = [t \in Tasks |-> IF t \in S THEN {} ELSE open[t]]
    /\ UNCHANGED <<grants, done>>

Next ==
    \/ \E t \in Tasks, w \in Workers : Grant(t, w)
    \/ \E t \in Tasks : Finish(t)
    \/ \E S \in SUBSET Tasks : Release(S)

Spec == Init /\ [][Next]_vars
============================================================================

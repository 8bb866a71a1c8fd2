---------------------------- MODULE JobStoreLive ----------------------------
(***************************************************************************)
(* JobStore with the fairness its runtime provides, for the properties     *)
(* that say something eventually happens.                                  *)
(*                                                                         *)
(* A handler that has begun runs to its end, row locks are granted in the  *)
(* order they are asked for, the database's deadlock detector breaks every *)
(* cycle of waiting transactions, and SweepLeases' ticker never stops.     *)
(* Nothing is assumed of workers and users. Transactions are aborted here  *)
(* only as deadlock victims: what happens while the database is away is    *)
(* that nothing happens.                                                   *)
(***************************************************************************)
EXTENDS JobStore

\* The transactions p's next statement has to wait for.
WaitsFor(p) ==
    LET Holders(S) == {taskLock[t] : t \in S} \ {p, NoProc}
    IN  CASE pc[p] \in {"transition", "fail"} -> Holders({tid[p]})
          [] pc[p] = "release"     -> Holders(Released(p))
          [] pc[p] = "sweep"       -> Holders({a[1] : a \in todo[p]})
          [] pc[p] = "cancelTasks" -> Holders({t \in Tasks : jobLock[JobOf[t]] = p})
          [] pc[p] = "updateJob"   -> {jobLock[JobOf[tid[p]]]} \ {p, NoProc}
          [] OTHER -> {}

\* PostgreSQL's deadlock detector: p waits in a circle of transactions.
DeadlockVictim(p) ==
    /\ \E S \in SUBSET Procs : p \in S /\ \A q \in S : WaitsFor(q) \cap S # {}
    /\ Abort(p)

LiveNext ==
    \/ \E j \in Jobs : Create(j)
    \/ \E t \in Tasks, n \in Numbers : Lapse(t, n)
    \/ \E p \in Procs : Step(p) \/ Call(p) \/ Sweep(p) \/ DeadlockVictim(p)

LiveSpec ==
    /\ Init /\ [][LiveNext]_vars
    /\ \A p \in Procs : /\ WF_vars(Step(p)) /\ WF_vars(DeadlockVictim(p))
                        /\ SF_vars(UpdateJob(p) \/ CancelTasks(p))
    /\ SF_vars(\E p \in Procs : Sweep(p))

\* Every transaction ends, although Cancel locks the job before the tasks while
\* Complete, Lease and ExpireLeases lock tasks before the job.
TransactionsEnd == \A p \in Procs : pc[p] # "idle" ~> pc[p] = "idle"

\* A lease that lapses is reclaimed, or renewed by its worker, whatever else is
\* going on: no work is lost with the worker that held it.
LapsedLeaseReclaimed ==
    \A t \in Tasks, n \in Numbers :
        att[t][n].state \in Live /\ att[t][n].lapsed
          ~> ~(att[t][n].state \in Live /\ att[t][n].lapsed)
============================================================================

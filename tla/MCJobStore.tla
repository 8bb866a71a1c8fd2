----------------------------- MODULE MCJobStore -----------------------------
(* Small instances of JobStore: task graphs and worker capacities. *)
EXTENDS JobStoreInv, JobStoreLive, TLC

CONSTANTS j1, j2, t1, t2, t3

\* t3, where it exists, is a job of its own when there are two jobs.
MCJobOf == [t \in Tasks |-> IF t = t3 /\ j2 \in Jobs THEN j2 ELSE j1]

NoDependencies == [t \in Tasks |-> {}]
FanIn == [t \in Tasks |-> IF t = t3 THEN {t1, t2} ELSE {}]

EveryTask == [w \in Workers |-> Tasks]
OnePool == [t \in Tasks |-> "cpu"]
OneSlot == [w \in Workers |-> [c \in {"cpu"} |-> 1]]
TwoSlots == [w \in Workers |-> [c \in {"cpu"} |-> 2]]
OneTenant == [j \in Jobs |-> "tenant"]
QuotaMany == [x \in {"tenant"} |-> 9]

AllOutcomes == {"success", "transient", "permanent_input"}

Symmetry == Permutations(Procs) \cup Permutations(Workers)
SymmetryTasks == Symmetry \cup Permutations({t1, t2})
============================================================================

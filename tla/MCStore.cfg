SPECIFICATION Spec
CONSTANTS
  j1 = j1
  j2 = j2
  t1 = t1
  t2 = t2
  t3 = t3
  NoProc = NoProc
  NoWorker = NoWorker
  NoTask = NoTask
  Jobs = {j1}
  Tasks = {t1, t2}
  Workers = {w1, w2}
  Procs = {p1, p2}
  MaxAttempts = 2
  SweepBatch = 2
  JobOf <- MCJobOf
  DependsOn <- NoDependencies
  Eligible <- EveryTask
  SlotClass <- OnePool
  Capacity <- OneSlot
  TenantOf <- OneTenant
  Quota <- QuotaMany
  Results <- AllOutcomes
INVARIANTS LeaseExclusive ResultHasOneAuthor SlotsWithinCapacity NeverPoisoned StoreInvariant
PROPERTIES OutcomesFinal ImplementsLeaseProtocol
SYMMETRY SymmetryTasks
CHECK_DEADLOCK FALSE

SPECIFICATION LiveSpec
CONSTANTS
  j1 = j1
  j2 = j2
  t1 = t1
  t2 = t2
  t3 = t3
  NoProc = NoProc
  NoWorker = NoWorker
  NoTask = NoTask
  Jobs = {j1}
  Tasks = {t1, t2, t3}
  Workers = {w1}
  Procs = {p1, p2}
  MaxAttempts = 1
  SweepBatch = 2
  JobOf <- MCJobOf
  DependsOn <- FanIn
  Eligible <- EveryTask
  SlotClass <- OnePool
  Capacity <- TwoSlots
  TenantOf <- OneTenant
  Quota <- QuotaMany
  Results <- AllOutcomes
INVARIANTS
  DependencyGate
  JobOutcomeHappened
PROPERTIES
  TransactionsEnd
  LapsedLeaseReclaimed
CHECK_DEADLOCK FALSE

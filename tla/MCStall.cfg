SPECIFICATION Spec
CONSTANTS
  j1 = j1
  j2 = j2
  t1 = t1
  t2 = t2
  t3 = t3
  NoProc = NoProc
  NoWorker = NoWorker
  NoTask = NoTask
  Jobs = {j1}
  Tasks = {t1, t2, t3}
  Workers = {w1, w2}
  Procs = {p1, p2}
  MaxAttempts = 1
  SweepBatch = 2
  JobOf <- MCJobOf
  DependsOn <- FanIn
  Eligible <- EveryTask
  SlotClass <- OnePool
  Capacity <- OneSlot
  TenantOf <- OneTenant
  Quota <- QuotaMany
  Results <- AllOutcomes
INVARIANTS
  GraphNeverStalls
SYMMETRY Symmetry
CHECK_DEADLOCK FALSE

\* A rolling deployment in which one process dies, and submissions on a pool that runs out.
SPECIFICATION PlaneSpec
CONSTANTS
    Instances <- MCInstances
    Known <- MCKnown
    MaxDeaths = 1
    Server = "new1"
    r1 = r1
    r2 = r2
    r3 = r3
    r4 = r4
    k1 = k1
    NoKey = NoKey
    Requests = {r1, r2, r3, r4}
    KeyOf <- Keys4
    PoolSize = 3
    Impatient = {r1}
INVARIANTS MigrateInvariant SubmissionInvariant
PROPERTIES EveryoneServes SubmissionsAnswered
CHECK_DEADLOCK FALSE

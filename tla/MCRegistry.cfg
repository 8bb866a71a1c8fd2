SPECIFICATION LiveSpec
CONSTANTS
    a1 = a1
    a2 = a2
    w1 = w1
    Names = {w1}
    Agents = {a1, a2}
    NameOf <- OneName
    HeartbeatInterval = 2
    MaxLatency = 1
    MaxMisses = 3
    Reports = {TRUE, FALSE}
    None = None
INVARIANTS RegistryInvariant
PROPERTIES StateFollowsHeartbeats DrainEmpties
CHECK_DEADLOCK FALSE

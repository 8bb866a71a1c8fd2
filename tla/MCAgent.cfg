SPECIFICATION LiveSpec
CONSTANTS
    LeaseTTL = 9
    CallTimeout = 9
    Backoff <- DefaultBackoff
    Artifacts = 1
    Failures = {"permanent_config"}
    MaxLosses = 2
    Cancels = TRUE
INVARIANTS LeaseHeldWhileWorking RecordIsTrue
PROPERTIES LostWorkStops AttemptEnds


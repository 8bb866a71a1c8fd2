\* Every executor, with every kind of fault, and tools that start a helper.
SPECIFICATION TaskSpec
CONSTANTS
    Kinds = {"encode", "package", "thumbnail", "validate", "probe"}
    Labels = {r1, r2}
    MaxAttempts = 2
    MaxFaults <- Trouble
    Leader = tool
    Helpers = {helper1, helper2}
    Grace = 2
    Daemons = TRUE
INVARIANTS SuccessIsWhole VerdictIsFair RunIsOver
PROPERTIES CancelEndsRun
CHECK_DEADLOCK FALSE

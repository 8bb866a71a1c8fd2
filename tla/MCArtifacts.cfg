SPECIFICATION Spec
CONSTANTS
    Outputs = {a, b}
    Check = check
    MaxAttempts = 2
    Contents = {c, d}
    SizeOf <- Sizes
    Failures = {"permanent_input"}
    MaxFaults = 1
    MaxLapses = 1
    Cancels = TRUE
    MaxTroubles = 2
    None = None
SYMMETRY Symmetry
INVARIANTS ArtifactInvariant DeliveredWasValidated LostOnlyToRaces
PROPERTIES CompleteSetFrozen
CHECK_DEADLOCK FALSE

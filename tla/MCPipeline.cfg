\* Every shape of source and every colour the planner can state; every damage.
SPECIFICATION PipelineSpec
CONSTANTS
    Sources <- AllSources
    Damages = {"truncated", "silent", "resized", "corrupted"}
    MaxDamaged = 1
INVARIANTS PlanIsSound VerdictIsRight
CHECK_DEADLOCK FALSE

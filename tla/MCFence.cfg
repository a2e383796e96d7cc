SPECIFICATION FairSpec
CONSTANTS
    Nodes = {1, 2}
    Sessions <- MCMeasured
    MaxBenchmarks = 1
    MaxPosts = 1
INVARIANTS
    NoFenceFailure
    EpochsAgree
    MeasuredOnO3
    CheckpointHoldsAllWork
PROPERTIES
    FencesCommit
CHECK_DEADLOCK FALSE

SPECIFICATION FairSpec
CONSTANTS
    Nodes = {1, 2}
    Sessions <- MCAutoLatency
    MaxBenchmarks = 1
    MaxPosts = 1
INVARIANTS
    MeasuredOnO3
CHECK_DEADLOCK FALSE

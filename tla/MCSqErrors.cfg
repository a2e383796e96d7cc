SPECIFICATION Spec
CONSTANTS
    Jettys = {1}
    Kinds <- KindsAll
    Depth = 2
    Prefetch = 2
    Burst = 2
    MaxFetch = 2
    WriteWindow = 2
    ReadWindow = 0
    Pipelined = TRUE
    Slots = 2
    DirectWqe = TRUE
    TpTeardown = TRUE
    MaxPosts = 3
    MaxGen = 2
    MaxFaults = 1
INVARIANTS
    FramesInOrder
    CompletionIndexUnique
    NoLostDestroy
CHECK_DEADLOCK FALSE

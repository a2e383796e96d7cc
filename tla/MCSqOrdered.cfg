SPECIFICATION FairSpec
CONSTANTS
    Jettys = {1}
    Kinds <- KindsSizes
    Depth = 4
    Prefetch = 2
    Burst = 1
    MaxFetch = 2
    WriteWindow = 2
    ReadWindow = 1
    Pipelined = FALSE
    Slots = 1
    DirectWqe = FALSE
    TpTeardown = FALSE
    MaxPosts = 3
    MaxGen = 1
    MaxFaults = 0
INVARIANTS
    ExecutesPostedWqes
    OrderedAlone
PROPERTIES
    SubmittedWqesRetire
    JettyDestroyCompletes
CHECK_DEADLOCK FALSE

SPECIFICATION FairSpec
CONSTANTS
    Jfcs = {1}
    Ceqs = {1}
    CeqOf <- OneCeq
    Depth = 2
    Wrap = 4
    CeqDepth = 1
    Slots = 2
    Pipelined = TRUE
    OneShot = FALSE
    Counts = {1}
    Periods = {FALSE}
    StrayCqes = FALSE
    MaxCqe = 3
    MaxGen = 2
    MaxModify = 0
    MaxQuery = 0
    MaxFaults = 0
INVARIANTS
    GuestPollsPublishedCqe
    
PROPERTIES
    CompletionsReturn
    DestroyCompletes
CHECK_DEADLOCK FALSE

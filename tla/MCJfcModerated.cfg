SPECIFICATION Spec
CONSTANTS
    Jfcs = {1}
    Ceqs = {1}
    CeqOf <- OneCeq
    Depth = 1
    Wrap = 2
    CeqDepth = 1
    Slots = 1
    Pipelined = FALSE
    OneShot = TRUE
    Counts = {1, 2}
    Periods = {TRUE, FALSE}
    StrayCqes = TRUE
    MaxCqe = 2
    MaxGen = 1
    MaxModify = 1
    MaxQuery = 1
    MaxFaults = 1
INVARIANTS
    TypeOK
    CeqNeverOverrun
    NoMissedNotification
CHECK_DEADLOCK FALSE

SPECIFICATION Spec
CONSTANTS
    Mtu = 2
    Options <- SomeOptions
    Count = 1
    MaxFaults = 1
INVARIANTS
    
    CleanTrialPasses
CHECK_DEADLOCK FALSE

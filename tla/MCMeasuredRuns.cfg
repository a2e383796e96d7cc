SPECIFICATION FairSpec
CONSTANTS
    Participants = {"network", "host0", "udma0"}
    Cases = 2
    MaxRuns = 1
    MaxRestarts = 1
INVARIANTS
    SuccessMeansMeasured
    

    
CHECK_DEADLOCK FALSE

SPECIFICATION FairSpec
CONSTANTS
    Requests = {11}
    Jettys = {1}
    JettyOf <- OneJetty
    ByteCounts = {2, 3}
    Segments <- Overlapping
    Copies = {1}
    MayFail = TRUE
INVARIANTS
    SuccessMeansTransferred
    CompletesOnce
    NoDmaAfterCompletion
    ResponseDmaOwned

    
CHECK_DEADLOCK FALSE

SPECIFICATION FairSpec
CONSTANTS
    r1 = r1
    r2 = r2
    r3 = r3
    m1 = m1
    n1 = n1
    None = None
    Req = {r1, r2}
    Models = {m1}
    Nonces = {n1}
    Requests <- MixedRequests
    PsReplies <- NoModels
    TTL = 0
    TotalVram = 4
    TotalDram = 2
    SafetyMargin = 1
    DramSafetyMargin = 1
    EnableSpillover = TRUE
    GracePeriod = 1
    EstimateDefault <- TwoEach
    MaxInFlight = 2
PROPERTIES
    EveryReserveAnswered
    AbandonedReclaimed
CHECK_DEADLOCK FALSE

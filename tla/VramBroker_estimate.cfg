\* TLC reports the first of these that it finds violated; take it out to see
\* the next.
SPECIFICATION Spec
CONSTANTS
    r1 = r1
    r2 = r2
    r3 = r3
    m1 = m1
    n1 = n1
    None = None
    Req = {r1, r2, r3}
    Models = {m1}
    Nonces = {n1}
    Requests <- EstimatedRequests
    PsReplies <- OneModel
    TTL = 0
    TotalVram = 4
    TotalDram = 5
    SafetyMargin = 1
    DramSafetyMargin = 1
    EnableSpillover = TRUE
    GracePeriod = 1
    EstimateDefault <- TwoEach
    MaxInFlight = 1
SYMMETRY Symmetry
INVARIANTS
    EstimateNeverRefuses
    EstimatedLeaseSwapped
CHECK_DEADLOCK FALSE

SPECIFICATION GovSpec
CONSTANTS
    svc = svc
    None = None
    Service = {svc}
    MaxRestarts = 2
    Window = 3
    MaxTime = 12
INVARIANTS
    GovTypeOK
    RestartsCapped
    TripEarned
PROPERTY
    BreakerTerminal
CHECK_DEADLOCK FALSE

SPECIFICATION GovSpec
CONSTANTS
    svc = svc
    None = None
    Service = {svc}
    MaxRestarts = 2
    Window = 3
    MaxTime = 12
INVARIANT
    SlidingCap
CHECK_DEADLOCK FALSE

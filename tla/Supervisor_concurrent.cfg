SPECIFICATION Spec
CONSTANTS
    s1 = s1
    o1 = o1
    o2 = o2
    t1 = t1
    t2 = t2
    p1 = p1
    p2 = p2
    p3 = p3
    p4 = p4
    None = None
    Daemon = Daemon
    Service = {s1}
    MaxRestarts = 1
    Window = 0
    MaxTime = 1
    Pid = {p1, p2, p3}
    Op = {o1}
    Task = {t1, t2}
    Aliased = {}
    Hosted = {}
    SpawnMayFail = TRUE
    StartupCrash = TRUE
    Serial = FALSE
INVARIANTS
    TypeOK
    NoLeakedProcess
    PendingHasTask
    StoppedUnlessCrossed
PROPERTIES
    NoChildDroppedUnlessCrossed
    BreakerTerminal
SYMMETRY
    Symmetric
CHECK_DEADLOCK FALSE

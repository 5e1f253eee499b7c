SPECIFICATION Spec
CONSTANTS
    s1 = s1
    o1 = o1
    o2 = o2
    t1 = t1
    t2 = t2
    p1 = p1
    p2 = p2
    p3 = p3
    p4 = p4
    None = None
    Daemon = Daemon
    Service = {s1}
    MaxRestarts = 2
    Window = 1
    MaxTime = 3
    Pid = {p1, p2, p3}
    Op = {o1, o2}
    Task = {t1, t2}
    Aliased = {}
    Hosted = {}
    SpawnMayFail = TRUE
    StartupCrash = TRUE
    Serial = TRUE
INVARIANTS
    StoppedStaysDown
    TripEarned
PROPERTIES
    NoLiveChildDropped
SYMMETRY
    Symmetric
CHECK_DEADLOCK FALSE

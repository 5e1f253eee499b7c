SPECIFICATION FairSpec
CONSTANTS
    s1 = s1
    o1 = o1
    o2 = o2
    t1 = t1
    t2 = t2
    p1 = p1
    p2 = p2
    p3 = p3
    p4 = p4
    None = None
    Daemon = Daemon
    Service = {s1}
    MaxRestarts = 2
    Window = 1
    MaxTime = 4
    Pid = {p1, p2, p3}
    Op = {o1, o2}
    Task = {t1}
    Aliased = {}
    Hosted = {}
    SpawnMayFail = FALSE
    StartupCrash = FALSE
    Serial = TRUE
INVARIANTS
    RestartsCapped
    TripEarned
PROPERTIES
    CrashHandled
CHECK_DEADLOCK FALSE

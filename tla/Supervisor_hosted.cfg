SPECIFICATION FairSpec
CONSTANTS
    s1 = s1
    o1 = o1
    o2 = o2
    t1 = t1
    t2 = t2
    p1 = p1
    p2 = p2
    p3 = p3
    p4 = p4
    None = None
    Daemon = Daemon
    Service = {s1}
    MaxRestarts = 1
    Window = 1
    MaxTime = 1
    Pid = {p1, p2, p3}
    Op = {o1}
    Task = {t1}
    Aliased = {}
    Hosted = {s1}
    SpawnMayFail = FALSE
    StartupCrash = FALSE
    Serial = TRUE
PROPERTIES
    CrashHandled
CHECK_DEADLOCK FALSE

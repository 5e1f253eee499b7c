SPECIFICATION FairSpec
CONSTANTS
    e1 = e1
    e2 = e2
    t1 = t1
    t2 = t2
    p1 = p1
    p2 = p2
    p3 = p3
    p4 = p4
    None = None
    Boot = Boot
    Ext = {e1}
    PanelOnly = {}
    Task = {t1, t2}
    Pid = {p1, p2, p3}
    MaxAttempts = 2
    MaxEdits = 2
    DirMayFail = TRUE
INVARIANTS
    SoleServer
    NoStrayServer
PROPERTIES
    CallKeepsServer
    EveryRequestReturns

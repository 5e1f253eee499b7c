\* TLC reports the first of these that it finds violated; take it out to see
\* the next.
SPECIFICATION Spec
CONSTANTS
    d1 = d1
    d2 = d2
    d3 = d3
    t1 = t1
    t2 = t2
    t3 = t3
    q1 = q1
    q2 = q2
    o1 = o1
    o2 = o2
    r1 = r1
    r2 = r2
    read = read
    tools = tools
    None = None
    Device = {d1, d2, d3}
    Token = {t1, t2, t3}
    Tier = {read, tools}
    ReadOnly = read
    Stored <- OneStored
    Pairer = {q1, q2}
    Op = {o1, o2}
    MaxWindows = 1
    MaxOps = 2
    SaveMayFail = TRUE
    ReadMayFail = TRUE
    Req = {r1}
    TokenTtl = 1
    CallTime = 1
    MaxAge = 3
SYMMETRY Symmetry
INVARIANTS
    EventsMatchStore
PROPERTIES
    RevokedRefused
CHECK_DEADLOCK FALSE

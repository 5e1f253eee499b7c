SPECIFICATION Spec
CONSTANTS
    w = w
    x1 = x1
    x2 = x2
    o1 = o1
    o2 = o2
    None = None
    NoAuth = NoAuth
    Tool = {w}
    Destructive = {w}
    Dispatch = {x1}
    Op = {o1}
    Cap = 1
    MaxPrompts = 1
    MaxGrants = 1
    PersistMayFail = TRUE
    ReadMayFail = TRUE
INVARIANT PromptVisible
CHECK_DEADLOCK FALSE

\* TLC reports the first of these that it finds violated; take it out to see
\* the next.
SPECIFICATION FairSpec
CONSTANTS
    chat = chat
    fim = fim
    None = None
    Call = {fim}
    Fim = {fim}
    TTL = 1
    ReleaseMayFail = TRUE
    ModelMayUnload = FALSE
PROPERTIES
    LetGoReclaimed
    HeartbeatDiesWithGuard
CHECK_DEADLOCK FALSE

SPECIFICATION FairSpec
CONSTANTS
    chat = chat
    fim = fim
    None = None
    Call = {fim}
    Fim = {fim}
    TTL = 1
    ReleaseMayFail = FALSE
    ModelMayUnload = TRUE
PROPERTY
    LetGoReclaimed
CHECK_DEADLOCK FALSE

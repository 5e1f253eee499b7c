SPECIFICATION Spec
CONSTANTS
    chat = chat
    fim = fim
    None = None
    Call = {fim}
    Fim = {fim}
    TTL = 1
    ReleaseMayFail = FALSE
    ModelMayUnload = TRUE
PROPERTY
    FimNeverDisplaces
CHECK_DEADLOCK FALSE

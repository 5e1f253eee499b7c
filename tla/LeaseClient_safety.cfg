SPECIFICATION Spec
CONSTANTS
    chat = chat
    fim = fim
    None = None
    Call = {chat, fim}
    Fim = {fim}
    TTL = 1
    ReleaseMayFail = TRUE
    ModelMayUnload = TRUE
INVARIANT
    TypeOK
PROPERTIES
    FimUnlessUnloaded
    LedgerSpec
CHECK_DEADLOCK FALSE

SPECIFICATION FairSpec
CONSTANTS
    c1 = c1
    c2 = c2
    get = get
    put = put
    None = None
    Caller = {c1, c2}
    Read = {get}
    Write = {put}
    Attempts <- TwoAttempts
    Timeout <- OneTick
    Ttl <- ReadTtl
    Backoff <- Doubling
    Threshold = 2
    Cooldown = 2
    MaxVersion = 1
    MaxAge = 3
INVARIANTS
    OpenIffTripped
PROPERTIES
    Fresh
    EveryCallReturns
    BreakerRecovers

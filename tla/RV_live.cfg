SPECIFICATION FairSpec
CONSTANTS
    AccessTtl = 1
    Issuer = idp
    Resource = mcp
    k1 = k1
    k2 = k2
    Keys = {k1, k2}
    FirstKey = k1
    EncryptionKeys = {}
    UnusableKeys = {k2}
    Tokens <- Assorted
    Calls = {a, b}
    CacheTtl = 1
    FetchTimeout = 1
    MaxTime = 0
    NoKid = NoKid
    None = None
INVARIANTS
    TypeOK
    AwaitsLiveFetch
PROPERTIES
    EveryCallEnds
    AnswersTruly

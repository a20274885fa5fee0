SPECIFICATION Spec
CONSTANTS
    AccessTtl = 1
    Issuer = idp
    Resource = mcp
    k1 = k1
    k2 = k2
    Keys = {k1, k2}
    FirstKey = k1
    EncryptionKeys = {}
    UnusableKeys = {}
    Tokens <- Timed
    Calls = {a, b}
    CacheTtl = 2
    FetchTimeout = 1
    MaxTime = 4
    NoKid = NoKid
    None = None
SYMMETRY Symmetry
INVARIANTS
    AcceptedIsCurrent
    PublishedKeyIsFound
PROPERTIES
    AnswersTruly

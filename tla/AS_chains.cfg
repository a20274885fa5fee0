SPECIFICATION Spec
CONSTANTS
    CodeTtl = 1
    RefreshTtl = 2
    AccessTtl = 1
    Issuer = lab
    Resource = mcp
    DcrClients = {}
    CimdClients = {u1, u2}
    RedirectUris = {r1}
    Scopes = {read, write}
    Verifiers = {v1}
    BadVerifiers = {}
    OtherResources = {other}
    CodeIds = {c1}
    TokenIds = {t1, t2, t3}
    Workers = {w1}
    MaxTime = 0
    MaxRestarts = 1
    Absent = Absent
SYMMETRY Symmetry
INVARIANTS
    RestartForcesReauthorization
    TokensTraceToConsent
    ExchangedOnce
    PresentedTokenIsSpent


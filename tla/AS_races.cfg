SPECIFICATION Spec
CONSTANTS
    CodeTtl = 1
    RefreshTtl = 2
    AccessTtl = 1
    Issuer = lab
    Resource = mcp
    DcrClients = {d1}
    CimdClients = {u1}
    RedirectUris = {r1}
    Scopes = {read}
    Verifiers = {v1, v2}
    BadVerifiers = {}
    OtherResources = {}
    CodeIds = {c1}
    TokenIds = {t1, t2}
    Workers = {w1, w2}
    MaxTime = 2
    MaxRestarts = 0
    Absent = Absent
SYMMETRY Symmetry
INVARIANTS
    TypeOK
    OneCredentialPerConsent
    ExchangedInTime
PROPERTIES
    StrangersCannotBurnCodes
    OnlyVerifierRedeems
    ImplementsLedger

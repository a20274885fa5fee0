SPECIFICATION Spec
CONSTANTS
    Clients = {u1}
    RefusedUrls = {x1}
    RedirectUris = {r1, r2}
    Calls = {a, b}
    CacheTtl = 2
    FetchLimit = 1
    MaxTime = 4
    None = None
INVARIANTS
    TypeOK
    EntriesAge
PROPERTIES
    ImplementsPromise

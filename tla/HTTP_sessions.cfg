SPECIFICATION FairSpec
CONSTANTS
    NoBearer = NoBearer
    NoSession = NoSession
    Modes = {"local", "external"}
    ValidTokens = {jwt}
    OtherTokens = {secret}
    TransportIds = {s1, s2}
    Conns = {c1, c2}
CHECK_DEADLOCK FALSE
INVARIANTS
    TypeOK
    SessionsAreOpen
    OnlyAdmissible
PROPERTIES
    SignalEnds

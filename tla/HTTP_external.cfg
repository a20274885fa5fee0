SPECIFICATION Spec
CONSTANTS
    NoBearer = NoBearer
    NoSession = NoSession
    Modes = {"external"}
    ValidTokens = {jwt}
    OtherTokens = {secret}
    TransportIds = {s1}
    Conns = {c1}
CHECK_DEADLOCK FALSE
INVARIANTS
    ValidTokenFindsMcp

SPECIFICATION Spec
CONSTANTS
    None = None
    NoBearer = NoBearer
    CodeTtl = 1
    Deployments <- MCDeployments
    CodeIds = {c1}
    ClientId = client
    Callback = callback
    Challenge = challenge
    Scopes = {"mcp:write"}
    MaxRestarts = 0
CHECK_DEADLOCK FALSE
INVARIANTS
    DenyGivesNoCode

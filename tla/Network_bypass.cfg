SPECIFICATION Spec
CONSTANTS
    a = a
    b = b
    c = c
    ai = ai
    git = git
    None = None
    Conns = {a, b, c}
    Names <- MCNames
    AiDomains = {ai}
    PolicySet <- MCPolicySet
    MaxConns = 2
    Rate = 1
    MaxRequests <- MCMaxRequests
    MaxSwaps = 1
    MaxTicks = 1
    Turns <- MCTurns
    Results <- MCResults
    Calls <- MCCalls
    Cap = 2
    BatchMax = 2
    MaxReads = 1
    one = one
    two = two
    Callers = {one, two}
    Dialers = {a, b}
    Configs <- MCConfigs
    MaxTunnels = 2
    Bodies <- MCBodies
    Json <- MCJson
    MaxChunk = 3
    MaxBody = 300
    MaxPreview = 8
PROPERTIES
    KillSwitch
CHECK_DEADLOCK FALSE

\* A guest that does not hang.  A stopped machine comes to rest, and the guest ends its MCP connections.
SPECIFICATION ChannelsSpec
CONSTANTS
    Watchers = {w1}
    Configs <- AllConfigs
    MaxBootEnvVars = 2
    MaxBootFiles = 2
    MaxBootFileBytes = 3
    MaxFrame = 2
    MaxMessages = 1
    a1 = a1
    a2 = a2
    Agents = {a1, a2}
    Servers <- MCServers
    Lines <- MCLines
    Policies <- MCPolicies
    Page <- MCPage
    MaxLines <- MCMaxLines
    MaxNoise = 1
INVARIANTS
    MessagesExpected
    ConfigApplied
    AnswersOwn
    PagesWhole
PROPERTIES
    CallsRouted
    WaitsEnd
CHECK_DEADLOCK FALSE

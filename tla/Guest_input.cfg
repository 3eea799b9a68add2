\* Input races with the end of a shell and the start of another.
SPECIFICATION GuestSpec
CONSTANTS
    SessionIds = {s0, s1}
    Default = s0
    MaxShells = 1
    MaxSpawns = 3
    MaxRequests = 1
    GuestPorts = {p1}
    HostPorts = {h1, h2}
    Tabs = {k1, k2}
    c1 = c1
    Clients = {c1, c2}
    Relays = {w1}
    MaxCommands = 3
    MaxFlips = 2
PROPERTY RoutedToItsShell
CHECK_DEADLOCK FALSE

SPECIFICATION Spec
CONSTANTS
    Venvs = {v1}
    Ephemeral = {}
    Cmds = {c1}
    Tray = tray
    MaxSession = 1
    MaxQueue = 1
    RootfsBundled = FALSE
INVARIANT InstanceReachable

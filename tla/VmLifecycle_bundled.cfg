\* One persistent and one ephemeral venv, rootfs found in the bundle.
SPECIFICATION Spec
CONSTANTS
    Venvs = {v1, v2}
    Ephemeral = {v2}
    Cmds = {c1}
    Tray = tray
    MaxSession = 2
    MaxQueue = 1
    RootfsBundled = TRUE
INVARIANTS
    ScratchExclusive
    InstanceReachable

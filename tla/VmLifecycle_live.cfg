\* Two commands race on one venv; the rootfs has to be downloaded.
SPECIFICATION Spec
CONSTANTS
    Venvs = {v1}
    Ephemeral = {}
    Cmds = {c1, c2}
    Tray = tray
    MaxSession = 2
    MaxQueue = 1
    RootfsBundled = FALSE
INVARIANT RecordsFollowMachines
PROPERTY CommandsReturn

\* Each part comes to rest when its bounds are used up.
SPECIFICATION Spec
CONSTANTS
    Procs = {cli, gui}
    Cli = {cli}
    Overlap = FALSE
    MaxSessions = 2
    MaxEvents = 2
    MaxDay = 2
    Retention = 0
    KeptSessions = 1
    PurgeAfter = 1
    Ids = {"v1", "v2", "v3"}
    First = {"v1"}
    Ops = {o1, o2}
    MaxOps = 3
    Torn = Torn
    Users = {u1}
    AutoTask = AutoTask
    FirstDay <- MCLeapDay
    MaxTicks = 3
    MaxCalls = 4
    MaxKeys = 2
    MaxFaults = 2
    Venvs = {v1, v2}
    Servers = {s1, s2}
    MaxWork = 2
    MaxTrips = 4
    Boots = {b1, b2}
    MaxFiles = 3
INVARIANTS
    TelemetryKept
    StartupRecovers
    RegistryExact
    DisksSound
    SnapshotsRestorable
    ChoicesStick
    WorkKept
    BootsVerified
PROPERTY DailySync
CHECK_DEADLOCK FALSE

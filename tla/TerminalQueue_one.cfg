\* One poll at a time, as a terminal view that is mounted once makes them.
\* The input comes to rest when its bounds are used up.
SPECIFICATION TerminalSpec
CONSTANTS
    Pollers = {p1}
    Producers = {serial, vsock}
    Serial = serial
    Capacity = 2
    MaxChunk = 5
    OffMainThread = FALSE
    InputVenvs = {v1, v2}
    InputSessions = {s0, s1}
    MaxInputs = 3
    MaxBoots = 2
    MaxBatch = 2
INVARIANTS
    TypeOK
    NoLostWakeup
    InputDelivered
PROPERTY IsChannel
CHECK_DEADLOCK FALSE

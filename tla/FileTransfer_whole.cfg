\* Two commands, text and binary files of one byte and of two chunks, and everything that can go wrong.  The commands are used up in the end.
SPECIFICATION Spec
CONSTANTS
    Ids = {1, 2}
    Sizes = {1, 262145, 409600}
    Wide = {TRUE, FALSE}
    ChunkSize = 204800
    FrameSize = 262144
    MaxDownload = 104857600
    MaxEdit = 300000
    MaxListing = 204800
    Overhead = 300
    Handshaking = TRUE
    MayDie = TRUE
INVARIANT DownloadWhole
PROPERTY NothingLeftBehind
CHECK_DEADLOCK FALSE

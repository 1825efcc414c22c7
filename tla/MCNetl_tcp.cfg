SPECIFICATION Spec
CONSTANTS
    MaxAccepts = 2
    MaxConnects = 2
    MaxData = 1
    MaxChunks = 2
    MaxHangups = 1
    MaxFails = 0
    CloseInside = TRUE
INVARIANTS
    FinalDisconnect
    BatchAlive
    GracefulClose
    ReleasedAfterWorker
    AllReleased
PROPERTIES
    SilentAfterClose
CHECK_DEADLOCK FALSE

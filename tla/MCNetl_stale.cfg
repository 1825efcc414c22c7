SPECIFICATION Spec
CONSTANTS
    MaxAccepts = 1
    MaxConnects = 1
    MaxData = 0
    MaxChunks = 1
    MaxHangups = 1
    MaxFails = 0
    CloseInside = FALSE
INVARIANTS
    Forgotten
CHECK_DEADLOCK FALSE

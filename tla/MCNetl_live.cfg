SPECIFICATION FairSpec
CONSTANTS
    MaxAccepts = 2
    MaxConnects = 1
    MaxData = 1
    MaxChunks = 1
    MaxHangups = 0
    MaxFails = 1
    CloseInside = TRUE
PROPERTIES
    ErrorIsLast
    CloseReturns
    DisconnectComes
CHECK_DEADLOCK FALSE

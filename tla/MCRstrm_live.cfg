SPECIFICATION FairSpec
CONSTANTS
    a = a
    b = b
    Ends <- MCEnds
    MaxPending = 1
    LowPending = 0
    High = 1
    Low = 0
    Loads <- LivenessLoads
PROPERTIES
    DrainComes
    ShutdownCompletes
    FailureTold
    CloseReturns
CHECK_DEADLOCK FALSE

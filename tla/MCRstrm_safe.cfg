SPECIFICATION Spec
CONSTANTS
    a = a
    b = b
    Ends <- MCEnds
    MaxPending = 2
    LowPending = 1
    High = 2
    Low = 1
    Loads <- SafetyLoads
INVARIANTS
    CompleteIsTrue
    NoFalseEproto
    ReleasedOnce
PROPERTIES
    ImplementsStream
CHECK_DEADLOCK FALSE

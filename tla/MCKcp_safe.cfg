SPECIFICATION Spec
CONSTANTS
    a = a
    b = b
    Ends <- MCEnds
    SndWnd = 2
    RcvWnd = 3
    FragCounts = {1, 2}
    MaxMsgs <- SixOneWay
    MaxDups = 1
    MaxLosses = 1
    MaxNet = 1
    Half = 5
INVARIANTS
    InOrder
    NoLossAfterAck
    NoStall
    BoundedMemory
    WidthSuffices
PROPERTIES
    ImplementsPipe
CONSTRAINT
    ShortOrLong
CHECK_DEADLOCK FALSE

SPECIFICATION FairSpec
CONSTANTS
    a = a
    b = b
    Ends <- MCEnds
    SndWnd = 2
    RcvWnd = 2
    FragCounts = {1}
    MaxMsgs <- ThreeOneWay
    MaxDups = 0
    MaxLosses = 1
    MaxNet = 1
    Half = 4
PROPERTIES
    AllDelivered
    Drains
CHECK_DEADLOCK FALSE

SPECIFICATION Spec
CONSTANTS
    p = p
    q = q
    Procs <- Two
    MaxJoins = 2
    MaxIssued = 2
    MaxCrashes = 2
    MaxNoSpace = 1
    MaxStuck = 1
SYMMETRY AnyProcess
INVARIANTS
    NotStranded
    Connected
    RevokedIsOff
    OneUse
CHECK_DEADLOCK FALSE

SPECIFICATION Spec
CONSTANTS
    p = p
    q = q
    Procs <- Two
    MaxJoins = 1
    MaxIssued = 1
    MaxCrashes = 0
    MaxNoSpace = 0
    MaxStuck = 0
SYMMETRY AnyProcess
INVARIANTS
    Establishes
CHECK_DEADLOCK FALSE

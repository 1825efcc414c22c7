SPECIFICATION FairSpec
CONSTANTS
    Nodes <- MCNodes
    Flows <- MCFlows
    MaxDepth = 4
    MaxBranches = 5
INVARIANTS
    TerminalIsTrue
    CommandsInOrder
    StopsSoon
PROPERTIES
    RunEnds
CHECK_DEADLOCK FALSE

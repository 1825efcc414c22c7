SPECIFICATION FairSpec
CONSTANTS
    m1 = m1
    m2 = m2
    Managers <- MCManagers
    MaxPath = 2
    Loads <- MCLoads
INVARIANTS
    EventsInOrder
    OneResident
PROPERTIES
    EventsReach
CHECK_DEADLOCK FALSE

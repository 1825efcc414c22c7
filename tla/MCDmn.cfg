SPECIFICATION FairSpec
CONSTANTS
    c1 = c1
    c2 = c2
    c3 = c3
    m1 = m1
    m2 = m2
    Clients <- MCClients
    Managers <- MCManagers
    Loads <- MCLoads
INVARIANTS
    OwnAnswer
    
    Registered
PROPERTIES
    Served
CHECK_DEADLOCK FALSE

SPECIFICATION FairSpec
CONSTANTS
    s1 = s1
    s2 = s2
    e1 = e1
    e2 = e2
    c1 = c1
    c2 = c2
    None = None
    Sockets <- MCSockets
    Entries <- MCEntries
    Clients <- MCClients
    Operators <- MCOperators
    Faults = {"build", "code"}
INVARIANTS
    LiveSocketIsBound
    StatusIsTrue
    NewestIsBound
PROPERTIES
    Rebuilt
CHECK_DEADLOCK FALSE

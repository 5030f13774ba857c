SPECIFICATION Spec
CONSTANTS
    o1 = o1
    o2 = o2
    d1 = d1
    OneShot <- MCOneShot
    Daily <- MCDaily
    MaxSessions = 2
    MaxOutages = 1
INVARIANTS
    OneTimerPerDaily
    StoredIsArmed
    DeletedIsQuiet
    KeptUntilServed
CHECK_DEADLOCK FALSE

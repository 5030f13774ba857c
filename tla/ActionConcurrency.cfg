SPECIFICATION FairSpec
CONSTANTS
    r1 = r1
    r2 = r2
    Requests <- MCRequests
    Awaited = {r1}
    Durable = {r1}
    NeedsWhatsApp = {r1}
    MaxAttempts = 2
    PyQueueMax = 1
    NodeQueueMax = 1
    Faults = {"io", "nodeCrash", "drop"}
    MaxFaults = 1
INVARIANTS
    EffectHasReceipt
PROPERTIES
    CallsReturn
CHECK_DEADLOCK FALSE

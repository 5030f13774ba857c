SPECIFICATION Spec
CONSTANTS
    r1 = r1
    r2 = r2
    Requests = {r1}
    Awaited = {r1}
    Durable = {r1}
    NeedsWhatsApp = {r1}
    MaxAttempts = 3
    PyQueueMax = 1
    NodeQueueMax = 2
    Faults <- MCFaults
    MaxFaults = 3
INVARIANTS
    AtMostOnce
    OkMeansPerformed
PROPERTIES
    ImplementsContract
CHECK_DEADLOCK FALSE

SPECIFICATION Spec
CONSTANTS
    r1 = r1
    r2 = r2
    Requests = {r1}
    Awaited = {r1}
    Durable = {r1}
    NeedsWhatsApp = {r1}
    MaxAttempts = 2
    PyQueueMax = 1
    NodeQueueMax = 1
    Faults = {}
    MaxFaults = 0
INVARIANT
    ExactlyOneAck
CHECK_DEADLOCK FALSE

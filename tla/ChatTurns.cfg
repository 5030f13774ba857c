SPECIFICATION Spec
CONSTANTS
    Modes <- MCAllModes
    Kinds <- MCTurnKinds
    HistoryLimit = 2
    Faults <- MCTurnFaults
    MaxMessages = 2
    MaxSends = 1
    MaxRequests = 1
INVARIANTS
    OneTurnAtATime
    OwnOnce
    UserTurnsInOrder
CHECK_DEADLOCK FALSE

SPECIFICATION BridgeSpec
CONSTANTS
    None = None
    Procs = {onNode, onPython}
    NodeProcs = {onNode}
    MaxDamages = 2
    MaxCrashes = 1
    Accounts = {data, b}
    Legacy = data
    LastSlot = 9
    MaxTokens = 3
    MaxFaults = 1
    OneShot = {o1}
    Daily = {}
    MaxSessions = 3
    MaxOutages = 1
    Modes = {"auto"}
    Kinds = {"plain", "reset", "added"}
    HistoryLimit = 3
    Faults = {"error"}
    MaxMessages = 3
    MaxSends = 1
    MaxRequests = 0
    Offers <- MCOffers
    NoTargets <- MCNoOffer
    RetryMax = 1
    Limits <- MCLimits
    NoLimits = NoLimits
    MaxBurst = 2
    MaxSilent = 3
    MaxChanges = 1
INVARIANTS
    RegistryAgrees
    GivesUpLast
    OneDatabase
    ResetForgets
    PendingHasWorker
PROPERTIES
    Reopened
    FollowsCatalog
    Served
    Hydrated
    SilenceIsBounded
CHECK_DEADLOCK FALSE

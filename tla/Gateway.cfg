SPECIFICATION GatewaySpec
CONSTANTS
    home = home
    work = work
    m1 = m1
    n1 = n1
    p1 = p1
    p2 = p2
    s1 = s1
    s2 = s2
    i = i
    j = j
    d = d
    Global = Global
    None = None
    Chats = {home}
    Settings = {"subagent"}
    Models <- MCModels
    Values = {0, 1}
    QueueMax = 2
    MaxWrites = 2
    MaxCached = 1
    MaxBreaks = 1
    Rooms = {home, work}
    Incoming = {m1, n1}
    Own = {p1, p2}
    Sends = {s1, s2}
    Loose = {s2}
    ChatOf <- MCChatOf
    Kind <- MCKind
    Parts <- MCParts
    Modulus = 2
    IndexSize = 2
    Deliveries <- MCDeliveries
    MaxNumbers = 3
    MaxLives = 2
    Members = {p}
    Bot = bot
    Nameless = {p}
    MaxRoleChanges = 2
    Images = {i, j}
    Documents = {d}
    Large = {d}
    QuoteOf <- MCQuoteOf
    MaxLosses = 1
    Known = {n5}
    Invented = u
    Absent = Absent
    Letters = {ab}
    Numbers = {n42}
    Padded = {n07}
    Added = {fresh}
    MaxMemories = 3
    MaxLines = 4
    MaxCalls = 2
    People = {p, q}
    Longest = 2
    Durations = {0, 1, 3}
    Unasked = Unasked
    Free = Free
    Horizon = 4
    MaxOrders = 3
INVARIANTS
    CachesFresh
    ModelsKept
    ActsOnTheMeant
    StillActionable
    JudgedByTheNews
    AskedSparingly
    TooLargeStays
    EachLineOnce
    GateIsRight
PROPERTIES
    NeverUnlearns
CHECK_DEADLOCK FALSE

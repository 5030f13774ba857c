SPECIFICATION Spec
CONSTANTS
    t1 = t1
    t2 = t2
    a = a
    None = None
    Tasks <- MCTasks
    Asked = {t1}
    Chats <- MCChats
    ChatOf <- MCChatOf
    Calls = {1}
    MaxAttempts = 2
    Faults <- MCLosses
    MaxFaults = 2
INVARIANTS
    AckedIsDurable
    SettledIsShown
    AcceptedIsDelivered
CHECK_DEADLOCK FALSE

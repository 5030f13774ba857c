SPECIFICATION FairSpec
CONSTANTS
    t1 = t1
    t2 = t2
    a = a
    None = None
    Tasks = {t1}
    Asked = {t1}
    Chats <- MCChats
    ChatOf <- MCOneChat
    Calls = {1}
    MaxAttempts = 2
    Faults <- MCFaults
    MaxFaults = 2
PROPERTIES
    ResultsSettle
CHECK_DEADLOCK FALSE

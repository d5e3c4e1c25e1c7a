CONSTANTS
    A = A
    B = B
    c1 = c1
    c2 = c2
    c3 = c3
    c4 = c4
    c5 = c5
    none = none
    Calls <- CrowdCalls
    Info <- CrowdInfo
    NoCall = none
    DispatcherThreads = 2
    SenderThreads = 2
    SendFailures = FALSE
    Losses = FALSE
    EarlyRelease = FALSE
    Stoppable = {}
    Unrunnable = {}
    Throws = {}
    Unreadable = {}
SPECIFICATION FairSpec
CHECK_DEADLOCK FALSE
PROPERTY EveryCallCompletes

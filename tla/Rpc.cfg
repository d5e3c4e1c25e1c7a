CONSTANTS
    A = A
    B = B
    c1 = c1
    c2 = c2
    c3 = c3
    c4 = c4
    c5 = c5
    none = none
    Calls <- MixedCalls
    Info <- MixedInfo
    NoCall = none
    DispatcherThreads = 2
    SenderThreads = 2
    SendFailures = TRUE
    Losses = FALSE
    EarlyRelease = FALSE
    Stoppable = {A, B}
    Unrunnable = {}
    Throws = {}
    Unreadable = {}
SPECIFICATION FairSpec
CHECK_DEADLOCK FALSE
INVARIANTS
    TypeOK
    ResponseFindsCall
    NoCallLeaks
    NoStandstill
PROPERTIES
    EveryCallCompletes
    UninitReturns

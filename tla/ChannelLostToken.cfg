CONSTANTS
    s1 = s1
    s2 = s2
    d1 = d1
    d2 = d2
    m1 = m1
    m2 = m2
    m3 = m3
    none = none
    Senders <- MCSenders
    Dispatchers <- MCDispatchers
    Messages <- MCMessages
    TooLarge = {}
    NoMessage = none
    MsgMaxNumber = 2
    LockTimeouts = TRUE
    AllocFailures = FALSE
    Crashable = {}
SPECIFICATION FairSpec
CHECK_DEADLOCK FALSE
PROPERTY EveryMessageHandled

CONSTANTS
    s1 = s1
    s2 = s2
    d1 = d1
    d2 = d2
    m1 = m1
    m2 = m2
    m3 = m3
    none = none
    Senders <- MCSenders
    Dispatchers <- MCDispatchers
    Messages <- MCMessages
    TooLarge = {m3}
    NoMessage = none
    MsgMaxNumber = 1
    LockTimeouts = FALSE
    AllocFailures = FALSE
    Crashable = {}
SPECIFICATION FairSpec
CHECK_DEADLOCK FALSE
INVARIANTS
    TypeOK
    NoTokenLost
PROPERTY EveryMessageHandled

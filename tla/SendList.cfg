CONSTANTS
    w1 = w1
    w2 = w2
    w3 = w3
    c1 = c1
    c2 = c2
    r1 = r1
    nothing = nothing
    CallWorkers <- MCCallWorkers
    RespWorkers <- MCRespWorkers
    CallItems <- MCCallItems
    RespItems = {r1}
    Nothing = nothing
SPECIFICATION FairSpec
CHECK_DEADLOCK FALSE
INVARIANTS
    TypeOK
    NoLostWakeup
    OnePlaceOnly
    CallsReleased
PROPERTIES
    EveryItemSent
    UninitReturns

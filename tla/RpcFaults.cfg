CONSTANTS
    A = A
    B = B
    c1 = c1
    c2 = c2
    c3 = c3
    c4 = c4
    c5 = c5
    none = none
    Calls <- FaultyCalls
    Info <- FaultyInfo
    NoCall = none
    DispatcherThreads = 2
    SenderThreads = 2
    SendFailures = TRUE
    Losses = TRUE
    EarlyRelease = TRUE
    Stoppable = {A, B}
    Unrunnable = {c2}
    Throws <- FaultyThrows
    Unreadable = {c4}
SPECIFICATION Spec
CHECK_DEADLOCK FALSE
INVARIANTS
    CompletedAtMostOnce
    PromisesSettled
PROPERTY ImplementsRemoteCall

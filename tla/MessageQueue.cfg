CONSTANTS
    Messages <- MCMessages
    MsgMaxNumber = 3
    MsgExpectedMaxSize = 2
    BufSizes <- MCBufSizes
    CopyOrders = {"ascending"}
SPECIFICATION Spec
INVARIANTS
    TypeOK
    LayoutInv
    CheckAgreesWithPush
PROPERTY ImplementsFifo

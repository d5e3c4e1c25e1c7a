CONSTANTS
    Lives = {l1, l2, l3}
    Peers = {p1}
    Nobody = nobody
SPECIFICATION Spec
CHECK_DEADLOCK FALSE
SYMMETRY Symmetry
INVARIANTS
    TypeOK
    OwnerHasItsNames
    NamesFreed
    LiveMemoryGuarded
PROPERTY ImplementsClaim

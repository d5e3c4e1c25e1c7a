CONSTANTS
    Names <- MCNames
    IndexModulus = 22
    MaxCalls = 2
SPECIFICATION Spec
INVARIANTS
    TypeOK
    EntryIsOwn

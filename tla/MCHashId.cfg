CONSTANTS
    Cap = 4
    Ids <- MCIds
    IntMax = 36
SPECIFICATION Spec
INVARIANTS
    ChainsExact
    InsertSafe
    LookupAgrees
PROPERTY
    ImplementsTable
CHECK_DEADLOCK FALSE

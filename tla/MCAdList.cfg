CONSTANTS
    Nodes <- MCNodes
    Values <- MCValues
    Uses <- MCUses
SPECIFICATION Spec
INVARIANTS
    ListsExact
    IterComplete
    LookupsAgree
PROPERTIES
    ImplementsSeq
    DupCopies
CHECK_DEADLOCK FALSE

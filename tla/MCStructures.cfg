CONSTANTS
    Elems = {e1, e2, e3, e4}
    Anchor = anchor
    Nil = nil
    ALIGN = 2
    MAX_BYTES = 6
    NOBJS = 3
    HeapPart = 4
    Sizes <- MCSizes
    MaxMemory = 44
    MaxLive = 2
    Nodes <- MCNodes
    Keys <- MCKeys
SPECIFICATION StructSpec
SYMMETRY Symmetry
INVARIANTS
    QueueInv
    ReverseAgrees
    Disjoint
    Accounted
    LinksExact
    
PROPERTIES
    OneChange
    GivesUpLast
    ChangesOnce
CHECK_DEADLOCK FALSE

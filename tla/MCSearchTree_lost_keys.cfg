CONSTANTS
    Nodes <- MCNodes
    Keys <- MCKeys
SPECIFICATION TreeSpec
INVARIANTS
    Findable
CHECK_DEADLOCK FALSE

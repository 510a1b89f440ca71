CONSTANTS
    Nodes <- MCNodes
    Values <- MCValues
    Uses <- MCFreeNoDup
SPECIFICATION Spec
PROPERTIES
    DupLeavesInput
CHECK_DEADLOCK FALSE

CONSTANTS
    Cap = 4
    Ids <- MCFailedConnectIds
    IntMax = 63
SPECIFICATION Spec
INVARIANT
    FreshNodeUnlinked
CHECK_DEADLOCK FALSE

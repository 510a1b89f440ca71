CONSTANTS
    Cap = 2
    Ids <- MCIds3
    HeaderSize = 1
    Base = 8
    Chunks <- MCLongChunks
    BigFrame = 3
    Watchdog = 100
    Handles = {7}
    Clients = {0}
    BindParms = {"port", "!"}
    HostNumber = 0
    Commands <- MCLifecycle
    MaxCmds = 3
    MaxData = 1
SPECIFICATION FairSpec
INVARIANTS
    GateInv
    NoUnknownData
    DeadEntriesLeave
PROPERTIES
    ClosedIsForgotten
    ConnectAnswered
CHECK_DEADLOCK FALSE

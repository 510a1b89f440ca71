CONSTANTS
    Cap = 1
    Ids <- MCIds3
    HeaderSize = 1
    Base = 8
    Chunks <- MCChunks
    BigFrame = 3
    Watchdog = 100
    Handles = {7}
    Clients = {0}
    BindParms = {"host:port"}
    HostNumber = 127
    Commands <- MCRouting
    MaxCmds = 4
    MaxData = 2
SPECIFICATION Spec
INVARIANTS
    WatchdogView
    FramesIntact
    ReleaseCloses
PROPERTIES
    RoutedToAssigned
CHECK_DEADLOCK FALSE

CONSTANTS
    Cap = 1
    Ids <- MCIds3
    HeaderSize = 1
    Base = 8
    Chunks <- MCFewChunks
    BigFrame = 3
    Watchdog = 100
    Handles = {7}
    Clients = {0}
    BindParms = {"port"}
    HostNumber = 0
    Commands = {"close", "listen"}
    MaxCmds = 2
    MaxData = 0
SPECIFICATION Spec
INVARIANTS
    AcceptAssertHolds
CHECK_DEADLOCK FALSE

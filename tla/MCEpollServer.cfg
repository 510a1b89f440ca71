CONSTANTS
    Clients = {c1, c2}
    Fds <- TwoFds
    ListenQ = 2
    MaxEvents = 2
    MaxLine = 2
    Window = 3
SPECIFICATION FairSpec
INVARIANTS
    NeverBlocks
    LeftBehind
PROPERTIES
    FirstAccepted
    InputRead
CHECK_DEADLOCK FALSE

CONSTANTS
    Handles <- MCHandles
    MaxStmts = 3
    MaxOthers = 1
SPECIFICATION ClientSpec
INVARIANTS
    OneSession
    RunsOnce
    ResultOfLastExec
PROPERTY
    InsertIdHonest

CONSTANTS
    HeaderSize = 2
    Base = 4
    Chunks <- MCChunks
    Buffers = {b1, b2}
    MaxBytes = 7
    BigFrame = 3
    MESSAGEPOOL = 3
    NoBuffer = NoBuffer
SPECIFICATION Spec
INVARIANTS
    BuffersExact
    FramesExact
PROPERTIES
    ImplementsFrames
    LoopEnds
CHECK_DEADLOCK FALSE

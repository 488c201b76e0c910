\* The inner source grew from 6 to 8 bytes after its length was probed.
CONSTANTS
    MaxOff = 9
    MinBlock = 1
    ReqCapacity = 5
    ReqBlock = 0
    ReqNum = 1
    ReqDen = 0
    TotalLen = 6
    StartPositions = {0, 6}
    InnerEnds = {8}
    ErrKinds = {}
    SeekErrKinds = {}
    Interrupts = FALSE
    Timeouts = TRUE
    SpuriousWakes = FALSE
    ReadSizes = {1, 3}
    SeekFroms <- MCSeeks
SPECIFICATION Spec
PROPERTY
    PastTheEndIsEof

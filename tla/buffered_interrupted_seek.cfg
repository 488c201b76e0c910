\* An inner source whose seek may be interrupted by a signal.
CONSTANTS
    MaxOff = 7
    MinBlock = 1
    ReqCapacity = 0
    ReqBlock = 0
    ReqNum = 1
    ReqDen = 4
    TotalLen = 6
    StartPositions = {0, 7}
    InnerEnds = {6}
    ErrKinds = {"Other"}
    SeekErrKinds = {"Interrupted"}
    Interrupts = TRUE
    Timeouts = FALSE
    SpuriousWakes = FALSE
    ReadSizes = {3}
    SeekFroms <- MCFewSeeks
SPECIFICATION Spec
INVARIANT
    InterruptedIsRetried

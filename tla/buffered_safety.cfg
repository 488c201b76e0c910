\* A source of 10 bytes that keeps its length, in a ring of 8 filled in blocks
\* of 2, whose lookback is asked for as 4/4 and clamped to 3/4.  Every fault
\* the code handles is on.
CONSTANTS
    MaxOff = 11
    MinBlock = 1
    ReqCapacity = 0
    ReqBlock = 2
    ReqNum = 4
    ReqDen = 4
    TotalLen = 10
    StartPositions = {0, 10, 11}
    InnerEnds = {10}
    ErrKinds = {"Other"}
    SeekErrKinds = {"Unsupported"}
    Interrupts = TRUE
    Timeouts = TRUE
    SpuriousWakes = TRUE
    ReadSizes = {1, 3}
    SeekFroms <- MCSeeks
SPECIFICATION Spec
INVARIANTS
    TypeOK
    RingIsContiguous
    WorkerAligned
    ReaderInWindow
    NoMutualWait
    WorkerWaitsOnlyWhenIdle
    ErrorMeansDead
PROPERTIES
    StickyError
    DeadReadsSayWhy
    LookbackKept
    ImplementsStream
    StuckWorkerVisible

\* The inner source shrinks to 4 bytes or grows to 8 after its length of 6 was
\* probed, possibly between two reads, and every fault is on.  A wait may time
\* out but need not, and no condition variable wakes by itself: every wait must
\* be ended by a notify.  Lookback 1/4 of a ring of 5.
CONSTANTS
    MaxOff = 9
    MinBlock = 1
    ReqCapacity = 5
    ReqBlock = 0
    ReqNum = 1
    ReqDen = 4
    TotalLen = 6
    StartPositions = {0, 6}
    InnerEnds = {4, 6, 8}
    ErrKinds = {"Other"}
    SeekErrKinds = {"Unsupported"}
    Interrupts = TRUE
    Timeouts = TRUE
    SpuriousWakes = FALSE
    ReadSizes = {1, 3}
    SeekFroms <- MCSeeks
SPECIFICATION FairSpec
INVARIANTS
    RingIsContiguous
    ReaderInWindow
    NoMutualWait
PROPERTIES
    ReadReturns
    DropCompletes
    SeekServed
    WorkerSettles

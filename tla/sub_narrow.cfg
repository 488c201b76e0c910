\* A target whose usize is narrower than u64: 4 values against 8.
CONSTANTS
    MaxOff = 7
    Windows <- MCWindows
    InnerLens = {5}
    StartPositions = {0}
    UsizeSpan = 4
    IoErrors = {}
    ReadSizes = {1, 3}
    SeekFroms <- MCSeeks
SPECIFICATION Spec
PROPERTY
    EofIsTrue

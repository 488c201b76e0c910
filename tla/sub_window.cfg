\* An inner source of 0 to 6 bytes under windows that fit it, touch its end,
\* pass it or overflow, with failing calls and a file resized underneath.
CONSTANTS
    MaxOff = 7
    Windows <- MCWindows
    InnerLens = {0, 3, 5, 6}
    StartPositions = {0, 2, 5, 7}
    UsizeSpan = 8
    IoErrors = {"Other"}
    ReadSizes = {1, 3}
    SeekFroms <- MCSeeks
SPECIFICATION Spec
INVARIANTS
    TypeOK
    ProbeRestores
PROPERTIES
    BornWhole
    ImplementsStream

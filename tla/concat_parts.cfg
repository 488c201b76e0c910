\* No part to three parts of 0 to 2 bytes, in a range of offsets that three
\* parts of 2 overflow, with failing calls and files resized underneath.
CONSTANTS
    MaxOff = 5
    PartCounts = {0, 1, 2, 3}
    PartLens = {0, 1, 2}
    ResizedLens = {0, 2}
    StrayPositions = {1}
    UsizeSpan = 6
    IoErrors = {"Other"}
    ReadSizes = {1, 3}
    SeekFroms <- MCSeeks
SPECIFICATION Spec
INVARIANTS
    TypeOK
    RightPart
PROPERTIES
    BytesInPlace
    ImplementsStream

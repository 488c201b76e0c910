\* Two readers and two names, one of which open_mem refuses, over three cells.
CONSTANTS
    MaxOff = 3
    Ids = {"a", "a/b"}
    OpenableIds = {"a"}
    Buffers <- MCBuffers
    Cells = {c1, c2, c3}
    Nowhere = Nowhere
    Readers = {r1, r2}
    ReadSizes = {1, 3}
    SeekFroms <- MCSeeks
SYMMETRY MCSymmetry
SPECIFICATION Spec
INVARIANTS
    TypeOK
PROPERTIES
    ReadersAreStreams

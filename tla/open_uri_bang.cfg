\* The instance of open_uri.cfg: does SliceUri::new refuse only what would not
\* be read back?
CONSTANTS
    MaxU64 <- MCMaxU64
    Files <- MCFiles
    Buffers <- MCBuffers
    Soups <- MCSoups
    Leaves <- MCLeaves
    MaxSteps = 3
    MaxContent = 2
    NoSoup = NoSoup
    NoModel = NoModel
CHECK_DEADLOCK FALSE
SPECIFICATION Spec
INVARIANT
    SliceGuardAgrees

\* Texts of up to six pieces in six soups; three compositions around leaves.
CONSTANTS
    MaxU64 <- MCMaxU64
    Files <- MCFiles
    Buffers <- MCBuffers
    Soups <- MCSoups
    Leaves <- MCLeaves
    MaxSteps = 3
    MaxContent = 2
    NoSoup = NoSoup
    NoModel = NoModel
CHECK_DEADLOCK FALSE
SPECIFICATION Spec
INVARIANTS
    TypeOK
    FormatInverts
    ConstructorsAgree
    ParsersFollowGrammar
    OpensAsModel

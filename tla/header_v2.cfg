SPECIFICATION Spec
CONSTANTS
    WordSize = 4
    VersionFlag = 2
    ByteSize = 4
    ByteBits = 2
    MaskBytes = 3
    Stream <- MCStream
    Headers <- MCHeaders
    MaxLeaves = 11
CHECK_DEADLOCK FALSE
INVARIANTS
    MatchIsTheHeader
    MaskClears
    BranchProves

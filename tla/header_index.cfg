CONSTANTS
    Blocks <- MCBlocks
    Genesis = "g"
    Parent <- MCParent
    V2Blocks = {"a3", "b3", "b4", "b5"}
    Chains <- MCChains
    BatchSize = 1
    MaxReply = 3
    DenseLocator = 2
    ReindexLast = 1
    MaxFailures = 2
SPECIFICATION FairSpec
CHECK_DEADLOCK FALSE
INVARIANTS
    NeverPanics
    ChainIsIndexed
    ChainIsLinked
PROPERTY CatchesUp

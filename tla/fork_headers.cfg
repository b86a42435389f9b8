SPECIFICATION Spec
CONSTANTS
    Addrs = {1, 2, 3}
    Seeds = {1, 2}
    Knows <- MCKnows
    Rounds = 3
    Workers = 2
    SeedLimit = 1
    Limit = 3
    OldFiles <- MCOldFiles
    ShortLen = 1
    LongLen = 2
    Payloads <- MCPayloads
    MaxCount = 2
    Keeps = {0, 1}
CHECK_DEADLOCK FALSE
INVARIANTS
    OnFork
    OnlyThroughForkPeers
    NothingForgotten
    WritesTheHeaders
    RefusedForAReason
PROPERTIES
    BothEnd

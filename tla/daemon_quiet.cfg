CONSTANTS
    Threads = {t1, t2}
    Batches <- MCBatches
    MaxHeight = 3
    ReplyCapacity = 1
    MaxInFlight = 4
    PruneDuringCalls = FALSE
SPECIFICATION FairSpec
INVARIANTS
    NeverAsksForPruned
    InFlightIsExpected
PROPERTY EveryCallReturns

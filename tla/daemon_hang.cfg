CONSTANTS
    Threads = {t1}
    Batches <- MCFewBatches
    MaxHeight = 2
    ReplyCapacity = 2
    MaxInFlight = 3
    PruneDuringCalls = TRUE
SPECIFICATION FairSpec
PROPERTY EveryCallReturns

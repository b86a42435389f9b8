CONSTANTS
    Threads = {t1, t2}
    Batches <- MCFewBatches
    MaxHeight = 2
    ReplyCapacity = 2
    MaxInFlight = 4
    PruneDuringCalls = TRUE
SPECIFICATION Spec
PROPERTY ImplementsBlockSource

CONSTANTS
    legacy = legacy
    ranged = ranged
    Clients = {legacy, ranged}
    Speaks <- MCSpeaks
    Branches = {"a", "b"}
    Activation = 2
    MaxHeight = 3
    MaxSyncs = 3
    SendBuffer = 1
    Prompt = {ranged}
SPECIFICATION FairSpec
INVARIANTS
    NoUnreadableHeader
    SubscribersServed
PROPERTIES
    NegotiationIsStable
    ImplementsSession
    LoopReturns
    ReaderReturns

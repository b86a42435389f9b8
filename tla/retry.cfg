CONSTANTS
    Budget = 150
    FirstDelay = 4
    MaxDelay = 120
    Slice = 1
    CallTimes <- MCCallTimes
    MaxCall = 12
    Rpcs = 2
SPECIFICATION FairSpec
CHECK_DEADLOCK FALSE
INVARIANTS
    GivesUpInTime
    ExitIsNoticed
PROPERTY OperationEnds

SPECIFICATION Spec
CONSTANTS
    MaxConns = 3
    WindowSize = 2
    MaxPings = 1
    Levels <- MCLevels
    AttemptsPerPeer = 2
    Repeat = 2
CHECK_DEADLOCK FALSE
INVARIANTS
    StrandedOnlyByFailure
    AnswersInStep
PROPERTIES
    ImplementsLedger
    BenchEnds

SPECIFICATION Spec
CONSTANTS
    Rounds = 3
    MaxJobs = 4
    Difficulties = {1, 2}
    MaxExtras = 2
CHECK_DEADLOCK FALSE
INVARIANTS
    TypeOK
    EachRoundOnANewerJob
    AtItsDifficulty
    OneReplyOwed
PROPERTIES
    MinerEnds

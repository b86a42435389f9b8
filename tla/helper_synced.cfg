CONSTANTS
    Threads = {t1, t2, t3}
    MaxHeight = 4
    Split = 2
    HelperMayLag = FALSE
SPECIFICATION HelperSpec
INVARIANTS
    CeilingSparesSharedHistory
PROPERTY BoundarySettles

CONSTANT MaxHeight = 33
SPECIFICATION SearchSpec
CHECK_DEADLOCK FALSE
INVARIANTS
    FindsTheFork
    HalvesTheRange

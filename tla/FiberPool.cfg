SPECIFICATION PoolSpec
CONSTANTS
    Fibers = {f1, f2, f3}
    Blocks = {b1, b2, b3, b4, b5}
    Idle = idle
INVARIANTS
    NothingLost
PROPERTIES
    WaitsOnlyIfFull
    EveryBlockRuns
CHECK_DEADLOCK FALSE

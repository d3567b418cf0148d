SPECIFICATION Spec
CONSTANTS
    MaxTargets = 3
    Ordered = TRUE
INVARIANTS
    CancelReachesBranch
CHECK_DEADLOCK FALSE

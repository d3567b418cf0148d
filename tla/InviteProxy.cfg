SPECIFICATION Spec
CONSTANTS
    MaxTargets = 3
    Ordered = TRUE
INVARIANTS
    OneWaitingBranch
    CallerNotForgotten
PROPERTIES
    NoTargetAfterAnswer
    CallEnds
    BranchesConform
CHECK_DEADLOCK FALSE

SPECIFICATION Spec
CONSTANTS
    Nil = Nil
    Requests <- MCRequests
    MaxFrames = 2
INVARIANTS
    NotBeforeApproval
    Goodbye
    UpgradeAsAsked
CHECK_DEADLOCK FALSE

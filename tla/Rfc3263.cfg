SPECIFICATION Spec
CONSTANTS
    Cases <- MCCases
    MaxRoutes = 2
INVARIANTS
    EveryTargetTried
    TriedInOrder
CHECK_DEADLOCK FALSE

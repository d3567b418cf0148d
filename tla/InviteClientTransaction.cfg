SPECIFICATION Spec
CONSTANTS
    TIMER_A = 1
    TIMER_B = 5
    TIMER_C = 8
    TIMER_D = 4
    TIMER_M = 4
    TIMER_E = 1
    TIMER_F = 4
    T2 = 3
    GRACE = 2
    LINK = 3
INVARIANTS
    EndingTimer
    CancelExactlyOnce
    EndToldOnce
PROPERTIES
    ImplementsBranch
    EndsAndTells

SPECIFICATION Spec
CONSTANTS
    Provisionals = {r100, r180}
    Successes = {r200, r202}
    Failures = {r404, r408}
    Trying = r100
    Connections = {c1, c2}
    TIMER_C2 = 7
    TIMER_G = 1
    T2 = 3
    TIMER_H = 6
    TIMER_I = 2
    TIMER_L = 6
INVARIANTS
    TypeOK
    NoMixedFinals
    EndingTimer
    LifetimeBound
PROPERTIES
    ImplementsContract

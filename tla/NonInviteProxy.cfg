SPECIFICATION ProxySpec
CONSTANTS
    Provisionals = {r100, r183}
    Finals = {r200, r404}
    Alive = r100
    NoResponse = nil
    Connections = {c1, c2}
    INT1 = 2
    INT2 = 4
    TIMER_J = 4
    TIMER_E = 1
    TIMER_F = 4
    TIMER_K = 2
    T2 = 2
    LINK = 2
    MaxTargets = 2
INVARIANTS
    RequesterNotForgotten
PROPERTIES
    NoLateFinal
    ProxyEnds

SPECIFICATION Spec
CONSTANTS
    Tx = {t1, t2}
    MaxConns = 3
INVARIANTS
    NoDeadConnection
    NoFalseFailure
PROPERTIES
    NoDuplicateConnection
    Resolved
CHECK_DEADLOCK FALSE

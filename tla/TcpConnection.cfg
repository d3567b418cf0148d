SPECIFICATION Spec
CONSTANTS
    HEADERS_MAX_SIZE = 2
    Streams <- AllStreams
    Transports = {"tcp", "tls_callback", "tunnel"}
INVARIANTS
    InOrder
    NothingStuck
CHECK_DEADLOCK FALSE

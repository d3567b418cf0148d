SPECIFICATION MCSpec
CONSTANTS
    Nil = Nil
    StartLines <- MCStartLines
    Blocks <- MCBlocks
    MaxBlocks = 3
    MaxBlocksLater = 1
    MaxLines = 7
    MaxBody = 1
    MaxBuffer = 2
    StunRequests <- MCStunRequests
    Sources <- MCSources
    SourceHost = "192.0.2.1"
INVARIANTS
    HeadersExact
    PartsExact
    UriParsersAgree
    EachOnItsOwn
    StunAnswers
    AddressesExact
CHECK_DEADLOCK FALSE

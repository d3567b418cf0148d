SPECIFICATION Spec
CONSTANTS
    max_frame_size = 2
    max_message_size = 2
    MaxControl = 1
    Traffic <- MCTraffic
INVARIANTS
    DeliveredIntact
    LegalNotRefused
CHECK_DEADLOCK FALSE

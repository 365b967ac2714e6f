\* Nothing is lost or late, and no loss is tolerated.
SPECIFICATION SpecConnected
CONSTANTS
    MAX_ATTEMPTS = 1
    Outcomes = {"sent"}
    Capacity = 4
    Rare = {}
    PromptNetwork = TRUE
    NMessages = 1
    MESURING_RELIABILITY_PACKET_NUMBER = 100
    sliding_window_size = 1
    MaxSeq = 3
    EndOfStream = 0
    LikeProbe = {}
    Measures = {100}
INVARIANTS
    DeliveredOnce
CHECK_DEADLOCK FALSE

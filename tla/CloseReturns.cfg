\* The client closes and nothing is lost.
SPECIFICATION FairSpecConnected
CONSTANTS
    MAX_ATTEMPTS = 2
    Outcomes = {"sent"}
    Capacity = 2
    Rare = {}
    PromptNetwork = FALSE
    NMessages = 0
    MESURING_RELIABILITY_PACKET_NUMBER = 100
    sliding_window_size = 1
    MaxSeq = 2
    EndOfStream = 0
    LikeProbe = {}
    Measures = {100}
PROPERTIES
    CloseReturns
CHECK_DEADLOCK FALSE

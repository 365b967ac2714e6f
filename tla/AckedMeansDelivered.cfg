\* Nothing is lost: an answer to a probe comes late.
SPECIFICATION Spec
CONSTANTS
    MAX_ATTEMPTS = 1
    Outcomes = {"sent"}
    Capacity = 6
    Rare = {}
    PromptNetwork = TRUE
    NMessages = 1
    MESURING_RELIABILITY_PACKET_NUMBER = 5
    sliding_window_size = 1
    MaxSeq = 2
    EndOfStream = 0
    LikeProbe = {}
    Measures = {}
INVARIANTS
    AckedMeansDelivered
CHECK_DEADLOCK FALSE

\* The SYN comes between the ACCEPTING of accept and its wait.
SPECIFICATION FairSpec
CONSTANTS
    MAX_ATTEMPTS = 1
    Outcomes = {"sent"}
    Capacity = 2
    Rare = {}
    PromptNetwork = FALSE
    NMessages = 0
    MESURING_RELIABILITY_PACKET_NUMBER = 2
    sliding_window_size = 1
    MaxSeq = 2
    EndOfStream = 0
    LikeProbe = {}
    Measures = {}
PROPERTIES
    AcceptReturns
CHECK_DEADLOCK FALSE

\* The gateway under fairness: its last message is empty and makes the server
\* close while the client closes too.
SPECIFICATION ClosingSpec
CONSTANTS
    MAX_ATTEMPTS = 2
    Outcomes = {"sent"}
    Capacity = 2
    Rare = {}
    PromptNetwork = FALSE
    NMessages = 2
    MESURING_RELIABILITY_PACKET_NUMBER = 100
    sliding_window_size = 1
    MaxSeq = 2
    EndOfStream = 2
    LikeProbe = {}
    Measures = {100}
PROPERTIES
    DeliversInOrder
    NoReopening
    CloseGivesUp
CHECK_DEADLOCK FALSE

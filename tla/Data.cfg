\* Three messages over a channel that loses PDUs and may be late; a window of
\* one send, so that one success is enough for a loss to be accepted (97: a
\* tolerance of 1) or none ever is (100: a tolerance of 0).
SPECIFICATION SpecConnected
CONSTANTS
    MAX_ATTEMPTS = 2
    Outcomes = {"sent", "lost"}
    Capacity = 2
    Rare = {}
    PromptNetwork = FALSE
    NMessages = 3
    MESURING_RELIABILITY_PACKET_NUMBER = 100
    sliding_window_size = 1
    MaxSeq = 3
    EndOfStream = 0
    LikeProbe = {}
    Measures = {97, 100}
INVARIANTS
    ServerAtMostOneAhead
PROPERTIES
    ImplementsLossPolicy
    ImplementsTransfer
CHECK_DEADLOCK FALSE

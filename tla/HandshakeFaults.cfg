\* The whole life of a connection with every rare result a call may have.
SPECIFICATION Spec
CONSTANTS
    MAX_ATTEMPTS = 1
    Outcomes = {"sent"}
    Capacity = 2
    Rare = {"spurious_wakeup", "bad_deadline", "no_thread"}
    PromptNetwork = FALSE
    NMessages = 1
    MESURING_RELIABILITY_PACKET_NUMBER = 2
    sliding_window_size = 1
    MaxSeq = 2
    EndOfStream = 0
    LikeProbe = {}
    Measures = {}
INVARIANTS
    TypeInv
PROPERTIES
    OnlyLateWaitersAreLeft
CHECK_DEADLOCK FALSE

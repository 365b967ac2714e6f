\* Connecting and closing again over a channel that loses PDUs, under fairness.
SPECIFICATION FairSpec
CONSTANTS
    MAX_ATTEMPTS = 1
    Outcomes = {"sent", "lost"}
    Capacity = 2
    Rare = {}
    PromptNetwork = FALSE
    NMessages = 0
    MESURING_RELIABILITY_PACKET_NUMBER = 2
    sliding_window_size = 1
    MaxSeq = 2
    EndOfStream = 0
    LikeProbe = {}
    Measures = {}
INVARIANTS
    ConnectMeansEstablished
    AcceptOutcome
    SynAckHasAddress
    EachProbeCountsOnce
PROPERTIES
    HandshakeCompletes
CHECK_DEADLOCK FALSE

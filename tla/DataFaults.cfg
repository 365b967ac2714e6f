\* Two messages, the second with the text of a probe (as the first it breaks the
\* budget, see the README); every wait may return without a signal or be given a
\* deadline that is no time.
SPECIFICATION SpecConnected
CONSTANTS
    MAX_ATTEMPTS = 2
    Outcomes = {"sent", "lost"}
    Capacity = 2
    Rare = {"spurious_wakeup", "bad_deadline"}
    PromptNetwork = FALSE
    NMessages = 2
    MESURING_RELIABILITY_PACKET_NUMBER = 100
    sliding_window_size = 1
    MaxSeq = 3
    EndOfStream = 0
    LikeProbe = {2}
    Measures = {97, 100}
INVARIANTS
    LossBudget
CHECK_DEADLOCK FALSE

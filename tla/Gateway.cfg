\* A second of four units and a timeout of two: a deadline may fall in the second,
\* exactly on the next one, or past it.
SPECIFICATION Spec
CONSTANTS
    SECOND = 4
    TIMEOUT = 2
    Files <- MCFiles
    PERIOD = 1
    Jitter = 1
    MaxTries = 2
    MaxDelivered = 3
INVARIANTS
    TypeOK
    NeverAhead
    TcpStalls
    CallIsBounded
    EndsWithAnEmptyPacket
CHECK_DEADLOCK FALSE

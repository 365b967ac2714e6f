\* Four calls of mic_tcp_socket are one more than the table holds; two threads
\* read three messages.
SPECIFICATION Spec
CONSTANTS
    MAX_SOCKETS = 3
    MaxDescriptor = 4
    Readers = {r1, r2}
    NPuts = 3
    Spurious = TRUE
INVARIANTS
    TypeOK
    OpenUntilClosed
    OneConnection
    MutualExclusion
    WakeupIsOwed
PROPERTIES
    ImplementsFifo
    NobodySleepsOnAnEntry
CHECK_DEADLOCK FALSE

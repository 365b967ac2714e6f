\* The window and the tolerances of mic_tcp_connect.
SPECIFICATION Spec
CONSTANTS
    sliding_window_size = 10
    Tolerances = {0, 1, 2, 3}
INVARIANTS
    LossBound
    PolicyInv

SPECIFICATION Spec
CONSTANTS
    EP0_MPS = 2
    DATA_MAX = 4
    Requests <- AbortTransfers
    Abort = TRUE
    Lossy = TRUE
    Resends = TRUE
    Builds = {"debug", "release"}
    RXF_CAP = 3
    RING_CAP = 3
INVARIANTS RxOpen

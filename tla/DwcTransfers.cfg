SPECIFICATION FairSpec
CONSTANTS
    EP0_MPS = 2
    DATA_MAX = 4
    Requests <- DwcRequests
    Abort = FALSE
    Lossy = FALSE
    Resends = FALSE
    Builds = {"release"}
    RXF_CAP = 3
    RING_CAP = 0
INVARIANTS
    TypeOK
    AssertsHold
    Accounted
PROPERTIES
    PipeSpec
    TransferEnds

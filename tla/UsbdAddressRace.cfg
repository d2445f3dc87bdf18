SPECIFICATION Spec
CONSTANTS
    EP0_MPS = 2
    DATA_MAX = 4
    FS_MPS = 1
    BUF_CAP = 7
    Requests <- Enumeration
    Abort = FALSE
    Gap = FALSE
    Lossy = FALSE
INVARIANT AddressAfterStatus

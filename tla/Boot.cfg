SPECIFICATION FairSpec
CHECK_DEADLOCK FALSE
CONSTANTS
    AT32F403 = AT32F403
    AT32F403A = AT32F403A
    AT32F415 = AT32F415
    UNKNOWN = UNKNOWN
    HSE_TRIES = 3
    CHARS = 2
    BANNER = 2
    DUMP = 2
INVARIANTS
    ClocksSwitched
    UsbAt48
    ClockedAccess
PROPERTIES
    LinesWhole
    ResetIsFinal
    BootEnds

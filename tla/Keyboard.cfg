SPECIFICATION FairKbdSpec
CONSTANTS
    KEYS = 4
    Column <- MCColumn
    Modifiers <- MCModifiers
    EMPTY = EMPTY
    PHANTOM = PHANTOM
    UNKNOWN = UNKNOWN
    ROLLOVER = 2
    SESSIONS = 2
INVARIANTS
    ScanExact
    LightOut
PROPERTIES
    ReportsAreNews
    HostCatchesUp

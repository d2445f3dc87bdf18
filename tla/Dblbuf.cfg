SPECIFICATION FairSpec
CONSTANTS
    p1 = p1
    p2 = p2
    p3 = p3
    NONE = NONE
    Packets = {p1, p2, p3}
    SPAN = 4
INVARIANTS
    TypeOK
    Armed
    KickStands
PROPERTIES
    FifoSpec
    PacketsComeOut

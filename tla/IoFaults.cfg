CONSTANTS
    None = None
    Io = {i1, i2}
    Buf = {b1, b2, b3, b4, b5}
    PacketLen = 2
    MaxPackets = 3
    MaxFaults = 1
SPECIFICATION Spec
SYMMETRY Symmetry
CHECK_DEADLOCK FALSE
INVARIANTS NotReused Watched
PROPERTY ChannelSpec

CONSTANTS
    None = None
    Io = {i1, i2}
    Buf = {b1, b2, b3}
    PacketLen = 2
    MaxPackets = 2
    MaxFaults = 1
SPECIFICATION FairSpec
CHECK_DEADLOCK FALSE
PROPERTIES QueueDrains

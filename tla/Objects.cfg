CONSTANTS
    Parts = {"registry", "hash", "peers", "merge", "merge faulty", "codec"}
    Objs = {o1, o2, o3}
    MaxFails = 1
    Keys = {k1, k2, k3}
    Data = {d1, d2}
    Size = 2
    Peers = {p1, p2, p3}
    MaxSends = 3
    NULL = NULL
    EMPTY = EMPTY
    FREE = FREE
    red = red
    blue = blue
SPECIFICATION SpecObjects
CHECK_DEADLOCK FALSE
INVARIANTS NoBadAccess ObjectsOwned NothingDangles
INVARIANTS WalkSafe
INVARIANTS OwnedOnce NothingLost MergeKeepsValues
INVARIANTS RoundTrip
PROPERTY MapSpec

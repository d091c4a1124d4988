CONSTANTS
    None = None
    Client = {c1}
    Compatible = {c1}
    Conn = {p1}
    Handle = {h1}
    CallHandle = {k1, k2}
    Value = {on, off}
    Enabled = {on}
    MaxInFlight = 2
    MaxOom = 0
    CallsInRemove = FALSE
SPECIFICATION Spec
SYMMETRY Symmetry
INVARIANTS CallsFromConnectedPeers PendingCallsHaveObjects NoOrphanCall


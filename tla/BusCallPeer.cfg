CONSTANTS
    None = None
    Client = {c1}
    Compatible = {c1}
    Conn = {p1}
    Handle = {h1}
    CallHandle = {k1}
    Value = {on}
    Enabled = {on}
    MaxInFlight = 1
    MaxOom = 0
    CallsInRemove = FALSE
SPECIFICATION Spec

INVARIANT CallPeerUsable


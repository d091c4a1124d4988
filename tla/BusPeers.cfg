CONSTANTS
    None = None
    Client = {c1, c2}
    Compatible = {c1}
    Conn = {p1, p2, p3}
    Handle = {h1}
    CallHandle = {}
    Value = {on}
    Enabled = {on}
    MaxInFlight = 2
    MaxOom = 0
    CallsInRemove = FALSE
SPECIFICATION Spec
SYMMETRY Symmetry
INVARIANTS PeerCount HandshakeAgrees Converged


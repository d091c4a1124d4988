CONSTANTS
    None = None
    Client = {c1}
    Compatible = {c1}
    Conn = {p1}
    Handle = {h1}
    CallHandle = {k1}
    Value = {on}
    Enabled = {on}
    MaxInFlight = 1
    MaxOom = 1
    CallsInRemove = TRUE
SPECIFICATION Spec
SYMMETRY Symmetry
INVARIANT Inductive


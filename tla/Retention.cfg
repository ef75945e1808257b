CONSTANTS
    x = x
    u = u
    w = w
    p = p
    Gone = Gone
    None = None
    Records = {x}
    Values = {u, w}
    Readers = {p}
    MaxVersion = 3
SPECIFICATION Spec
SYMMETRY Alike
CHECK_DEADLOCK FALSE
INVARIANTS TypeOK ExactAboveMark IndexFindsOutsideT
PROPERTY StaysProtected

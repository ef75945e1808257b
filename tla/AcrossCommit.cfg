CONSTANTS
    a = a
    b = b
    None = None
    Ranges = {a, b}
    Coord = a
    Merges = {TRUE, FALSE}
    Pruned = {b}
    Lingers = FALSE
    MaxMishaps = 1
    Written = {b}
SPECIFICATION Spec
CHECK_DEADLOCK FALSE
INVARIANTS TypeOK OneOutcome ToldIsKept NoLostUpdate KeptIsWhole

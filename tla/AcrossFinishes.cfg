CONSTANTS
    a = a
    b = b
    None = None
    Ranges = {a, b}
    Coord = a
    Merges = {TRUE, FALSE}
    Pruned = {}
    Lingers = FALSE
    MaxMishaps = 1
    Written = {}
SPECIFICATION FairSpec
CHECK_DEADLOCK FALSE
PROPERTY Finished

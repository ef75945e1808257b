CONSTANTS
    a = a
    b = b
    None = None
    Ranges = {a, b}
    Coord = a
    Merges = {TRUE}
    Pruned = {}
    Lingers = FALSE
    MaxMishaps = 0
    Written = {}
SPECIFICATION ReadSpec
CONSTRAINT NotOvertaken
CHECK_DEADLOCK FALSE
INVARIANTS WholeWhileStanding NeverDirty AnsweredIsSeen

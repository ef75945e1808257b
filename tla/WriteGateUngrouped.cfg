CONSTANTS
    t1 = t1
    t2 = t2
    t3 = t3
    r1 = r1
    k1 = k1
    k2 = k2
    h1 = h1
    h2 = h2
    None = None
    Txns = {t1, t2, t3}
    Appliers = {r1}
    Keys = {k1, k2}
    Homes = {h1, h2}
    Writes <- SharedRecord
    Home <- TwoLogs
    At <- FirstRecord
    MaxGroup = 2
    MaxAttempts = 2
    Grouped = FALSE
    Faults = {"busy", "io", "cancel", "reopen"}
SPECIFICATION Spec
SYMMETRY Alike
INVARIANTS AckedSurvivesReopen StoppedDidNotLand LandsOnWhatItRead

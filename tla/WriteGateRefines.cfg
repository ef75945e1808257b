CONSTANTS
    t1 = t1
    t2 = t2
    t3 = t3
    r1 = r1
    k1 = k1
    k2 = k2
    h1 = h1
    h2 = h2
    None = None
    Txns = {t1, t2}
    Appliers = {r1}
    Keys = {k1, k2}
    Homes = {h1}
    Writes <- SharedRecord
    Home <- OneLog
    At <- FirstRecord
    MaxGroup = 2
    MaxAttempts = 2
    Grouped = TRUE
    Faults = {"busy", "io", "cancel"}
SPECIFICATION FairSpec
PROPERTIES EveryWriterAnswered ImplementsAtomicCommits

CONSTANTS
    a = a
    b = b
    c = c
    None = None
    Nodes = {a, b, c}
    Candidates = {a, b}
    Reaches <- OneWay
    TTL = 2
    Guard = 1
    RoundTime = 0
    MaxCanvass = 1
    Drift = 0
    FirstPolicy = 2
    Policies = {}
    Restarting = {}
    Losing = TRUE
    MaxTime = 2
    MaxEpoch = 2
    MaxLog = 2
    MaxRestarts = 1
    MaxLate = 1
SPECIFICATION Spec
CHECK_DEADLOCK FALSE
INVARIANTS TypeOK OneLeaderPerEpoch WriterIsNewest EpochHasOneAuthor LogsMatch

CONSTANTS
    a = a
    b = b
    c = c
    None = None
    Nodes = {a, b, c}
    Candidates = {a, b}
    Reaches <- OneWay
    TTL = 5
    Guard = 1
    RoundTime = 2
    MaxCanvass = 1
    Drift = 0
    FirstPolicy = 5
    Policies = {}
    Restarting = {}
    Losing = FALSE
    MaxTime = 5
    MaxEpoch = 2
    MaxLog = 1
    MaxRestarts = 0
    MaxLate = 0
SPECIFICATION AckSpec
CHECK_DEADLOCK FALSE
INVARIANT AckedIsKept

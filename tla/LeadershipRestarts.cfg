CONSTANTS
    a = a
    b = b
    c = c
    None = None
    Nodes = {a, b, c}
    Candidates = {a, b}
    Reaches <- Everyone
    TTL = 4
    Guard = 2
    RoundTime = 0
    MaxCanvass = 1
    Drift = 1
    FirstPolicy = 4
    Policies = {2}
    Restarting = {c}
    Losing = FALSE
    MaxTime = 4
    MaxEpoch = 2
    MaxLog = 0
    MaxRestarts = 1
    MaxLate = 0
SPECIFICATION Spec
CHECK_DEADLOCK FALSE
INVARIANTS OneWriter OwnVoterHolds

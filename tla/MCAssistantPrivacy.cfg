SPECIFICATION MCSpec
CONSTANTS
    u1 = u1 u2 = u2 w1 = w1 w2 = w2 local = local hosted = hosted
    Users = {u1, u2}
    Workers = {w1}
    Services = {local, hosted}
    FirstExternal = {hosted}
    Limit = 2
    MaxRuns = 1
    MaxRevisions = 2
    MaxFaults = 0
    MaxTroubles = 1
INVARIANT PrivateStaysPrivate
CHECK_DEADLOCK FALSE

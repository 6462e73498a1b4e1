SPECIFICATION MCSpec
CONSTANTS
    u1 = u1 u2 = u2 w1 = w1 w2 = w2 local = local hosted = hosted
    Users = {u1, u2}
    Workers = {w1, w2}
    Services = {local, hosted}
    FirstExternal = {hosted}
    Limit = 1
    MaxRuns = 2
    MaxRevisions = 3
    MaxFaults = 1
    MaxTroubles = 2
INVARIANTS ClaimedOnce PrivateWhileRunning  AllowanceBounded
PROPERTIES EveryTurnEnds StoppedStaysStopped
CHECK_DEADLOCK FALSE

SPECIFICATION FairSpec
CONSTANTS
    p1 = p1 p2 = p2
    Workers = {p1}
    Jobs = {1, 2}
    Workflows = {1, 2}
    Steps <- TwoSteps
    Waits <- TwoWaits
    Undoable <- TwoUndoable
    Limit = 2
    RateLimit = 1
    Minute = 1
    WaitTime = 1
    MaxDelay = 2
    MaxAttempts = 2
    MaxSteps = 3
    MaxVersions = 2
    MaxReplays = 1
    MaxCrashes = 1
INVARIANTS CompletedIsExecuted DeadIsCompensated
PROPERTY EventuallySettled
CHECK_DEADLOCK FALSE

SPECIFICATION Spec
CONSTANTS
    p1 = p1 p2 = p2
    Workers = {p1, p2}
    Jobs = {1, 2}
    Workflows = {1}
    Steps <- OneSteps
    Waits <- OneWaits
    Undoable <- OneUndoable
    Limit = 2
    RateLimit = 1
    Minute = 1
    WaitTime = 1
    MaxDelay = 2
    MaxAttempts = 2
    MaxSteps = 3
    MaxVersions = 1
    MaxReplays = 1
    MaxCrashes = 1
SYMMETRY WorkerSymmetry
INVARIANTS StepsRunOnce UndoneOnce
CHECK_DEADLOCK FALSE

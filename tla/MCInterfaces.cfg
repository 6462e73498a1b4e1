SPECIFICATION MCSpec
CONSTANTS
    Requests = {1, 2, 3, 4, 5}
    Keys = {"a", "b", "m"}
    Keyings <- MCKeyings
    BodyOf <- MCBodyOf
    KindOf <- MCKindOf
    NumbersOf <- MCNumbersOf
    NumberKinds = {"INC", "EVT", "TASK"}
    RateLimit = 2
    MaxRows = 1
    MaxMinutes = 1
    Signers = {"r1", "r2"}
    BackupCodes = {1, 2}
    Challenges = {1, 2}
    Passkeys = {1}
    Retries = 3
    MaxStep = 1
    MaxTokens = 3
    MaxChanges = 2
INVARIANTS OncePerKey NumbersConsecutive UsedOnce OldSessionsEnd
PROPERTIES TrailIsAppendOnly ApiRequestsEnd
CHECK_DEADLOCK FALSE

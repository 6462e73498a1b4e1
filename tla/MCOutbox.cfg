SPECIFICATION MCSpec
CONSTANTS
    apns = apns  webpush = webpush  smtp = smtp  hook = hook
    w1 = w1 w2 = w2
    Workers = {w1, w2}
    Events = {1, 2}
    Channels = {smtp, hook}
    Skippable = {smtp}
    Switchable = {smtp}
    Accepts <- MixedAccepted
    Limit = 2
    Lease = 3
    Timeout = 1
    Requests <- Redirected
    BaseDelay = 1
    MaxDelay = 1
    MaxAttempts = 2
    MaxCrashes = 1
    MaxStalls = 1
INVARIANTS CompletedIsDelivered ExclusiveClaim RecordedNeverResent
PROPERTY EventuallySettled
CHECK_DEADLOCK FALSE

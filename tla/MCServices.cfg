SPECIFICATION MCSpec
CONSTANTS
    Definitions = {"urgent", "normal", "every"}
    Priorities = {"P1", "P4"}
    AnyPriority = "any"
    PriorityOf <- MCPriorityOf
    Duration <- MCDuration
    PauseStates = {"Pending"}
    MaxTime = 6
    Browsers = {"b1", "b2"}
    UserOf <- MCUserOf
    Watches <- MCWatches
    Records = {1}
    QueueSize = 2
    MaxConnections = 1
    MaxPerUser = 1
    MaxDelay = 4
    MaxSignals = 2
    MaxLosses = 2
    Mails = {1, 2, 3}
    Boxes = {"support", "sales"}
    BoxOf <- MCBoxOf
    IdOf <- MCIdOf
    SenderOf <- MCSenderOf
    Refs <- MCRefs
    Token <- MCToken
    Automatic = {3}
    Manual <- MCManual
    Limit = 1
    RateLimit = 2
    MaxFaults = 1
    MaxChanges = 1
INVARIANTS ClockKept BreachIsReal MissedIsResynced
PROPERTIES SignedOutIsClosed EveryMailIsFiledOnce

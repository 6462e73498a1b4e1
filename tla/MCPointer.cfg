SPECIFICATION MCSpec
CONSTANTS
    Subjects = {"storage"}
    Workers = {"w1"}
    MaxJobs = 1
    MaxFaults = 1
    Providers = {"pinata"}
    MaxInserts = 2
    MaxFailures = 1
    MaxCrashes = 1
PROPERTIES PointerIsPreserved
CHECK_DEADLOCK FALSE

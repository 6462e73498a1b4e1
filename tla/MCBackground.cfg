SPECIFICATION MCSpec
CONSTANTS
    Subjects = {"jobs", "storage"}
    Workers = {"w1", "w2"}
    MaxJobs = 3
    MaxFaults = 1
    Providers = {"kubo", "pinata"}
    MaxInserts = 2
    MaxFailures = 2
    MaxCrashes = 2
INVARIANTS ImportedOncePerPreview
PROPERTIES EveryJobEnds PublishedGrows CommittedIsPublished
CHECK_DEADLOCK FALSE

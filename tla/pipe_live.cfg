CONSTANTS
    LastStage = 2
    Needs <- MCNeeds
    Deferred = {1}
    Polling = {2}
    Restartable = {2}
    MaxJobs = 12
    w1 = w1
    w2 = w2
    Workers = {w1}
    Faults = {"crash", "retryable", "cancel"}
    MaxRetries = 1
    MaxRequests = 2
    MaxMishaps = 1
    MaxInput = 2
CHECK_DEADLOCK FALSE
SPECIFICATION FairSpec
INVARIANTS
    SkipIsFresh
PROPERTIES
    ChainCompletes
    Quiesces

CONSTANTS
    LastStage = 3
    Needs <- MCNeeds
    Deferred = {1}
    Polling = {3}
    Restartable = {}
    MaxJobs = 6
    w1 = w1
    w2 = w2
    Workers = {w1}
    Faults = {}
    MaxRetries = 1
    MaxRequests = 2
    MaxMishaps = 0
    MaxInput = 1
CHECK_DEADLOCK FALSE
SPECIFICATION FairSpec
PROPERTIES
    QueuedJobIsTaken

CONSTANTS
    LastStage = 2
    Needs <- MCNeeds
    Deferred = {1}
    Polling = {2}
    Restartable = {2}
    MaxJobs = 3
    w1 = w1
    w2 = w2
    Workers = {w1, w2}
    Faults = {"crash", "redeliver", "failure"}
    MaxRetries = 1
    MaxRequests = 2
    MaxMishaps = 2
    MaxInput = 2
CHECK_DEADLOCK FALSE
SPECIFICATION Spec
SYMMETRY Symmetry
INVARIANTS
    TypeOK
    LifecycleIsEarned
    RunIsDriven

CONSTANTS
    Inputs = {a, b}
    NJobs = 2
    Workers = {w1}
    Clients = {c1}
    NoJob = NoJob
    NoInput = NoInput
    Nobody = Nobody
    Faults = {"redeliver", "broker", "edit"}
    MaxFaults = 2
    MaxClaims = 2
    MaxMessages = 1
CHECK_DEADLOCK FALSE
SPECIFICATION PersistentSpec
PROPERTIES
    FailedDispatchRecovers

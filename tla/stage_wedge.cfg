CONSTANTS
    Jobs = {j1}
    Workers = {w1}
    Clients = {c1}
    NoJob = NoJob
    RecoverStale = FALSE
    Faults = {"crash"}
    MaxClaims = 3
    MaxMessages = 1
CHECK_DEADLOCK FALSE
SPECIFICATION PersistentSpec
PROPERTIES
    RunEnds

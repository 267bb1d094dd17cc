CONSTANTS
    Jobs = {j1}
    Workers = {w1, w2}
    Clients = {c1}
    NoJob = NoJob
    RecoverStale = TRUE
    Faults = {"crash", "stall", "redeliver", "retry", "dbError", "lostSend", "cancel"}
    MaxClaims = 2
    MaxMessages = 1
CHECK_DEADLOCK FALSE
SPECIFICATION PersistentSpec
INVARIANTS
    TypeOK
    SingleOwner
PROPERTIES
    SupersededIsInert
    JobRefinement
    RunEnds
    CancelledRowIsFreed

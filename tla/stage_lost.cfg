CONSTANTS
    Jobs = {j1}
    Workers = {w1}
    Clients = {c1}
    NoJob = NoJob
    RecoverStale = FALSE
    Faults = {"lostSend"}
    MaxClaims = 2
    MaxMessages = 1
CHECK_DEADLOCK FALSE
SPECIFICATION Spec
INVARIANTS
    QueuedJobIsDelivered

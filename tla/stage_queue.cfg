CONSTANTS
    Jobs = {j1, j2, j3}
    Workers = {w1, w2}
    Clients = {c1, c2}
    NoJob = NoJob
    RecoverStale = FALSE
    Faults = {"lostSend"}
    MaxClaims = 2
    MaxMessages = 1
CHECK_DEADLOCK FALSE
SPECIFICATION Spec
SYMMETRY Symmetry
INVARIANTS
    OneRowWorker
    QueuedJobHoldsRow
PROPERTIES
    NewerClaimKeepsRow

CONSTANTS
    Jobs = {j1, j2}
    Workers = {w1}
    Clients = {c1}
    NoJob = NoJob
    RecoverStale = FALSE
    Faults = {"retry"}
    MaxClaims = 2
    MaxMessages = 1
CHECK_DEADLOCK FALSE
SPECIFICATION Spec
SYMMETRY Symmetry
INVARIANTS
    OneActiveJob

CONSTANTS
    Jobs = {j1}
    Workers = {w1, w2}
    Clients = {c1}
    NoJob = NoJob
    RecoverStale = TRUE
    Faults = {"stall", "claimStall", "redeliver"}
    MaxClaims = 3
    MaxMessages = 1
CHECK_DEADLOCK FALSE
SPECIFICATION Spec
SYMMETRY Symmetry
INVARIANTS
    SingleOwner

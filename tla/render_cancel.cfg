CONSTANTS
    Inputs = {a}
    NJobs = 1
    Workers = {w1}
    Clients = {c1}
    NoJob = NoJob
    NoInput = NoInput
    Nobody = Nobody
    Faults = {"cancel"}
    MaxFaults = 2
    MaxClaims = 2
    MaxMessages = 1
CHECK_DEADLOCK FALSE
SPECIFICATION FairSpec
PROPERTIES
    CancelledRunIsFinalized

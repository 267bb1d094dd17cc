CONSTANTS
    Inputs = {a, b}
    NJobs = 1
    Workers = {w1}
    Clients = {c1}
    NoJob = NoJob
    NoInput = NoInput
    Nobody = Nobody
    Faults = {"edit", "looseEdit"}
    MaxFaults = 1
    MaxClaims = 2
    MaxMessages = 1
CHECK_DEADLOCK FALSE
SPECIFICATION Spec
PROPERTIES
    PublishedInputIsLive

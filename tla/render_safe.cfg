CONSTANTS
    Inputs = {a, b}
    NJobs = 2
    Workers = {w1, w2}
    Clients = {c1}
    NoJob = NoJob
    NoInput = NoInput
    Nobody = Nobody
    Faults = {"crash", "stall", "redeliver", "sever", "broker", "lostSend", "cancel", "edit"}
    MaxFaults = 2
    MaxClaims = 2
    MaxMessages = 1
CHECK_DEADLOCK FALSE
SPECIFICATION Spec
SYMMETRY Symmetry
INVARIANTS
    TypeOK
    ArtifactMatchesRun
PROPERTIES
    JobRefinement
    OwnerKeepsRow
    PublishedInputIsLive

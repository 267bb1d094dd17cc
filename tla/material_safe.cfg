CONSTANTS
    Inputs = {a, b}
    NJobs = 2
    Workers = {w1, w2}
    NoJob = NoJob
    NoInput = NoInput
    NoRender = NoRender
    Faults = {"crash", "stall", "redeliver", "raise", "cancel", "edit", "lostSend", "lostCallback", "broker", "decay"}
    MaxFaults = 1
    MaxClaims = 2
    MaxMessages = 1
    Budget = 2
CHECK_DEADLOCK FALSE
SPECIFICATION Spec
SYMMETRY Symmetry
INVARIANTS
    TypeOK
    SingleOwner
    CallsAreSafe
PROPERTIES
    OwnerKeepsEnvelope
    PublishFresh
    JobRefinement

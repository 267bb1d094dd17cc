CONSTANTS
    Inputs = {a}
    NJobs = 1
    Workers = {w1, w2}
    NoJob = NoJob
    NoInput = NoInput
    NoRender = NoRender
    Faults = {"claimStall", "redeliver"}
    MaxFaults = 2
    MaxClaims = 2
    MaxMessages = 1
    Budget = 1
CHECK_DEADLOCK FALSE
SPECIFICATION Spec
SYMMETRY Symmetry
PROPERTIES
    OwnerKeepsEnvelope

CONSTANTS
    Inputs = {a}
    NJobs = 2
    Workers = {w1}
    NoJob = NoJob
    NoInput = NoInput
    NoRender = NoRender
    Faults = {"cancel"}
    MaxFaults = 1
    MaxClaims = 1
    MaxMessages = 1
    Budget = 1
CHECK_DEADLOCK FALSE
SPECIFICATION Spec
SYMMETRY Symmetry
PROPERTIES
    CancelledStays

CONSTANTS
    Inputs = {a}
    NJobs = 3
    Workers = {w1, w2}
    NoJob = NoJob
    NoInput = NoInput
    NoRender = NoRender
    Faults = {}
    MaxFaults = 0
    MaxClaims = 1
    MaxMessages = 1
    Budget = 1
CHECK_DEADLOCK FALSE
SPECIFICATION Spec
SYMMETRY Symmetry
INVARIANTS
    ReadyIsBound

CONSTANTS
    Inputs = {a}
    NJobs = 3
    Workers = {w1}
    NoJob = NoJob
    NoInput = NoInput
    NoRender = NoRender
    Faults = {"raise"}
    MaxFaults = 1
    MaxClaims = 1
    MaxMessages = 1
    Budget = 1
CHECK_DEADLOCK FALSE
SPECIFICATION FairSpec
PROPERTIES
    PendingFinalizationRecovers

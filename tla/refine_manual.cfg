CONSTANTS
    Jobs = {j1, j2}
    Workers = {w1, w2}
    c1 = c1
    c2 = c2
    Clients = {c1, c2}
    NoJob = NoJob
    Settings <- MCManual
    LastInput = 2
    MaxMishaps = 1
    MaxMessages = 2
CHECK_DEADLOCK FALSE
SPECIFICATION Spec
PROPERTIES
    ManualTextStands

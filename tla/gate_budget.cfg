CONSTANTS
    Callers = {c1, c2}
    Windows = {0, 1}
    Window = 2
    TotalCalls = 3
    CriticalReserve = 1
    HighReserve = 1
    LowEnabled = TRUE
    Cooldown = 1
CHECK_DEADLOCK FALSE
SPECIFICATION GateSpec
INVARIANTS
    BudgetIsKept
PROPERTIES
    ReservesAreHonoured

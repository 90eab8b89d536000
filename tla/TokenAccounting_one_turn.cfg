CONSTANTS
    MaxWorkers = 3
    MaxTurns = 1
    MaxUsage = 3
    None = None
SPECIFICATION TokenSpec
CHECK_DEADLOCK FALSE
INVARIANTS
    NoDoubleCount
    CurrentUsageCounted

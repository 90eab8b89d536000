CONSTANTS
    MaxWorkers = 3
    MaxTurns = 2
    MaxUsage = 3
    None = None
SPECIFICATION TokenSpec
CHECK_DEADLOCK FALSE
INVARIANT NoDoubleCount

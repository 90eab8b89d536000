CONSTANTS
    Issues = {1, 2}
    Slots = 1
    Interval = 2
    Latency = 1
    Stall = 2
    Continuation = 1
    Base = 1
    MaxBackoff = 3
    MaxShift = 2
    Word = 4
    MaxAttempt = 2
    MaxEvents = 1
    MaxTime = 7
SPECIFICATION Spec
CHECK_DEADLOCK FALSE
INVARIANTS
    TypeOK
    PollsGoOn

CONSTANTS
    MaxTurns = 2
    MaxAsks = 1
    MaxOddities = 1
    PipeSize = 2
    InputSize = 1
SPECIFICATION FairSpec
INVARIANTS
    OnlyServedTurnsCount
    NoRequestLeftOpen
PROPERTIES
    SessionEnds

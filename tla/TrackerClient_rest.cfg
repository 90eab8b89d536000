CONSTANTS
    Issues = {i1, i2}
    i1 = i1
    i2 = i2
    States = {"todo"}
    Foreign = {}
    Elsewhere = {i1}
    Labelled = {i1}
    Calls = {"list", "refresh", "move"}
    MaxRank = 2
    MaxPages = 3
    MaxDisturbances = 1
CHECK_DEADLOCK FALSE
SPECIFICATION FairSpec
INVARIANTS
    TypeOK
    OrderKept
PROPERTIES
    CallsEnd

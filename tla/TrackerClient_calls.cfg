CONSTANTS
    Issues = {i1, i2}
    i1 = i1
    i2 = i2
    States = {"todo", "done"}
    Foreign = {i2}
    Elsewhere = {i1}
    Labelled = {i1}
    Calls = {"list", "refresh", "move"}
    MaxRank = 2
    MaxPages = 3
    MaxDisturbances = 1
CHECK_DEADLOCK FALSE
SPECIFICATION Spec
INVARIANTS
    ListComplete
    AnswerWasTrue
    AbsentOnlyIfGone
PROPERTIES
    MovesOwnItem

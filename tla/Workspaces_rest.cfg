CONSTANTS
    Targets = {"local"}
    Local = "local"
    Syncs = TRUE
    MaxDisturbances = 6
SPECIFICATION FairSpec
INVARIANTS
    TypeOK
    AgentUndisturbed
    SetUpOnce
PROPERTIES
    RemovalEnds

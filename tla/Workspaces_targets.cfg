CONSTANTS
    Targets = {"local", "h1"}
    Local = "local"
    Syncs = TRUE
    MaxDisturbances = 5
SPECIFICATION FairSpec
INVARIANTS
    AgentInPrepared
PROPERTIES
    ReusedKept
    RunsReachAgent

CONSTANTS
    Targets = {"h1"}
    Local = "local"
    Syncs = FALSE
    MaxDisturbances = 3
SPECIFICATION FairSpec
PROPERTIES
    RemovalEnds

CONSTANTS
    Targets = {"h1"}
    Local = "local"
    Syncs = FALSE
    MaxDisturbances = 3
SPECIFICATION Spec
PROPERTIES
    StartRemovesTerminal

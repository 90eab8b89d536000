CONSTANTS
    Targets = {"local"}
    Local = "local"
    Syncs = FALSE
    MaxDisturbances = 3
SPECIFICATION Spec
PROPERTIES
    AfterRunFollows

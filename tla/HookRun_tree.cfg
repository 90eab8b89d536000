CONSTANTS
    Descendants = {"server", "watcher"}
    Stubborn = {"sh", "server"}
CHECK_DEADLOCK FALSE
SPECIFICATION FairSpec
PROPERTIES
    HookEnds
    AbortEndsTree

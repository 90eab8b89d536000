CONSTANTS
    Descendants = {"server"}
    Stubborn = {"server"}
CHECK_DEADLOCK FALSE
SPECIFICATION FairSpec
PROPERTIES
    TimeoutEndsTree

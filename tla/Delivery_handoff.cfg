CONSTANTS
    Others = {o1}
    MaxChanges = 2
    MaxDisturbances = 1
    o1 = o1
    Removes = TRUE
SPECIFICATION Spec
PROPERTIES
    PushedIsMoved

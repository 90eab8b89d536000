CONSTANTS
    Others = {o1}
    MaxChanges = 2
    MaxDisturbances = 5
    o1 = o1
    Removes = TRUE
SPECIFICATION FairSpec
PROPERTIES
    ImplementsHandoff
    HandedOffWhenDelivered
    WorkKept
    WorkDelivered

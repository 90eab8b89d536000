CONSTANTS
    MaxRequests = 2
    Cooldown = 2
    MaxTime = 3
    QueueSize = 1
    MaxEdits = 2
    ValidVersions = {0, 2}
SPECIFICATION FairSpec
INVARIANTS
    TypeOK
PROPERTIES
    CommandsAnswered
    ReloadKeepsGood

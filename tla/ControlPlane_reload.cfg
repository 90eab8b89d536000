CONSTANTS
    MaxRequests = 0
    Cooldown = 1
    MaxTime = 0
    QueueSize = 1
    MaxEdits = 2
    ValidVersions = {0, 1, 2}
SPECIFICATION TimedSpec
PROPERTY ConfigPickedUp

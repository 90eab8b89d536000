CONSTANTS
    Sources = {"s1", "s2"}
    Contents = {"base", "key", "refused"}
    Initial = "base"
    InitialState = "done"
    Accepted = {"base", "key"}
    TrackerOf <- Trackers
    TransportOf <- Transports
    HostsOf <- Pools
    RootOf <- RootsOf
    PerHost = 1
    Local = Local
    None = None
    h1 = h1
    h2 = h2
    MaxEdits = 2
    MaxDisturbances = 2
SPECIFICATION FairSpec
PROPERTIES
    EditsTakeEffect
INVARIANTS
    StatusFresh

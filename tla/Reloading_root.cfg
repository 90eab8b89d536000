CONSTANTS
    Sources = {"s1"}
    Contents = {"base", "root"}
    Initial = "base"
    InitialState = "active"
    Accepted = {"base", "root"}
    TrackerOf <- Trackers
    TransportOf <- Transports
    HostsOf <- Pools
    RootOf <- RootsOf
    PerHost = 1
    Local = Local
    None = None
    h1 = h1
    h2 = h2
    MaxEdits = 1
    MaxDisturbances = 1
SPECIFICATION Spec
PROPERTY WorkspaceRemoved

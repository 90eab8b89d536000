CONSTANTS
    Sources = {"s1"}
    Contents = {"hosts", "fewer"}
    Initial = "hosts"
    InitialState = "active"
    Accepted = {"hosts", "fewer"}
    TrackerOf <- Trackers
    TransportOf <- Transports
    HostsOf <- Pools
    RootOf <- RootsOf
    PerHost = 1
    Local = Local
    None = None
    h1 = h1
    h2 = h2
    MaxEdits = 1
    MaxDisturbances = 1
SPECIFICATION Spec
PROPERTY HostsConfigured

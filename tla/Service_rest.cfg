CONSTANTS
    S1 = S1
    S2 = S2
    i1 = i1
    i2 = i2
    i3 = i3
    n1 = n1
    n2 = n2
    n3 = n3
    h1 = h1
    h2 = h2
    None = None
    Local = Local
    Absent = Absent
    Sources <- TwoSources
    SourceIndex <- SourceOrder
    IssueIds = {i1}
    Names = {n1}
    States <- AllStates
    TodoState = "todo"
    ActiveStates <- AllActive
    TerminalStates <- AllTerminal
    MaxAgents <- Two
    StateLimit <- NoStateLimit
    Blockers <- NoBlockers
    DispatchRank <- Rank
    HostPool = {}
    SshHosts <- NoHosts
    HostCapacity <- ZeroCapacity
    NamesOf <- SameName
    NewNames <- NoRename
    StartedState <- NoStart
    DirectCommit <- NoCommit
    HandoffState <- ToDone
    RemovesAfterCommit <- Keeps
    InitialStates = {"todo"}
    LeftoverDirs <- NoLeftovers
    MaxDisturbances = 2
SPECIFICATION Spec
INVARIANTS
    TypeOK
    WorkersAccountedFor
    WorkersIsolated
    StoppedClean
PROPERTIES
    DrainHolds
    BackoffKept
    ImplementsLifecycle

CONSTANTS
    S1 = S1
    S2 = S2
    i1 = i1
    i2 = i2
    i3 = i3
    n1 = n1
    n2 = n2
    n3 = n3
    h1 = h1
    h2 = h2
    None = None
    Local = Local
    Absent = Absent
    Sources <- OneSource
    SourceIndex <- SourceOrder
    IssueIds = {i1, i2}
    Names = {n1, n2}
    States <- AllStates
    TodoState = "todo"
    ActiveStates <- AllActive
    TerminalStates <- AllTerminal
    MaxAgents <- Two
    StateLimit <- NoStateLimit
    Blockers <- NoBlockers
    DispatchRank <- Rank
    HostPool = {}
    SshHosts <- NoHosts
    HostCapacity <- ZeroCapacity
    NamesOf <- OwnNames
    NewNames <- FirstTakesSecond
    StartedState <- NoStart
    DirectCommit <- NoCommit
    HandoffState <- ToDone
    RemovesAfterCommit <- Keeps
    InitialStates = {"todo"}
    LeftoverDirs <- NoLeftovers
    MaxDisturbances = 1
SPECIFICATION Spec
INVARIANTS
    ExclusiveOwnership
    WorkersIsolated
PROPERTIES
    LiveWorkspacesKept
    BackoffKept
\* AgentsLeftAlone is violated in this configuration.

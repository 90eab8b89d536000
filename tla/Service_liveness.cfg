CONSTANTS
    S1 = S1
    S2 = S2
    i1 = i1
    i2 = i2
    i3 = i3
    n1 = n1
    n2 = n2
    n3 = n3
    h1 = h1
    h2 = h2
    None = None
    Local = Local
    Absent = Absent
    Sources <- OneSource
    SourceIndex <- SourceOrder
    IssueIds = {i1, i2}
    Names = {n1, n2}
    States <- AllStates
    TodoState = "todo"
    ActiveStates <- AllActive
    TerminalStates <- AllTerminal
    MaxAgents <- One
    StateLimit <- NoStateLimit
    Blockers <- NoBlockers
    DispatchRank <- Rank
    HostPool = {}
    SshHosts <- NoHosts
    HostCapacity <- ZeroCapacity
    NamesOf <- OwnNames
    NewNames <- FirstTakesSecond
    StartedState <- NoStart
    DirectCommit <- Commits
    HandoffState <- ToDone
    RemovesAfterCommit <- Removes
    InitialStates = {"todo"}
    LeftoverDirs <- OneLeftover
    MaxDisturbances = 1
SPECIFICATION FairSpec
INVARIANTS
    TypeOK
    WorkersAccountedFor
PROPERTIES
    LiveWorkspacesKept
    DrainHolds
    BackoffKept
    ImplementsLifecycle
    RunningSettles
    RetriesResolve
    ActiveIssuesServed

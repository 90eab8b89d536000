CONSTANTS
    S1 = S1
    S2 = S2
    i1 = i1
    i2 = i2
    i3 = i3
    n1 = n1
    n2 = n2
    n3 = n3
    h1 = h1
    h2 = h2
    None = None
    Local = Local
    Absent = Absent
    Sources <- OneSource
    SourceIndex <- SourceOrder
    IssueIds = {i1, i2}
    Names = {n1, n2, n3}
    States <- AllStates
    TodoState = "todo"
    ActiveStates <- AllActive
    TerminalStates <- AllTerminal
    MaxAgents <- Two
    StateLimit <- OneInTodo
    Blockers <- NoBlockers
    DispatchRank <- Rank
    HostPool = {h1, h2}
    SshHosts <- BothHosts
    HostCapacity <- One
    NamesOf <- OwnOrSameName
    NewNames <- FirstRenamed
    StartedState <- StartsDoing
    DirectCommit <- Commits
    HandoffState <- ToDone
    RemovesAfterCommit <- Keeps
    InitialStates = {"doing"}
    LeftoverDirs <- OneLeftover
    MaxDisturbances = 1
SPECIFICATION Spec
INVARIANTS
    ClaimsExact
    ExclusiveOwnership
    WorkersIsolated
    LimitsRespected

----------------------------- MODULE Service -----------------------------
(***************************************************************************)
(* The service loop (src/service.rs): one task that ticks (stall check,    *)
(* poll, reconcile, dispatch, retries) and then waits in a select for      *)
(* worker outcomes, operator commands, timers or shutdown; the worker      *)
(* tasks it spawns (src/agent/runner.rs, src/completion.rs); and the       *)
(* tracker, the clock and the workspace directories both act on.           *)
(*                                                                         *)
(* The loop is one sequential task, so an action of it is the code between *)
(* two points where the outside world can be seen to have moved.  Workers, *)
(* the tracker and the clock interleave freely with it.                    *)
(***************************************************************************)
EXTENDS OrchestratorState

CONSTANTS
    Absent,            \* tracker state of an issue that is not in the project
    NamesOf,           \* [IssueIds -> SUBSET Names], the names an issue may start with
    NewNames,          \* [IssueIds -> SUBSET Names], the names a rename may give it
    StartedState,      \* [Sources -> States \cup {None}], completion.started_state
    DirectCommit,      \* [Sources -> BOOLEAN], completion.direct_commit.enabled
    HandoffState,      \* [Key -> States], where a direct commit moves the issue (its severity)
    RemovesAfterCommit,\* [Sources -> BOOLEAN], workspace.cleanup after a commit
    InitialStates,     \* tracker states an issue may have at start-up
    LeftoverDirs,      \* directories an earlier run of the service may have left
    MaxDisturbances    \* bound on everything that goes wrong or is done by people

VARIABLES
    st,              \* OrchestratorState
    workers,         \* WorkerRegistry.tasks: [generation, target] or None
    next_generation, \* WorkerRegistry.next_generation
    alive,           \* the worker tasks that have not ended
    outcomes,        \* outcome channel, oldest first
    phase,           \* where the service task is
    todo,            \* the sources and the keys left to the loop it is in
    poll,            \* the plan and the fetched answers of this tick
    runs,            \* sources whose candidates were fetched in this tick
    retention_pending, \* startup_retention_pending
    tracker,         \* tracker state of every key
    name,            \* current name of every issue
    dirs,            \* workspace directories that exist
    disturbances     \* disturbances so far

loop == <<phase, todo, poll, runs, retention_pending>>
world == <<tracker, name, dirs>>
vars == <<st, workers, next_generation, alive, outcomes, loop, world, disturbances>>

Dirs == Targets \X WorkspaceKey

ASSUME RunnerAssumption ==
    /\ Absent \notin States
    /\ NamesOf \in [IssueIds -> SUBSET Names]
    /\ \A i \in IssueIds : NamesOf[i] # {}
    /\ NewNames \in [IssueIds -> SUBSET Names]
    /\ StartedState \in [Sources -> States \cup {None}]
    /\ DirectCommit \in [Sources -> BOOLEAN]
    /\ HandoffState \in [Key -> States]
    /\ RemovesAfterCommit \in [Sources -> BOOLEAN]
    /\ InitialStates \subseteq States \cup {Absent}
    /\ LeftoverDirs \subseteq Dirs
    /\ MaxDisturbances \in Nat
    /\ None \notin [generation: Nat, target: Targets]

Phases == {"boot", "stall", "poll", "apply", "dispatch", "retry", "prune",
           "select", "stopping", "stopped"}

\* Only a task with a state to move its issue to marks it started.
Task == {w \in [key: Key, generation: Nat, name: Names, target: Targets,
                marks_started: BOOLEAN, terminal: BOOLEAN,
                stage: {"spawned", "prepared", "working", "completing"}] :
            w.marks_started \/ w.stage = "prepared" => StartedState[w.key[1]] # None}

Outcome == [key: Key, generation: Nat, reason: Reasons, terminal: BOOLEAN]

Answer == [status: {"skipped", "pending", "ok", "failed"},
           seen: [IssueIds -> Issue \cup {None}]]

TypeOK ==
    /\ st \in StateType
    /\ workers \in [Key -> [generation: Nat, target: Targets] \cup {None}]
    /\ next_generation \in Nat
    /\ alive \subseteq Task
    /\ outcomes \in Seq(Outcome)
    /\ phase \in Phases
    /\ todo \in [sources: SUBSET Sources, keys: SUBSET Key]
    /\ poll \in [Sources -> [ids: SUBSET IssueIds, recon: Answer, cand: Answer]]
    /\ runs \subseteq Sources
    /\ retention_pending \in BOOLEAN
    /\ tracker \in [Key -> States \cup {Absent}]
    /\ name \in [IssueIds -> Names]
    /\ dirs \subseteq Dirs
    /\ disturbances \in 0..MaxDisturbances

-----------------------------------------------------------------------------

Nothing == [i \in IssueIds |-> None]
Unasked(status) == [status |-> status, seen |-> Nothing]
NoPoll == [s \in Sources |-> [ids |-> {}, recon |-> Unasked("skipped"),
                              cand |-> Unasked("skipped")]]

Init ==
    /\ st = InitState
    /\ workers = [k \in Key |-> None]
    /\ next_generation = 0
    /\ alive = {}
    /\ outcomes = <<>>
    /\ phase = "boot"
    /\ todo = [sources |-> Sources, keys |-> {}]
    /\ poll = NoPoll
    /\ runs = {}
    /\ retention_pending = TRUE
    /\ tracker \in [Key -> InitialStates]
    /\ name \in {n \in [IssueIds -> Names] : \A i \in IssueIds : n[i] \in NamesOf[i]}
    /\ dirs \in SUBSET LeftoverDirs
    /\ disturbances = 0

Disturb == disturbances < MaxDisturbances /\ disturbances' = disturbances + 1

\* The first source of S in configuration order.
FirstOf(S) == CHOOSE s \in S : \A t \in S : SourceIndex[s] <= SourceIndex[t]

WorkspaceDir(target, k, n) == <<target, <<k[1], n>>>>

-----------------------------------------------------------------------------
(* The worker registry. *)

ActiveOnHost(h) ==
    Cardinality({k \in Key : workers[k] # None /\ workers[k].target = h})

\* Mutant: off by one.
HasCapacityOrIsFull(s, h) == ActiveOnHost(h) <= HostCapacity[s]

HasCapacity(s, h) == ActiveOnHost(h) < HostCapacity[s]

\* Local without a host list; otherwise the first host with room, if there is one.
SelectExecutionTarget(s) ==
    IF SshHosts[s] = <<>> THEN {Local}
    ELSE {h \in HostPool : \E n \in DOMAIN SshHosts[s] :
            /\ h = SshHosts[s][n] /\ HasCapacity(s, h)
            /\ \A m \in 1 .. n - 1 : ~HasCapacity(s, SshHosts[s][m])}

\* A continuation stays on its host; a retry after an error may move.
RetryTarget(k) ==
    LET retry == st.retry_attempts[k]
    IN  IF retry.error # None THEN SelectExecutionTarget(k[1])
        ELSE {t \in {retry.target} : t = Local \/ HasCapacity(k[1], t)}

TaskOf(k) == {w \in alive : /\ workers[k] # None
                            /\ w.key = k /\ w.generation = workers[k].generation}

\* Mutant: the task is told to stop but not waited for.
ForgetWorker(k) ==
    /\ UNCHANGED alive
    /\ workers' = [workers EXCEPT ![k] = None]

\* Abort the task of k and wait for it.  What it already sent stays in the channel.
AbortWorker(k) ==
    /\ alive' = alive \ TaskOf(k)
    /\ workers' = [workers EXCEPT ![k] = None]

\* Mutant: no look at whether a started state is configured.
MarksAlways(s, issue) == issue.state # StartedState[s]

MarksStarted(s, issue) ==
    DirectCommit[s] /\ StartedState[s] # None /\ issue.state # StartedState[s]

\* dispatch_issue from `base`: claim, number and spawn a worker for k.
StartWorker(base, k, issue, attempt, target) ==
    LET g == next_generation + 1
    IN  /\ next_generation' = g
        /\ st' = SetRunningGeneration(ClaimRunning(base, k, issue, attempt, target), k, g)
        /\ workers' = [workers EXCEPT ![k] = [generation |-> g, target |-> target]]
        /\ alive' = alive \cup
               {[key |-> k, generation |-> g, name |-> issue.name, target |-> target,
                 marks_started |-> MarksStarted(k[1], issue), terminal |-> FALSE,
                 stage |-> "spawned"]}
        /\ UNCHANGED disturbances

\* dispatch_issue when the workspace manager or path is refused: claim and exit.
FailPreparation(base, k, issue, attempt, target) ==
    /\ Disturb
    /\ st' = WorkerExit(ClaimRunning(base, k, issue, attempt, target), k, "failed")
    /\ UNCHANGED <<workers, next_generation, alive>>

\* Mutant: a retry is dispatched like a fresh candidate, as attempt 0.
DispatchAfresh(base, k, issue, attempt, target) ==
    \/ StartWorker(base, k, issue, 0, target)
    \/ FailPreparation(base, k, issue, 0, target)

DispatchIssue(base, k, issue, attempt, target) ==
    \/ StartWorker(base, k, issue, attempt, target)
    \/ FailPreparation(base, k, issue, attempt, target)

-----------------------------------------------------------------------------
(* Start-up and the tick. *)

\* Remove D, or keep it because the removal failed.
RemoveDir(d) ==
    \/ dirs' = dirs \ {d} /\ UNCHANGED disturbances
    \/ d \in dirs /\ UNCHANGED dirs /\ Disturb

\* The local workspaces of the issues the tracker calls terminal.
StartupCleanup(s) ==
    /\ phase = "boot" /\ todo.sources # {} /\ s = FirstOf(todo.sources)
    /\ LET terminal == {k \in Key : k[1] = s /\ tracker[k] \in TerminalStates[s]}
           leftover == {WorkspaceDir(Local, k, name[k[2]]) : k \in terminal}
       IN  \/ dirs' = dirs \ leftover /\ UNCHANGED disturbances
           \/ leftover \cap dirs # {} /\ UNCHANGED dirs /\ Disturb
    /\ todo' = [todo EXCEPT !.sources = @ \ {s}]
    /\ UNCHANGED <<st, workers, next_generation, alive, outcomes, phase, poll, runs,
                   retention_pending, tracker, name>>

FirstTick ==
    /\ phase = "boot" /\ todo.sources = {}
    /\ phase' = "stall"
    /\ UNCHANGED <<st, workers, next_generation, alive, outcomes, todo, poll, runs,
                   retention_pending, world, disturbances>>

\* No event from the worker of k for longer than the stall timeout.
ReconcileStalled(k) ==
    /\ phase = "stall" /\ st.running[k] # None
    /\ Disturb
    /\ AbortWorker(k)
    /\ st' = WorkerExit(st, k, "stalled")
    /\ UNCHANGED <<next_generation, outcomes, loop, world>>

\* The plan of every source, S without a tracker client and V failing validation.
PlanPolls ==
    /\ phase = "stall"
    /\ \E S, V \in SUBSET Sources :
         LET running(s) == {i \in IssueIds : st.running[<<s, i>>] # None}
             asks(s) == s \notin S /\ running(s) # {}
         IN  /\ S \cap V = {}
             /\ IF S \cup V = {} THEN UNCHANGED disturbances ELSE Disturb
             /\ poll' = [s \in Sources |->
                   [ids |-> IF s \in S THEN {} ELSE running(s),
                    recon |-> Unasked(IF asks(s) THEN "pending" ELSE "skipped"),
                    cand |-> Unasked(IF s \in S \cup V THEN "skipped" ELSE "pending")]]
    /\ phase' = "poll"
    /\ UNCHANGED <<st, workers, next_generation, alive, outcomes, todo, runs,
                   retention_pending, world>>

IssueSeen(k) == [name |-> name[k[2]], state |-> tracker[k]]

\* fetch_issue_states_by_ids: whatever state the asked issues are in.
SeenByIds(s) ==
    [i \in IssueIds |-> IF i \in poll[s].ids /\ tracker[<<s, i>>] # Absent
                        THEN IssueSeen(<<s, i>>) ELSE None]

\* fetch_candidate_issues: every issue in an active state.
SeenActive(s) ==
    [i \in IssueIds |-> IF tracker[<<s, i>>] \in ActiveStates[s]
                        THEN IssueSeen(<<s, i>>) ELSE None]

\* The two requests of a source are in flight together and answer in any order.
FetchReconciliation(s) ==
    /\ phase = "poll" /\ poll[s].recon.status = "pending"
    /\ \/ /\ poll' = [poll EXCEPT ![s].recon = [status |-> "ok", seen |-> SeenByIds(s)]]
          /\ UNCHANGED disturbances
       \/ poll' = [poll EXCEPT ![s].recon.status = "failed"] /\ Disturb
    /\ UNCHANGED <<st, workers, next_generation, alive, outcomes, phase, todo, runs,
                   retention_pending, world>>

FetchCandidates(s) ==
    /\ phase = "poll" /\ poll[s].cand.status = "pending"
    /\ \/ /\ poll' = [poll EXCEPT ![s].cand = [status |-> "ok", seen |-> SeenActive(s)]]
          /\ UNCHANGED disturbances
       \/ poll' = [poll EXCEPT ![s].cand.status = "failed"] /\ Disturb
    /\ UNCHANGED <<st, workers, next_generation, alive, outcomes, phase, todo, runs,
                   retention_pending, world>>

EndPoll ==
    /\ phase = "poll"
    /\ \A s \in Sources : "pending" \notin {poll[s].recon.status, poll[s].cand.status}
    /\ phase' = "apply"
    /\ todo' = [sources |-> Sources,
                keys |-> {k \in Key : /\ poll[k[1]].recon.status = "ok"
                                      /\ k[2] \in poll[k[1]].ids}]
    /\ runs' = {}
    /\ UNCHANGED <<st, workers, next_generation, alive, outcomes, poll,
                   retention_pending, world, disturbances>>

\* reconcile_tracker_states for one issue.  A terminal issue loses its worker and
\* the workspace that belongs to its LATEST name.
ReconcileIssue(k) ==
    LET s == k[1]
        latest == poll[s].recon.seen[k[2]]
        decision == ReconcileDecision(st, k, latest)
    IN  /\ phase = "apply" /\ k \in todo.keys
        /\ s = FirstOf(todo.sources)
        /\ \/ /\ decision = "CancelTerminal"
              /\ AbortWorker(k)
              /\ st' = ReleaseIssue(RefreshIssue(st, k, latest), k)
              /\ RemoveDir(WorkspaceDir(st.running[k].target, k, latest.name))
           \/ /\ decision \in {"CancelNonActive", "MissingFromTracker"}
              /\ AbortWorker(k)
              /\ st' = ReleaseIssue(st, k)
              /\ UNCHANGED <<dirs, disturbances>>
           \/ /\ decision \in {"NoRunningEntry", "RefreshedActive"}
              /\ st' = IF decision = "RefreshedActive" THEN RefreshIssue(st, k, latest) ELSE st
              /\ UNCHANGED <<alive, workers, dirs, disturbances>>
        /\ todo' = [todo EXCEPT !.keys = @ \ {k}]
        /\ UNCHANGED <<next_generation, outcomes, phase, poll, runs, retention_pending,
                       tracker, name>>

\* The candidates of a source: kept for dispatch, or its due retries put off.
ApplyCandidates(s) ==
    /\ phase = "apply" /\ todo.sources # {} /\ s = FirstOf(todo.sources)
    /\ \A k \in todo.keys : k[1] # s
    /\ runs' = IF poll[s].cand.status = "ok" THEN runs \cup {s} ELSE runs
    /\ st' = IF poll[s].cand.status = "failed" THEN RescheduleAfterPollError(st, s) ELSE st
    /\ todo' = [todo EXCEPT !.sources = @ \ {s}]
    /\ UNCHANGED <<workers, next_generation, alive, outcomes, phase, poll,
                   retention_pending, world, disturbances>>

Candidates == {k \in Key : k[1] \in runs /\ poll[k[1]].cand.seen[k[2]] # None}
Candidate(k) == poll[k[1]].cand.seen[k[2]]

\* The smallest limit among the sources that answered.
GlobalAgentLimit ==
    IF runs = {} THEN 0
    ELSE CHOOSE n \in {MaxAgents[s] : s \in runs} : \A s \in runs : n <= MaxAgents[s]

AtLimit == Cardinality(RunningKeys(st)) >= GlobalAgentLimit

\* What is done after a tick: retention once, then the select.
LeaveTick ==
    /\ phase' = IF retention_pending THEN "prune" ELSE "select"
    /\ todo' = [sources |-> IF retention_pending THEN Sources ELSE {}, keys |-> {}]
    /\ poll' = NoPoll
    /\ runs' = {}

\* Mutant: draining does not reach the tick.
AlwaysDispatch == TRUE

MayDispatch == ~st.draining

BeginDispatch ==
    /\ phase = "apply" /\ todo.sources = {}
    /\ IF ~MayDispatch
       THEN LeaveTick
       ELSE /\ phase' = "dispatch"
            /\ todo' = [todo EXCEPT !.keys = Candidates]
            /\ UNCHANGED <<poll, runs>>
    /\ UNCHANGED <<st, workers, next_generation, alive, outcomes, retention_pending,
                   world, disturbances>>

\* One candidate, in dispatch order.
DispatchCandidate(k) ==
    LET issue == Candidate(k)
        targets == SelectExecutionTarget(k[1])
    IN  /\ phase = "dispatch" /\ ~AtLimit
        /\ k \in todo.keys
        /\ \A l \in todo.keys : DispatchRank[k] <= DispatchRank[l]
        /\ \/ /\ Eligible(st, k, issue) /\ workers[k] = None
              /\ \E target \in targets : DispatchIssue(st, k, issue, 0, target)
           \/ /\ ~Eligible(st, k, issue) \/ targets = {} \/ workers[k] # None
              /\ UNCHANGED <<st, workers, next_generation, alive, disturbances>>
        /\ todo' = [todo EXCEPT !.keys = @ \ {k}]
        /\ UNCHANGED <<outcomes, phase, poll, runs, retention_pending, world>>

BeginRetries ==
    /\ phase = "dispatch" /\ (todo.keys = {} \/ AtLimit)
    /\ phase' = "retry"
    /\ todo' = [sources |-> runs, keys |-> {}]
    /\ UNCHANGED <<st, workers, next_generation, alive, outcomes, poll, runs,
                   retention_pending, world, disturbances>>

\* The due retries that have no task: the others are passed over.
Takeable == {k \in todo.keys : workers[k] = None /\ st.retry_attempts[k] # None}

StartRetries(s) ==
    /\ phase = "retry" /\ Takeable = {}
    /\ todo.sources # {} /\ s = FirstOf(todo.sources)
    /\ todo' = [sources |-> todo.sources \ {s}, keys |-> DueRetryKeys(st, s)]
    /\ UNCHANGED <<st, workers, next_generation, alive, outcomes, phase, poll, runs,
                   retention_pending, world, disturbances>>

\* One due retry: forgotten if its issue is no candidate, else put back unchanged
\* or dispatched with its attempt.
RetryIssue(k) ==
    LET retry == st.retry_attempts[k]
        issue == Candidate(k)
        base == TakeRetry(st, k)
        targets == RetryTarget(k)
        dispatchable == ~AtLimit /\ Eligible(base, k, issue) /\ targets # {}
    IN  /\ phase = "retry" /\ k \in Takeable
        /\ \/ /\ k \notin Candidates
              /\ st' = base
              /\ UNCHANGED <<workers, next_generation, alive, disturbances>>
           \/ /\ k \in Candidates /\ ~dispatchable
              /\ st' = RequeueRetry(base, k, retry)
              /\ UNCHANGED <<workers, next_generation, alive, disturbances>>
           \/ /\ k \in Candidates /\ dispatchable
              /\ \E target \in targets :
                     DispatchIssue(base, k, issue, retry.attempt, target)
        /\ todo' = [todo EXCEPT !.keys = @ \ {k}]
        /\ UNCHANGED <<outcomes, phase, poll, runs, retention_pending, world>>

EndTick ==
    /\ phase = "retry" /\ Takeable = {} /\ todo.sources = {}
    /\ LeaveTick
    /\ UNCHANGED <<st, workers, next_generation, alive, outcomes, retention_pending,
                   world, disturbances>>

\* Mutant: only what the tracker calls active is protected.
ActiveWorkspaceKeys(s) ==
    {<<s, name[k[2]]>> : k \in {l \in Key : l[1] = s /\ tracker[l] \in ActiveStates[s]}}

ProtectedWorkspaceKeys(s) ==
    st.claimed_workspace_keys \cup
    {<<s, name[k[2]]>> : k \in {l \in Key : l[1] = s /\ tracker[l] \in ActiveStates[s]}}

\* Old local directories of a source that no claim and no active issue protects.
PruneOrphans(s) ==
    /\ phase = "prune" /\ todo.sources # {} /\ s = FirstOf(todo.sources)
    /\ LET orphans == {d \in dirs : /\ d[1] = Local /\ d[2][1] = s
                                    /\ d[2] \notin ProtectedWorkspaceKeys(s)}
       IN  \E old \in SUBSET orphans : dirs' = dirs \ old
    /\ todo' = [todo EXCEPT !.sources = @ \ {s}]
    /\ UNCHANGED <<st, workers, next_generation, alive, outcomes, phase, poll, runs,
                   retention_pending, tracker, name, disturbances>>

EndPrune ==
    /\ phase = "prune" /\ todo.sources = {}
    /\ phase' = "select"
    /\ retention_pending' = FALSE
    /\ UNCHANGED <<st, workers, next_generation, alive, outcomes, todo, poll, runs,
                   world, disturbances>>

-----------------------------------------------------------------------------
(* The select. *)

\* Mutant: the generations are compared the wrong way round.
PredatesTask(o) == workers[o.key] # None /\ workers[o.key].generation > o.generation

MatchesTask(o) == workers[o.key] # None /\ workers[o.key].generation = o.generation

\* The oldest outcome ends the worker it came from; a stale one is ignored.  The
\* cleanup of a terminal issue removes the workspace of the LATEST name seen.
ApplyWorkerOutcome ==
    LET o == Head(outcomes)
        entry == st.running[o.key]
        current == MatchesTask(o)
    IN  /\ outcomes # <<>>
        /\ outcomes' = Tail(outcomes)
        /\ \/ /\ ~current
              /\ UNCHANGED <<st, workers, dirs, disturbances>>
           \/ /\ current /\ entry # None /\ o.terminal
              /\ workers' = [workers EXCEPT ![o.key] = None]
              /\ st' = ReleaseIssue(st, o.key)
              /\ RemoveDir(WorkspaceDir(entry.target, o.key, entry.issue.name))
           \/ /\ current /\ ~(entry # None /\ o.terminal)
              /\ workers' = [workers EXCEPT ![o.key] = None]
              /\ st' = WorkerExit(st, o.key, o.reason)
              /\ UNCHANGED <<dirs, disturbances>>

ReceiveOutcome ==
    /\ phase = "select"
    /\ ApplyWorkerOutcome
    /\ phase' = "stall"
    /\ UNCHANGED <<next_generation, alive, todo, poll, runs, retention_pending,
                   tracker, name>>

\* The poll timer, a due retry, a refresh request or a worker event.
Wake ==
    /\ phase = "select"
    /\ phase' = "stall"
    /\ UNCHANGED <<st, workers, next_generation, alive, outcomes, todo, poll, runs,
                   retention_pending, world, disturbances>>

Drain ==
    /\ phase = "select" /\ ~st.draining
    /\ Disturb
    /\ st' = [st EXCEPT !.draining = TRUE]
    /\ phase' = "stall"
    /\ UNCHANGED <<workers, next_generation, alive, outcomes, todo, poll, runs,
                   retention_pending, world>>

Resume ==
    /\ phase = "select" /\ st.draining
    /\ st' = [st EXCEPT !.draining = FALSE]
    /\ phase' = "stall"
    /\ UNCHANGED <<workers, next_generation, alive, outcomes, todo, poll, runs,
                   retention_pending, world, disturbances>>

\* An operator names the worker by the generation a snapshot showed.
AbortByOperator(k, g) ==
    /\ phase = "select"
    /\ Disturb
    /\ IF workers[k] # None /\ workers[k].generation = g
       THEN AbortWorker(k) /\ st' = WorkerExit(st, k, "failed")
       ELSE UNCHANGED <<workers, alive, st>>
    /\ phase' = "stall"
    /\ UNCHANGED <<next_generation, outcomes, todo, poll, runs, retention_pending, world>>

PromoteRetry(k) ==
    /\ phase = "select" /\ st.retry_attempts[k] # None
    /\ st' = SetRetryDue(st, k)
    /\ phase' = "stall"
    /\ UNCHANGED <<workers, next_generation, alive, outcomes, todo, poll, runs,
                   retention_pending, world, disturbances>>

Shutdown ==
    /\ phase = "select"
    /\ phase' = "stopping"
    /\ st' = [st EXCEPT !.draining = TRUE]
    /\ UNCHANGED <<workers, next_generation, alive, outcomes, todo, poll, runs,
                   retention_pending, world, disturbances>>

NoTasks == \A k \in Key : workers[k] = None

ReceiveWhileStopping ==
    /\ phase = "stopping" /\ ~NoTasks
    /\ ApplyWorkerOutcome
    /\ UNCHANGED <<next_generation, alive, loop, tracker, name>>

\* The drain timeout: every task left is aborted and awaited.
StopTimeout ==
    /\ phase = "stopping" /\ ~NoTasks
    /\ workers' = [k \in Key |-> None]
    /\ alive' = alive \ UNION {TaskOf(k) : k \in Key}
    /\ UNCHANGED <<st, next_generation, outcomes, loop, world, disturbances>>

Stop ==
    /\ phase = "stopping" /\ NoTasks
    /\ phase' = "stopped"
    /\ UNCHANGED <<st, workers, next_generation, alive, outcomes, todo, poll, runs,
                   retention_pending, world, disturbances>>

Stopped == phase = "stopped" /\ UNCHANGED vars

-----------------------------------------------------------------------------
(* Worker tasks. *)

service == <<st, workers, next_generation, loop>>

Finish(w, reason, terminal) ==
    /\ alive' = alive \ {w}
    /\ outcomes' = Append(outcomes, [key |-> w.key, generation |-> w.generation,
                                     reason |-> reason, terminal |-> terminal])

Advance(w, stage) ==
    /\ alive' = (alive \ {w}) \cup {[w EXCEPT !.stage = stage]}
    /\ UNCHANGED outcomes

PrepareWorkspace(w) ==
    /\ w.stage = "spawned"
    /\ dirs' = dirs \cup {WorkspaceDir(w.target, w.key, w.name)}
    /\ Advance(w, IF w.marks_started THEN "prepared" ELSE "working")
    /\ UNCHANGED <<service, tracker, name, disturbances>>

\* The move does not look at the state the issue has by now.
MarkStarted(w) ==
    /\ w.stage = "prepared" /\ tracker[w.key] # Absent
    /\ tracker' = [tracker EXCEPT ![w.key] = StartedState[w.key[1]]]
    /\ Advance(w, "working")
    /\ UNCHANGED <<service, name, dirs, disturbances>>

\* The agent itself moves its issue to a terminal state.
AgentResolves(w) ==
    /\ w.stage = "working" /\ tracker[w.key] \in States \ TerminalStates[w.key[1]]
    /\ \E state \in TerminalStates[w.key[1]] :
           tracker' = [tracker EXCEPT ![w.key] = state]
    /\ UNCHANGED <<service, alive, outcomes, name, dirs, disturbances>>

\* The refresh after a turn: stop, or go on until the turns are used up.
EndOfTurns(w) ==
    LET s == w.key[1]
        current == tracker[w.key]
        done == current \in TerminalStates[s]
        active == current \in ActiveStates[s] \ TerminalStates[s]
    IN  /\ w.stage = "working"
        /\ \/ /\ ~done /\ ~active
              /\ Finish(w, "canceled", FALSE)
              /\ UNCHANGED disturbances
           \/ /\ (done \/ active) /\ DirectCommit[s]
              /\ alive' = (alive \ {w}) \cup
                     {[w EXCEPT !.stage = "completing", !.terminal = done]}
              /\ UNCHANGED <<outcomes, disturbances>>
           \/ /\ done /\ ~DirectCommit[s]
              /\ Finish(w, "normal", TRUE)
              /\ UNCHANGED disturbances
           \/ /\ active /\ ~DirectCommit[s]
              /\ Finish(w, "normal", FALSE)
              /\ Disturb
        /\ UNCHANGED <<service, world>>

\* Direct commit: refused for a missing issue, skipped for one no longer active.  Git
\* runs on this machine whatever the target is, so it fails in a remote workspace,
\* again at every retry (counted as a disturbance to bound the retries); in a local
\* one it pushes and moves the issue, unless there was nothing to commit.
CompleteIssue(w) ==
    LET s == w.key[1]
        current == tracker[w.key]
        active == current \in ActiveStates[s]
        own == WorkspaceDir(w.target, w.key, w.name)
    IN  /\ w.stage = "completing"
        /\ \/ /\ \/ current = Absent /\ UNCHANGED disturbances
                 \/ active /\ w.target # Local /\ Disturb
              /\ Finish(w, "failed", FALSE)
              /\ UNCHANGED <<tracker, dirs>>
           \/ /\ current # Absent /\ ~active
              /\ Finish(w, "normal", w.terminal)
              /\ UNCHANGED <<tracker, dirs, disturbances>>
           \/ /\ active /\ w.target = Local
              /\ tracker' = [tracker EXCEPT ![w.key] = HandoffState[w.key]]
              /\ IF RemovesAfterCommit[s] THEN RemoveDir(own) ELSE UNCHANGED <<dirs, disturbances>>
              /\ Finish(w, "normal", w.terminal)
           \/ /\ active /\ w.target = Local
              /\ Finish(w, "normal", w.terminal)
              /\ Disturb
              /\ UNCHANGED <<tracker, dirs>>
        /\ UNCHANGED <<service, name>>

\* A refused workspace, hook, session, turn, refresh or completion.
FailWorker(w) ==
    /\ Finish(w, "failed", FALSE)
    /\ \/ w.stage = "prepared" /\ tracker[w.key] = Absent /\ UNCHANGED disturbances
       \/ Disturb
    /\ UNCHANGED <<service, world>>

WorkerStep(w) ==
    \/ PrepareWorkspace(w) \/ MarkStarted(w) \/ AgentResolves(w)
    \/ EndOfTurns(w) \/ CompleteIssue(w) \/ FailWorker(w)

-----------------------------------------------------------------------------
(* The tracker's users and the clock. *)

TrackerMove(k) ==
    /\ Disturb
    /\ \E state \in (States \cup {Absent}) \ {tracker[k]} :
           tracker' = [tracker EXCEPT ![k] = state]
    /\ UNCHANGED <<service, alive, outcomes, name, dirs>>

Rename(i) ==
    /\ Disturb
    /\ \E n \in NewNames[i] \ {name[i]} : name' = [name EXCEPT ![i] = n]
    /\ UNCHANGED <<service, alive, outcomes, tracker, dirs>>

BecomeDue(k) ==
    /\ st.retry_attempts[k] # None /\ ~st.retry_attempts[k].due
    /\ st' = SetRetryDue(st, k)
    /\ UNCHANGED <<workers, next_generation, loop, alive, outcomes, world, disturbances>>

-----------------------------------------------------------------------------

TickStep ==
    \/ \E s \in Sources : \/ StartupCleanup(s) \/ FetchReconciliation(s)
                          \/ FetchCandidates(s) \/ ApplyCandidates(s)
                          \/ StartRetries(s) \/ PruneOrphans(s)
    \/ FirstTick \/ PlanPolls \/ EndPoll \/ BeginDispatch \/ BeginRetries
    \/ EndTick \/ EndPrune
    \/ \E k \in Key : ReconcileIssue(k) \/ DispatchCandidate(k) \/ RetryIssue(k)

StopStep == ReceiveWhileStopping \/ StopTimeout \/ Stop

OperatorStep ==
    \/ Drain \/ Resume \/ Shutdown
    \/ \E k \in Key : PromoteRetry(k) \/ \E g \in 1..next_generation : AbortByOperator(k, g)

Environment ==
    \/ \E k \in Key : TrackerMove(k) \/ BecomeDue(k)
    \/ \E i \in IssueIds : Rename(i)

Next ==
    \/ TickStep
    \/ \E k \in Key : ReconcileStalled(k)
    \/ ReceiveOutcome \/ Wake
    \/ OperatorStep \/ StopStep \/ Stopped
    \/ \E w \in alive : WorkerStep(w)
    \/ Environment

Spec == Init /\ [][Next]_vars

\* The service task keeps running and its poll timer fires; a select that keeps
\* finding an outcome takes it at some round, since its branches are drawn at
\* random; an agent's session ends, its issue resolved; time passes.
Fairness ==
    /\ WF_vars(TickStep \/ Wake \/ StopStep)
    /\ SF_vars(ReceiveOutcome)
    /\ \A k \in Key : WF_vars(\E w \in alive : w.key = k /\ WorkerStep(w))
    /\ \A k \in Key : WF_vars(BecomeDue(k))

FairSpec == Spec /\ Fairness

=============================================================================

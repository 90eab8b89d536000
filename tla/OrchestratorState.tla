------------------------ MODULE OrchestratorState ------------------------
(***************************************************************************)
(* The orchestrator's in-memory book-keeping (src/orchestrator/state.rs),  *)
(* the scheduling rules that read it (scheduler.rs) and the parts of the   *)
(* configuration they depend on, as operators over one record `st`.        *)
(*                                                                         *)
(* An issue is known by its key, the pair <<source, issue id>>; a          *)
(* workspace by the pair <<source, name>>, where a Name is an identifier   *)
(* AFTER sanitisation, so two issues may carry the same Name.  Time is     *)
(* reduced to whether a retry is due.  Maps are total functions with the   *)
(* value None outside their domain.  `completed`, the token totals and the *)
(* recent events take no part in scheduling and are not in `st`.           *)
(***************************************************************************)
EXTENDS Integers, Sequences, FiniteSets

CONSTANTS
    Sources,          \* configured issue sources
    SourceIndex,      \* position of each source in the configuration
    IssueIds,         \* tracker issue ids, shared by the sources
    Names,            \* sanitised issue identifiers
    States,           \* normalised tracker states
    TodoState,        \* the state whose blockers are inspected
    ActiveStates,     \* [Sources -> SUBSET States]
    TerminalStates,   \* [Sources -> SUBSET States]
    MaxAgents,        \* [Sources -> Nat], agent.max_concurrent_agents
    StateLimit,       \* [Sources -> [States -> Nat]], per-state limit or its default
    Blockers,         \* issue ids the body or the links of an issue name as blockers
    DispatchRank,     \* position of a key in (priority, created_at, source, identifier) order
    Local,            \* the local execution target
    HostPool,         \* every SSH host of every source
    SshHosts,         \* [Sources -> Seq(HostPool)], worker.ssh_hosts
    HostCapacity,     \* [Sources -> Nat], worker.max_concurrent_agents_per_host
    None              \* absence of a value

Key == Sources \X IssueIds
WorkspaceKey == Sources \X Names
Targets == HostPool \cup {Local}
Reasons == {"normal", "failed", "stalled", "canceled"}
RetryErrors == (Reasons \ {"normal"}) \cup {"poll"}

Issue == [name: Names, state: States]

RunningEntry == [issue: Issue, workspace_key: WorkspaceKey, target: Targets,
                 retry_attempt: Nat, generation: Nat]

RetryEntry == [workspace_key: WorkspaceKey, target: Targets, attempt: Nat,
               due: BOOLEAN, error: RetryErrors \cup {None}]

ASSUME SourcesAssumption ==
    /\ IsFiniteSet(Sources) /\ IsFiniteSet(IssueIds)
    /\ SourceIndex \in [Sources -> Nat]
    /\ \A s, t \in Sources : SourceIndex[s] = SourceIndex[t] => s = t

ASSUME ConfigAssumption ==
    /\ TodoState \in States
    /\ ActiveStates \in [Sources -> SUBSET States]
    /\ TerminalStates \in [Sources -> SUBSET States]
    /\ MaxAgents \in [Sources -> Nat]
    /\ StateLimit \in [Sources -> [States -> Nat]]
    /\ Blockers \in [Key -> SUBSET IssueIds]
    /\ DispatchRank \in [Key -> Nat]
    /\ \A k, l \in Key : DispatchRank[k] = DispatchRank[l] => k = l
    /\ HostCapacity \in [Sources -> Nat]
    /\ SshHosts \in [Sources -> Seq(HostPool)]
    /\ Local \notin HostPool

ASSUME NoneAssumption ==
    /\ None \notin RunningEntry
    /\ None \notin RetryEntry
    /\ None \notin Issue
    /\ None \notin States
    /\ None \notin RetryErrors
    /\ None \notin Targets

-----------------------------------------------------------------------------
(* The state record and who owns what in it. *)

StateType ==
    [running: [Key -> RunningEntry \cup {None}],
     retry_attempts: [Key -> RetryEntry \cup {None}],
     claimed: SUBSET Key,
     claimed_issue_ids: SUBSET IssueIds,
     claimed_workspace_keys: SUBSET WorkspaceKey,
     draining: BOOLEAN]

InitState ==
    [running |-> [k \in Key |-> None],
     retry_attempts |-> [k \in Key |-> None],
     claimed |-> {}, claimed_issue_ids |-> {}, claimed_workspace_keys |-> {},
     draining |-> FALSE]

RunningKeys(st) == {k \in Key : st.running[k] # None}
RetryKeys(st) == {k \in Key : st.retry_attempts[k] # None}

OwnsId(st, i) == \E k \in RunningKeys(st) \cup RetryKeys(st) : k[2] = i

OwnsWorkspace(st, w) ==
    \/ \E k \in RunningKeys(st) : st.running[k].workspace_key = w
    \/ \E k \in RetryKeys(st) : st.retry_attempts[k].workspace_key = w

\* The workspace keys that the entries of k hold.
WorkspacesOf(st, k) ==
    {st.running[l].workspace_key : l \in RunningKeys(st) \cap {k}} \cup
    {st.retry_attempts[l].workspace_key : l \in RetryKeys(st) \cap {k}}

ReleaseTrackerIssueIdIfUnowned(st, i) ==
    IF OwnsId(st, i) THEN st ELSE [st EXCEPT !.claimed_issue_ids = @ \ {i}]

\* One release_workspace_key_if_unowned call for each key of W.
ReleaseWorkspaceKeysIfUnowned(st, W) ==
    [st EXCEPT !.claimed_workspace_keys =
        {w \in @ : w \in W => OwnsWorkspace(st, w)}]

-----------------------------------------------------------------------------
(* Operations. *)

ClaimRunning(st, k, issue, attempt, target) ==
    LET wkey == <<k[1], issue.name>>
        inserted ==
            [st EXCEPT !.claimed = @ \cup {k},
                       !.claimed_issue_ids = @ \cup {k[2]},
                       !.claimed_workspace_keys = @ \cup {wkey},
                       !.retry_attempts[k] = None,
                       !.running[k] = [issue |-> issue, workspace_key |-> wkey,
                                       target |-> target, retry_attempt |-> attempt,
                                       generation |-> 0]]
    IN  ReleaseTrackerIssueIdIfUnowned(
            ReleaseWorkspaceKeysIfUnowned(inserted, WorkspacesOf(st, k)), k[2])

SetRunningGeneration(st, k, g) ==
    IF st.running[k] = None THEN st ELSE [st EXCEPT !.running[k].generation = g]

RequeueRetry(st, k, retry) ==
    [st EXCEPT !.retry_attempts[k] = retry,
               !.claimed = @ \cup {k},
               !.claimed_issue_ids = @ \cup {k[2]},
               !.claimed_workspace_keys = @ \cup {retry.workspace_key}]

ErrorMessage(reason) == IF reason = "normal" THEN None ELSE reason

\* A normal exit queues a continuation as attempt 1; any other exit backs off
\* as the attempt after the one that ended.
RetryAfterExit(entry, reason) ==
    [workspace_key |-> entry.workspace_key, target |-> entry.target,
     attempt |-> IF reason = "normal" THEN 1 ELSE entry.retry_attempt + 1,
     due |-> FALSE, error |-> ErrorMessage(reason)]

WorkerExit(st, k, reason) ==
    IF st.running[k] = None THEN st
    ELSE RequeueRetry([st EXCEPT !.running[k] = None], k,
                      RetryAfterExit(st.running[k], reason))

ReleaseIssue(st, k) ==
    LET removed == [st EXCEPT !.running[k] = None, !.retry_attempts[k] = None,
                              !.claimed = @ \ {k}]
    IN  ReleaseWorkspaceKeysIfUnowned(
            ReleaseTrackerIssueIdIfUnowned(removed, k[2]), WorkspacesOf(st, k))

\* Mutant: the workspace key stays claimed.
ReleaseRetryClaimKeepsWorkspace(st, k, retry) ==
    ReleaseTrackerIssueIdIfUnowned([st EXCEPT !.claimed = @ \ {k}], k[2])

ReleaseRetryClaim(st, k, retry) ==
    ReleaseWorkspaceKeysIfUnowned(
        ReleaseTrackerIssueIdIfUnowned([st EXCEPT !.claimed = @ \ {k}], k[2]),
        {retry.workspace_key})

\* Take a retry off the queue with its claims: the first two calls of a due retry.
TakeRetry(st, k) ==
    ReleaseRetryClaim([st EXCEPT !.retry_attempts[k] = None], k, st.retry_attempts[k])

ReconcileDecision(st, k, latest) ==
    CASE st.running[k] = None -> "NoRunningEntry"
      [] st.running[k] # None /\ latest = None -> "MissingFromTracker"
      [] st.running[k] # None /\ latest # None ->
            IF latest.state \in TerminalStates[k[1]] THEN "CancelTerminal"
            ELSE IF latest.state \notin ActiveStates[k[1]] THEN "CancelNonActive"
            ELSE "RefreshedActive"

\* The entry takes the latest name and state; its workspace key stays the old one.
RefreshIssue(st, k, latest) == [st EXCEPT !.running[k].issue = latest]

\* Mutant: continuations, which carry no error, are overlooked.
DueErrorRetryKeys(st, s) ==
    {k \in RetryKeys(st) : /\ k[1] = s /\ st.retry_attempts[k].due
                           /\ st.retry_attempts[k].error # None}

DueRetryKeys(st, s) == {k \in RetryKeys(st) : k[1] = s /\ st.retry_attempts[k].due}

\* Mutant: the failed poll is not counted.
PutOffUncounted(retry) == [retry EXCEPT !.error = "poll", !.due = FALSE]

PutOff(retry) == [retry EXCEPT !.attempt = retry.attempt + 1, !.error = "poll", !.due = FALSE]

RescheduleAfterPollError(st, s) ==
    [st EXCEPT !.retry_attempts =
        [k \in Key |-> IF k \in DueRetryKeys(st, s) THEN PutOff(st.retry_attempts[k])
                       ELSE st.retry_attempts[k]]]

SetRetryDue(st, k) == [st EXCEPT !.retry_attempts[k].due = TRUE]

-----------------------------------------------------------------------------
(* Dispatch eligibility. *)

\* A blocker reference as the tracker client builds it: never with a state.
ParseBlocker(i) == [id |-> i, state |-> None]

TodoBlocked(k, issue) ==
    /\ issue.state = TodoState
    /\ \E i \in Blockers[k] : LET ref == ParseBlocker(i)
                              IN  ref.state = None \/ ref.state \notin TerminalStates[k[1]]

RunningInState(st, state) == {k \in RunningKeys(st) : st.running[k].issue.state = state}

\* Mutant: only the issue key is looked up.
IsKeyClaimed(st, k, issue) == k \in st.claimed

\* Mutant: the workspace key is not looked up.
IsIssueClaimed(st, k, issue) == k \in st.claimed \/ k[2] \in st.claimed_issue_ids

IsClaimed(st, k, issue) ==
    \/ k \in st.claimed
    \/ k[2] \in st.claimed_issue_ids
    \/ <<k[1], issue.name>> \in st.claimed_workspace_keys

SlotAvailable(st, k, issue) ==
    /\ Cardinality(RunningKeys(st)) < MaxAgents[k[1]]
    /\ Cardinality(RunningInState(st, issue.state)) < StateLimit[k[1]][issue.state]

Eligible(st, k, issue) ==
    /\ issue.state \notin TerminalStates[k[1]]
    /\ issue.state \in ActiveStates[k[1]]
    /\ ~IsClaimed(st, k, issue)
    /\ SlotAvailable(st, k, issue)
    /\ ~TodoBlocked(k, issue)

-----------------------------------------------------------------------------
(* What keeps the record consistent. *)

Owners(st) == RunningKeys(st) \cup RetryKeys(st)

ClaimsMatchOwners(st) ==
    /\ st.claimed = Owners(st)
    /\ \A i \in IssueIds : i \in st.claimed_issue_ids <=> \E k \in Owners(st) : k[2] = i
    /\ \A w \in WorkspaceKey : w \in st.claimed_workspace_keys <=>
           \E k \in Owners(st) : w \in WorkspacesOf(st, k)

OwnersDisjoint(st) ==
    /\ RunningKeys(st) \cap RetryKeys(st) = {}
    /\ \A k, l \in Owners(st) : k # l =>
          k[2] # l[2] /\ WorkspacesOf(st, k) \cap WorkspacesOf(st, l) = {}

=============================================================================

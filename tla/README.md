# Symphony in TLA+

Models, model-checking runs and machine-checked proofs of Symphony (`src/`), a service
that watches GitHub Projects, gives every active issue to a coding agent in a workspace
of its own, and delivers the result.  This document says which module stands for which
code, what each run shows within which bounds, what is proved, and what is left out.

Paths such as `service.rs:744` are relative to the crate's `src/` directory; `SPEC.md`,
`README.md` and `WORKFLOW.example.md` are the repository's own documents.

## 1. The system

### 1.1 Components

| Component | Code | State | Operations |
|---|---|---|---|
| Orchestrator state | `orchestrator/state.rs` | running entries, retry queue, three sets of claims, drain flag, token totals, live sessions | claim, release, worker exit, requeue, reconcile, take due retries, apply an agent event |
| Scheduler | `orchestrator/scheduler.rs` | none | eligibility, per-state slots, dispatch order |
| Retry back-off | `orchestrator/retry.rs` | none | delay of an attempt, saturating |
| Service loop | `service.rs` | worker registry with generations, channels, timers, cached tracker clients, start-up flag | tick, select, operator commands, graceful shutdown, start-up cleanup, retention |
| Agent runner | `agent/runner.rs` | one task per worker | workspace, started state, turns, completion, cleanup |
| Codex session | `agent/codex.rs`, `process.rs` | child process, pipes, request ids, turn id | handshake, turns, server requests, deadlines, shutdown |
| Direct commit | `completion.rs` | the git repository of a workspace | commit, fetch, rebase with a stash, push, move the issue |
| Workspaces, hooks | `workspace.rs`, `hooks.rs` | directories here and on ssh hosts | create, populate, bring up to date, set up, hooks, remove, prune |
| Processes | `process.rs` | a process group | wait, terminate with a grace period, kill, drop |
| HTTP interface | `observability/http.rs` | refresh flag, cooldown, control queue, status document, poll health | refresh, drain, resume, abort, promote, publish, readiness, read-only views |
| Configuration | `config.rs`, `workflow.rs` | last good configuration and modification time of every source | parse, validate, reload |
| Tracker client | `tracker/github.rs` | one call: pages, cursors, nested connections | list candidates, refresh by id, move an issue |
| Prompt, logging, clock, signal, entry point | `prompt.rs`, `logging.rs`, `time.rs`, `shutdown.rs`, `main.rs` | none | |

### 1.2 How they interact

The service loop is one task.  A round reloads the configuration, ticks, and waits in one
`select!` for shutdown, an operator command, an agent event, a worker outcome, a refresh
or a timer.  A tick looks for stalled workers, fetches for every source in parallel the
states of its running issues and its candidates, reconciles, dispatches candidates and
then due retries.  Workers are tasks; they share nothing with the loop but two channels
(events and outcomes), the tracker and the directories.  The loop ends a worker either by
its outcome or by aborting its task, and tells successors apart by a generation number.
HTTP handlers run on threads of their own and reach the loop through two channels, a flag
and an atomic time stamp.  A worker talks to a child process through pipes and runs git in
its workspace.

### 1.3 What is hard

* outcomes and events of a worker that is already aborted, replaced or released;
* claims that live in three sets and two maps, released by separate calls;
* answers of the tracker that are stale with respect to each other and to the world;
* several sources with one set of limits, several hosts with capacities;
* git commands that outlive the task which started them, partial completion, a rebase
  that stashes and commits, other people's pushes;
* a child process that is late, silent, talkative, torn or gone, at any await;
* a flag, a time stamp and two queues between threads and the loop;
* scripts on other hosts and local clones that outlive the run which awaited them, answers
  that are lost, hooks that hang, processes that ignore SIGTERM or hold the output;
* listings put together from many requests while people change the board, and cursors that
  go in circles;
* timers that are set anew after every message, and a back-off that shifts and saturates;
* reloads between the dispatch of a worker and the end of its run;
* drain, resume, abort, promotion and shutdown between any two of these steps.

The full list, with the lines and the properties that cover them, is `hazards` in
`PROJECT.json`.

### 1.4 What makes each component correct

* State: claims are exactly what running entries and retries own; owners are disjoint;
  attempts only fall on a normal exit.
* Loop: every worker is accounted for, no two agents share an issue or a directory, limits
  hold, nothing starts while draining, nothing survives the stop, retries resolve, active
  issues are served.
* Tokens: no token is counted twice and none is lost by the current worker.
* Delivery: nothing on the base branch is overwritten, an issue is handed off only with
  its work delivered, no commit is removed undelivered, work that was left is delivered.
* Session: only turns the server completed count, a wait is answered by its own response,
  no request is left open, no process is left behind, the session ends.
* Workspaces: an agent only works in a prepared directory that stays, a directory is set up
  once, what is reused is not removed, removals end.
* Hooks: a hook ends, tells success from a timeout, and leaves nothing when it is aborted.
* Tracker client: a listing that succeeds is complete, true and in order; only an issue that
  was gone is left out; a move changes the configured board; calls end.
* Pacing: polls go on, silent workers end, no due retry is slept through, back-off grows.
* Reload: polls use the settings in force, a refused file keeps back its own source only, the
  status is fresh, readiness follows the trackers.
* Control plane: the cooldown holds, refreshes are not lost, commands are answered once and
  truthfully, an invalid configuration never comes into force.

## 2. Modules

| Module | Role |
|---|---|
| `OrchestratorState` | the state record and its operations, the scheduling rules, the tracker's blocker references: operators over one record `st` |
| `Service` | the loop, the registry, the worker tasks, the tracker and the directories: state machine over `OrchestratorState` |
| `ServiceProperties` | its invariants, action properties, liveness, the refinement mapping |
| `IssueLifecycle` | abstract specification of one issue's life; `Service` implements it |
| `MCService` | constants of the runs of `Service` |
| `TokenAccounting` | events, live session and totals of one issue (`apply_worker_event`, `apply_codex_event`) |
| `Delivery` | from a new workspace to the base branch and the tracker, over successive runs |
| `Handoff` | abstract specification of the way of one issue's work; `Delivery` implements it |
| `AgentSession` | client, pipes, server and process of one session |
| `ControlPlane` | HTTP requests, the select and the reload |
| `Workspaces` | the directories of one issue on every target: runs, removals of the service, scripts that outlive both |
| `HookRun` | one local hook: its process group, the timers that end it, the readers of its output |
| `TrackerClient` | the calls of the GitHub client, request by request |
| `Pacing` | the clock: timers of the loop, back-off, stalls |
| `Reloading`, `MCReloading` | several sources under edits of their files: reload, cached clients, published status, poll health |
| `ServiceProofs`, `DeliveryProofs`, `AgentSessionProofs`, `TrackerClientProofs`, `PacingProofs`, `ReloadingProofs` | theorems about the module of the name; `ServiceProofs` begins with those about the record of `OrchestratorState` |
| `ControlPlaneProofs` | theorems about `ControlPlane` and `TokenAccounting`, two views of what the select receives; it extends both, so the latter's specification has names of its own (`TokenInit`, `TokenNext`, `TokenSpec`, `TokenTypeOK`) |
| `WorkspacesProofs` | theorems about the module of the name, and about `HookRun`, which is an instance in it |

`Service` composes with `OrchestratorState` by EXTENDS; the other modules look into what is
a single step or a constant of `Service`: `Workspaces` and `Delivery` into the stages
`spawned` and `completing` of a worker and into removals, `HookRun` into a step of
`Workspaces`, `AgentSession` into the stage `working`, `TrackerClient` into a fetch or a
move, `ControlPlane` into the commands and wake-ups of the select, `Pacing` into
`BecomeDue`, `ReconcileStalled` and `Wake`, `Reloading` into the configuration.  A definition
that starts with a comment "Mutant:" is a deliberately wrong
variant of the definition below it; no specification uses it.

### 2.1 Service

| Action | Code |
|---|---|
| `StartupCleanup`, `FirstTick` | `startup_terminal_cleanup`, start of `run_multi_source_service_until_shutdown` |
| `ReconcileStalled`, `PlanPolls` | `reconcile_stalled`, first half of `tick` |
| `FetchReconciliation`, `FetchCandidates`, `EndPoll` | `fetch_source_poll`: two requests in flight per source, answered in any order |
| `ReconcileIssue`, `ApplyCandidates` | `reconcile_tracker_states`, rescheduling after a failed poll |
| `BeginDispatch`, `DispatchCandidate`, `BeginRetries`, `StartRetries`, `RetryIssue`, `EndTick` | `dispatch_runs`, `dispatch_issue`, `dispatch_due_retries` |
| `PruneOrphans`, `EndPrune` | `startup_orphan_workspace_pruning` after the first tick |
| `ReceiveOutcome`, `Wake`, `Drain`, `Resume`, `AbortByOperator`, `PromoteRetry`, `Shutdown` | the `select!` and `apply_service_control` |
| `ReceiveWhileStopping`, `StopTimeout`, `Stop` | `graceful_shutdown_workers` |
| `PrepareWorkspace`, `MarkStarted`, `AgentResolves`, `EndOfTurns`, `CompleteIssue`, `FailWorker` | `SymphonyAgentRunner::run_inner` |
| `TrackerMove`, `Rename`, `BecomeDue` | people and the clock |

The loop is sequential, so one of its actions is the code between two points where the
world can be seen to have moved.  Abstractions:

* Time is whether a retry is due, and whether a worker has stalled (any worker may);
  `Pacing` has the clock.
* A Name is an identifier after sanitisation; two issues may carry the same one.
* A fetch is one atomic look at the tracker per request; `TrackerClient` has the pages.
* Issues that lack a required field are never candidates and do not appear.
* The configuration is constant here; `ControlPlane` and `Reloading` have the reload.
* `completed`, recent events and rate limits take no part in scheduling and are left out.
* The order in which the ids of a source are reconciled, and due retries of a source taken,
  is arbitrary.
* A panic of a worker is not a step here; in `Pacing` a worker may report nothing.
* A direct commit on an SSH target always fails, because git runs on the local machine.
* Everything that goes wrong or is done by people counts against `MaxDisturbances`.

### 2.2 TokenAccounting

One issue, dispatched several times; a thread reports its usage as an absolute total; the
three counters follow one rule and are one.

### 2.3 Delivery

A branch is the set of changes on it: a rebase joins, a push is fast-forward if the pushed
set contains the branch.  The variables `local`, `tracking`, `dirty` and `stash` are HEAD,
the remote-tracking branch, the work tree and the stash.  Every git command is a step of
the run (`stage`), or, after an abort, of an orphaned process (`orphan`): `git_output` does
not kill its child when its future is dropped.  One orphan lives at a time (a second abort
replaces the first, which is as if it had failed).  A rebase with a dirty work tree may be
refused or not: git tolerates untracked files.  `Promise` maps `local` and `remote` to what a
workspace holds and the base branch of `Handoff`, which knows neither git nor runs: its steps
are working, delivering, handing off and giving up.  A rebase conflict and every failed check
is `FailRun`.  Not modelled here: the fast-forward of reused workspaces (in `Workspaces`), the dry run, severities
(one hand-off state), issues that people reopen after the hand-off.

### 2.4 AgentSession

The app-server is the environment.  Its pieces of lines travel through a bounded pipe; a
line may be torn in two and a read timeout drops what has been read of it.  It may answer
with an error, late, twice or never, end a turn before it has answered the request that
began it, ask for approvals, tool calls, input or nonsense, chatter, fork, hang and exit.
The client handles one message at a time and looks at its deadline before every read.
A line of the client is written in a step of its own (`WriteLine`): the pipe to the server is
bounded too (`InputSize`), the server need not read it, may close it, and may leave its reading
end to a descendant when it exits.  A write to a full pipe ends when somebody reads, when the
pipe is closed (`WriteFails`) or when the task is aborted, and by no timer, which is what
`write_json` has.  Killing is immediate; a descendant may keep stdout open, so the end of file
is never guaranteed.

### 2.5 ControlPlane

Each request is a thread with the code of its handler cut at every atomic operation
(`LoadLast`, `CompareExchange`, `Swap`, `SendRefresh`, `SubmitControl`).  The time stamp is
taken when the claim begins.  `owed` is a history variable: refreshes that were
acknowledged since a poll began.  The effects of commands are in `Service`, the published
status in `Reloading`.  The version of the workflow file is its modification time.

### 2.6 Workspaces

`dir` says how far the directory at each target is prepared: `none`, `empty`, `populated`,
`ready`.  A run goes through `create`, `populate`, `after_create`, `before_run`, `agent`,
`after_run`, `before_remove`, `remove`; over ssh each of these is a script whose effect
and whose answer are separate (`AnswerLost`), and which, like a local clone, may go on after
an abort (`leftover`).  `keeper` is a removal of the service itself: after an outcome with a
terminal state, in reconciliation, or at a start.  `hung` are the hooks that hang: a local
one ends with its timeout, one on another host has none.  `cut` records where a preparation
or removal was cut short and `setups` the runs of `after_create`; both are history
variables.  Contents of directories, links and containment checks are failures of a step.

### 2.7 HookRun

Processes of one group: `alive`, sent SIGTERM (`asked`), sent SIGKILL (`dying`), and
`writers`, those that hold the output pipes.  The stages are those of `run_hook`: waiting
for the leader, the grace period, the kill, draining the readers.  `Drop` is
`ManagedChild::drop` at any await.

### 2.8 TrackerClient

A connection's nodes have ranks, a page ends at a rank and its cursor is that rank.  A
step is one request with what the client makes of its answer; between two requests the
board may change, a request may fail, and a bad server may repeat cursors.  Walks over
labels, project items and field values of an issue are bounded by `MaxPages` as in the code.
`moved`, `left` and `held` are history variables: what happened on the board since the call
began, which is what the answer is compared with.

### 2.9 Pacing

A clock with urgent timers: time passes only in `fetch`, up to `Latency`, and in `select`,
up to the nearest timer.  `EarliestDue`, `NextDue` and `SetTimers` are the code's timers, set
anew in every round; `FailureDelay` has the shift with its limit and the saturating product.
`events` is the channel, of which one message is received in a round; `heard` is what the
stall check looks at.

### 2.10 Reloading

Every source has a file (contents and modification time), the contents in force and a cached
client.  Contents are an index into what depends on them: accepted or refused, tracker
settings and the transport part of them, hosts, root.  A running entry remembers the target,
root and client it was dispatched with; cleanup, reconciliation and dispatch look at the
contents in force, as the code does.  The reload goes through the files one by one (`Load`,
`Install`, `EndReload`): `Load` compares the modification time and reads the contents,
`Install` takes the modification time again and puts the contents in force, and an edit may
fall between the two, as in `reload_now`.  `clock` is the time of the last edit, and
`overtaken`, a history variable, holds the sources whose last edit fell between the two reads
of their file.  The same window at the start, between the load and the time stamp of
`ConfigReloader::new`, is not modelled: the service starts with files it has seen.

## 3. Runs

All constants are small sets of model values; each bound is named in its module.

`PROJECT.json` lists the runs that cover the system once over, each property in the run
where it is hardest to keep:

| Run | Question | Bounds and why they suffice |
|---|---|---|
| `Service_issues` | Do claims and directories have one owner in every interleaving, and do limits hold? | two issues of one source, possibly with one workspace name, one of which may be renamed, two hosts of capacity one, a limit of one in `todo`, direct commits, started states, a leftover directory, one disturbance: two owners are what exclusiveness needs, full hosts make continuations stay and retries move |
| `Service_liveness` | Is every worker accounted for, does its directory stay, does back-off grow, does every run settle, every retry resolve, every active issue get served? Is the life cycle implemented? | one agent slot for two issues, direct commits that remove the workspace, a rename to the name of the other issue, a leftover directory, one disturbance: fresh candidates and retries compete for the slot |
| `TokenAccounting_one_turn` | Is a token ever counted twice or lost? | three workers of one turn, three tokens: stale events of two predecessors |
| `TokenAccounting_turns` | The same with a second turn (violated) | |
| `Delivery_runs` | Is work lost, overwritten, or handed off undelivered? Is the hand-off implemented? | two changes of the agent, one of others, five disturbances: an abort that leaves a command, a failure, a late write, a push of others and a move in one history |
| `AgentSession_turns` | Do turns, requests and sessions end as they should? | two turns, one request, one odd line, two pieces in the pipe from the server and one line in the pipe to it: enough for a line of one turn to be read in the next, and for a reply to block behind a call that the server does not read |
| `ControlPlane_requests` | Do cooldown, refreshes and commands hold under concurrency? | two requests on threads, a queue of one, cooldown 2 within time 3, three versions, one of them invalid |
| `TrackerClient_calls` | Is a listing complete and true, what does a refresh leave out, does a move change its own item? | two issues, one on another board too and one of a foreign repository, three pages, a change or failure between any two requests, a server with circular cursors |
| `HookRun_tree` | Does a hook end, and leave nothing when it is aborted? | two descendants, the shell and one of them ignore SIGTERM |
| `Workspaces_targets` | Does an agent only work in a prepared directory, is what is reused kept, do runs get to the agent again? | the local machine and one host, both brought up to date, five disturbances: an abort, the hang of a hook, a crash and a removal in one history, a script of an aborted run beside the next |
| `Pacing_timers` | Do silent workers end, are due retries looked at, do delays grow? | two issues for one slot, clock up to seven units: longer than stall, back-off and interval together; attempts, shift and word so small that the limits of the shift, of the product and of the maximum are all met |
| `Reloading_edits` | Does each source follow its own file, is the status fresh? | two sources and two edits, of one file or of both, refused or with another tracker key, of which one may fall between the two reads of a reload; both trackers may fail, two disturbances |

Further configurations, for the properties and instances that the runs above leave out:

| Configuration | What it shows |
|---|---|
| `Service_rest` | two sources with one issue, two disturbances (an abort and another of the successor, with both outcomes in the channel): `TypeOK`, `WorkersAccountedFor`, `WorkersIsolated`, `StoppedClean`, `DrainHolds`, `BackoffKept`, `ImplementsLifecycle` |
| `Service_collision` | two agents at work and an issue that takes the name of the other: `ExclusiveOwnership`, `WorkersIsolated`, `BackoffKept` and `LiveWorkspacesKept` hold; `AgentsLeftAlone`, the latter without its exception, is violated there |
| `AgentSession_rest`, `ControlPlane_rest`, `TrackerClient_rest`, `Workspaces_rest`, `Pacing_rest`, `Reloading_rest` | other properties of these modules, all of which hold |
| `Service_global_limit` | the limit over all sources (violated): limits 2 and 1, one failed poll |
| `Service_renamed` | the workspace of a terminal issue is cleaned after a rename (violated): one issue, one rename |
| `Service_stale_candidate` | candidates are newer than reconciliation (violated): one issue, no disturbance |
| `Service_blocked` | a todo issue with terminal blockers is worked off (violated): two issues, one names the other |
| `Delivery_handoff` | pushed work gets its issue moved (violated): one disturbance |
| `ControlPlane_reload` | every edit is picked up (violated): two edits |
| `Workspaces_after_run`, `_start`, `_hang` | promises on hooks and clean-up (violated): one target, three disturbances |
| `HookRun_timeout` | a timeout ends the tree (violated): one descendant that ignores SIGTERM |
| `Pacing_paced`, `_lively` | promises on pace and stalls (violated): two issues |
| `Reloading_hosts`, `_root` | a run stays on configured hosts, the right directory is cleaned (violated): one source, one edit |

### 3.1 Properties

`Service`: `TypeOK`; `ClaimsExact`; `ExclusiveOwnership`; `WorkersAccountedFor` (a
registered worker is alive or has its outcome in the channel, never both or neither);
`WorkersIsolated`; `LimitsRespected`; `StoppedClean`; the action properties
`LiveWorkspacesKept`, `BackoffKept` and `DrainHolds`; the liveness properties `RunningSettles`,
`RetriesResolve` and `ActiveIssuesServed`; and `ImplementsLifecycle`, the refinement.
`BackoffKept` asks for growth at every `Setback`: a run that is over without a normal exit,
and each failed poll that a due retry meets.  `LiveWorkspacesKept` excepts one step, which the
code has (finding 5): the clean-up of an issue that took the agent's name while it ran itself.

`TokenAccounting`: `NoDoubleCount`, `CurrentUsageCounted`.

`Delivery`: `ImplementsHandoff`, the refinement; `HandedOffWhenDelivered`, `WorkKept`,
`WorkDelivered`; and `NothingOverwritten`, which is proved and follows from the refinement.
`WorkDelivered` excepts what an abort left in the stash: later runs do not look there.

`AgentSession`: `OnlyServedTurnsCount`, `StreamsOwnTurn`, `NoRequestLeftOpen`,
`ServerGone`, `SessionEnds`.  A session ends or is for ever `Blocked` in a write; without the
second half TLC finds a server that asks and does not read.

`ControlPlane`: `CooldownHolds`, `RefreshNotLost`, `AnsweredTruthfully`, `RefreshServed`,
`CommandsAnswered`, `ReloadKeepsGood`.

`Workspaces`: `AgentInPrepared`, `AgentUndisturbed` (local only: over ssh the removal of an
aborted run may go on beside its successor), `SetUpOnce`, `ReusedKept`, `RemovalEnds`
(local only, see 3.3), `RunsReachAgent`.  `AgentInPrepared` and `RunsReachAgent` except a
directory whose preparation was cut short: the code takes it for finished.  `RunsReachAgent`
also excepts a removal hook on another host that hangs, for which the loop waits.

`HookRun`: `HookEnds`, `AbortEndsTree`; and `LeaderGone` and `SuccessInTime`, which are proved.

`TrackerClient`: `ListComplete`, `AnswerWasTrue`, `OrderKept`, `AbsentOnlyIfGone`,
`MovesOwnItem`, `CallsEnd`.

`Pacing`: `PollsGoOn`, `StallsEnd` and `DueInTime`, which bound waiting by the clock and so
are safety properties; `DelaysGrow`.

`Reloading`: `PolledInForce`, `StatusFresh`, `EditsTakeEffect`, `ReadinessFollows`.
`EditsTakeEffect` excepts an edit between the two reads of its file (`overtaken`), which is
lost (finding 4); without the exception TLC finds that loss.

For every property of a listed passing run `PROJECT.json` names a mutant of the code under
which TLC finds the property violated.

Several sources meet in `Service_rest` (two sources, one issue) and in the theorems, which
hold for every set of sources; the listed runs of `Service` have one source, so that two
issues, hosts and renames fit in.

### 3.2 Fairness

* `Service!Fairness`: the loop's task is scheduled and its poll timer fires (WF of the tick
  steps and wake-ups); `select!` draws among its ready branches at random, so a branch that is
  ready again and again is drawn (SF of `ReceiveOutcome`); an agent's session ends, by itself as in
  `AgentSession!SessionEnds`, or, when it is blocked in a write, by the stall check, which is on
  by default; a due time comes.  Runs that use up their turns with the issue
  still active count as disturbances, so liveness is claimed for agents that in the end
  resolve their issue.  Nothing is assumed of people.
* `Delivery!FairSpec`: an active issue is dispatched again and its run goes on; an orphaned
  command ends.
* `AgentSession!FairSpec`: the client's task and its timers run.  Nothing is assumed of the
  server, not even that it reads.
* `ControlPlane!FairSpec`: handler threads run, ticks end, the select draws its ready
  branches.  Its timers are not fair, so a refresh must cause its poll by itself;
  `TimedSpec` adds the poll timer.
* `Workspaces!FairSpec`: a run goes on, the service waits no longer than a local hook's
  timeout, and commands that were left behind end.  Nothing is assumed of a hook on another
  host: there a hang has no timer.
* `HookRun!FairSpec`: timers fire, the task goes on, and signals arrive.  Nothing is assumed
  of processes that ignore SIGTERM or hold the output.
* `TrackerClient!FairSpec`: a request is answered or fails, for which the client has timeouts.
* `Reloading!FairSpec`: the loop goes on and its poll timer fires.  Nothing is assumed of
  workers, people or trackers.
* `Pacing` needs none: its timers are urgent.

Deadlock is checked everywhere but where a model comes to rest: `TokenAccounting`, `Pacing`
(the end of the clock), `HookRun` and `TrackerClient` (one hook, one call); finished states
of the other modules have an explicit stuttering action (`Stopped`, `Rest`, `Ended`).

### 3.3 Findings

Each of these is a sentence of the repository's documents that the code does not keep, as
a configuration shows: `TokenAccounting_turns`, which is listed with its quotation as the
finding of `PROJECT.json` (2), and the further configurations named in brackets.  The
sentence is cited at the property.

1. *Global limit* (`service.rs:724`) [`Service_global_limit`]: the limit is the minimum over
   the sources polled in this tick, so a source that cannot be polled stops limiting the
   others.
2. *Token totals* (`orchestrator/state.rs:209`) [`TokenAccounting_turns`]: a new turn
   replaces the session and forgets what was reported, and the thread's whole usage is added
   again.
3. *Pushed but not moved* (`completion.rs:338`) [`Delivery_handoff`]: after a push whose
   move failed, the retry finds nothing to push and ends normally; the issue is never moved.
4. *Edit during a reload* (`config.rs:963`) [`ControlPlane_reload`]: contents are read
   before the modification time, so an edit in between is remembered as seen.  `Reloading` has
   the same window, for several sources.
5. *Renamed and terminal* (`service.rs:865`) [`Service_renamed`]: the cleanup removes the
   directory of the latest identifier, not the one the worker used.  If another issue has that
   name, it is the directory of a live agent that goes (`AgentsLeftAlone` in `Service_collision`).
6. *Stale candidate* (`service.rs:697`) [`Service_stale_candidate`]: candidates are fetched
   beside the reconciliation, so an issue that was just released as terminal may be
   dispatched again in the same tick.
7. *Terminal blockers* (`tracker/github.rs:1304`) [`Service_blocked`]: a blocker never has a
   state, so it blocks for ever.
8. *After an abort* (`service.rs:1171`) [`Workspaces_after_run`]: `after_run` does not
   follow a cancelled attempt.
9. *Start-up over ssh* (`service.rs:501`) [`Workspaces_start`]: the clean-up at a start only
   looks at local directories.
10. *Remote hooks* (`workspace.rs:572`) [`Workspaces_hang`]: a hook over ssh has no timeout,
    and the loop awaits `before_remove` itself, so one that hangs stops the service.
11. *Process trees* (`process.rs:74`) [`HookRun_timeout`]: the grace period waits for the
    leader only; a descendant that ignores SIGTERM survives the timeout of the hook.
12. *Pace* (`service.rs:404`, `460`) [`Pacing_paced`]: every message starts a round with a
    poll of every tracker, and a due retry without a slot makes rounds follow each other
    without a pause.
13. *Lively workers* (`service.rs:404`) [`Pacing_lively`]: one event is received in a round,
    after the stall check; a worker whose events wait in the channel is ended as stalled.
14. *Removed host* (`service.rs:938`) [`Reloading_hosts`]: a continuation goes back to a
    host, or to the local machine, that the configuration in force no longer has.
15. *Moved root* (`service.rs:845`) [`Reloading_root`]: the cleanup of a terminal issue
    looks under the root in force, the worker used the one it was dispatched with.

Seen while modelling, in the models as steps, without a configuration of their own:

* a local directory that could not be prepared is deleted without `before_remove`, while
  over ssh the hook runs (`workspace.rs:1041`);
* a due retry without a slot is put back unchanged (`service.rs:925`), without the next
  attempt and the reason that `SPEC.md:1980-1983` gives it;
* `turn_count` restarts with every turn (`orchestrator/state.rs:209`; `SPEC.md:270-271`);
* `after_run` is not run when marking the issue started fails (`agent/runner.rs:103-106`;
  `SPEC.md:446-448`);
* a JSON line that takes longer than the read timeout is dropped in part
  (`agent/codex.rs:792`; `SPEC.md:1005`, `1167`);
* descendants of an app-server that exits by itself when its stdin is closed are not
  terminated (`agent/codex.rs:903-911` with `process.rs:54-60`);
* the repository's `README.md:18` calls refresh the only mutation over HTTP, while drain, resume,
  abort and promote exist (`observability/http.rs:554-609`).

## 4. Proofs

The theorems hold for every value of the constants that satisfies the named assumptions
(`SourcesAssumption`, `ConfigAssumption`, `NoneAssumption`, `RunnerAssumption`;
`DeliveryAssumption`, `WorkspacesAssumption`, `ControlAssumption`, `PacingAssumption`,
`SessionAssumption`, `TrackerAssumption`, `TokenAssumption`, `HookAssumption`,
`ReloadingAssumption`), of which the runs check that they can be met. Three theorems have a
hypothesis besides, which is discussed with them. The theorems about `HookRun` have the
parameters of that module as their hypothesis, because an instance does not bring its
assumptions.

* `ServiceProofs`: `TypeCorrect`, `ClaimsExactAlways`, `ExclusiveOwnershipAlways`. The
  inductive invariant is `IInv == TypeOK /\ Consistent(st) /\ CandidatesFetched`.
  `Consistent` is `ClaimsMatchOwners` and `OwnersDisjoint` together: neither is inductive by
  itself, since eligibility looks at the claims and concludes something about the owners.
  `CandidatesFetched` says that the keys left to dispatch in a tick are candidates of a
  source that answered; without it a key might have no issue to dispatch. There is one lemma
  for each operation of the state (it keeps the type, and consistency under its
  precondition), so the step of an action is a chain of these lemmas.
* `ServiceProofs`, the workers: `WorkersAccountedForAlways`, `WorkersIsolatedAlways`,
  `LimitsRespectedAlways`, `BackoffKeptAlways`, `StoppedCleanAlways`, `DrainHoldsAlways` and
  the refinement `ImplementsLifecycleAlways`. The invariant `WInv` adds to `IInv` the
  `Books` of the loop: `AliveRegistered` (a live agent is the registered task of its key, by
  generation), `Numbered` (no task and no outcome has a generation still to be given, so a
  new one matches nothing in the channel), `TasksRunning` (a registered task has a running
  entry of its generation and target), `AnswersOnce` (a registered task is alive or has
  exactly one outcome in the channel); and three facts about phases. None of the parts is
  inductive without the others. Every action is shown to be of a kind (`Idle`, `Launched`,
  `Aborted`, `OutcomeTaken`, ...) in what it does to the registry, the agents and the
  channel, and each part is proved once per kind instead of once per action. Two agents in
  one directory would be two owners of one workspace, which `ExclusiveOwnership` excludes.
  `LimitsRespected` is counted over issues (`WithinLimits`): agents have different keys,
  which are among the running and the registered ones, whose number had `Room` for one more
  when a task started. `BackoffKept` has one lemma for each operation on an entry;
  that a failed poll counts (`FailedPollCounts`) follows from what is applied to every due
  retry of its source. The refinement maps an issue's entry to a state of `IssueLifecycle` and follows from the same
  kinds.
* `ServiceProofs`, the directories of live agents: `LiveWorkspacesKeptAlways`, without a
  hypothesis on names or renames. Names are identifiers after sanitisation
  (`workspace.rs:940`), two of which may collide, and the clean-up of a terminal issue goes by
  the latest one (finding 5), so the directory of a live agent can go; the theorem says that
  it goes by that step only. By `AgentAtWork` an agent's directory is the workspace of its
  running entry, which `ClaimsExact` protects from retention and `ExclusiveOwnership` from the
  commit of another agent; a late outcome removes something only if it is that of the
  registered task, which then is not alive (`AnswersOnce`); and a clean-up that meets the
  directory of another agent (`CleanupMeetsRenamed`) goes by a name that is not the one its
  own issue was dispatched with. `BootIdle` says that no agent runs before the first tick.
* `DeliveryProofs`: `TypeCorrect` and the action property `NothingOverwrittenAlways`. The
  latter follows from each step by itself. `TypeCorrect`, which includes what `populate` and
  `set_up` find, needs `FreshDirectory`: a directory that is missing or being populated has
  no command left in it, so the clone of an aborted run cannot meet that of its successor.
* `DeliveryProofs`, the work: `HandedOffAlways` and `WorkKeptAlways`. The danger is a git
  command that an aborted run left behind and that adds to HEAD after the push of a later
  run. Its invariant `WInv` adds three parts to that of `TypeCorrect`. `Placed`: no change
  is twice among the work tree and the entries of the stash, and the remote-tracking branch
  has nothing the remote lacks. `OrphanSpent`: once a run is past its commit, nothing in the
  work tree or the stash is what an orphaned commit was to take, so that it fails; this
  needs `Placed`, since a stash popped in between could bring it back. `Delivered`: HEAD is
  on the remote while the issue is moved and the workspace removed; it is kept because an
  orphaned rebase joins only what the remote has, and an orphaned commit is spent.
* `DeliveryProofs`, the refinement: `ImplementsHandoffAlways`. Every git command, of a run or
  orphaned, is `Work` or `Deliver` of `Handoff`. To the invariant above it adds
  `PushedBehind`: what an orphaned push sends is still in the workspace when it arrives,
  since HEAD loses changes only with its directory, whose removal ends the command. `Placed`
  makes a clone and a rebase bring in nothing but what the base branch has; `Delivered` makes
  a move a `HandOff` and each removal of a run a `GiveUp`.
* `WorkspacesProofs`: `TypeCorrect`, `AgentInPreparedAlways`, `SetUpOnceAlways`,
  `ReusedKeptAlways`, `AgentUndisturbedLocally`. The invariant needs `HalfPreparedInHand` (a
  half prepared directory is in the hands of the run that made it, or was cut short) and
  `PreparedInOrder` (what a run knows of its directory at each step). The last theorem is
  about runs on the local machine (`Targets \subseteq {Local}`), for the reason given in
  3.1; what it needs is that a local run leaves no command behind but a clone (`LocalKept`).
* `WorkspacesProofs`, the processes of a hook: `LeaderGoneAlways`, `SuccessOnlyInTime` and
  `AbortKillsGroup`, for every tree of processes and whatever of it ignores SIGTERM. The
  invariant `HInv` adds to the types that the steps after the wait follow a wait that ended
  or was given up (`WaitedFor`). `AbortKillsGroup` is the safety half of `AbortEndsTree`:
  once a hook is aborted before its shell has ended, every process of its group has been
  sent SIGKILL and none is left to start another; the other half, that signals arrive, is
  fairness.
* `ControlPlaneProofs`: `TypeCorrect`, `RefreshNotLostAlways`, `AnsweredTruthfullyAlways`,
  `CooldownHoldsAlways`, `ReloadKeepsGoodAlways`. `FlagKept` says that at most one thread is
  about to send and that the flag is set as long as it is; `ClaimsApart` that who may
  exchange has seen the cooldown over; `QueueKept` that a command is in the queue or was
  applied, once.
* `ReloadingProofs`: `TypeCorrect`, `StatusFreshAlways` and `PolledInForceAlways`, for every
  number of sources, contents and edits. The invariant `RInv` adds `CachedWhole` (a cached
  client was made, tracker settings and transport, of the contents of one file, so that the
  comparison of the tracker settings alone, which is the code's, is enough) and
  `PollsInHand` (the loop goes through sources whose answers it has).
* `ControlPlaneProofs`, the tokens: `TokenTypeCorrect`, `CountedOncePerTurn`, `OneTurnCountsOnce`,
  `OneTurnIsRecorded`. A token is counted at most once in each turn of its thread, for every
  number of workers and turns: the exact measure of finding 2. `NoDoubleCount` and
  `CurrentUsageCounted` then hold where a worker has one turn (`MaxTurns = 1`), and
  `TokenAccounting_turns` shows that the first needs this hypothesis; the second fails with
  another turn for the same reason. The invariant `Slack` is a potential: the totals
  together with all that the current session and the turns to come may still count (`Due`)
  are at most the usage of each worker times its turns. It stands on `ChannelInOrder` (turns
  and totals only grow along the channel, and continue the session) and `WorkersInOrder`.
  `FirstTurnCounted` says that the usage of a first turn is recorded or its report is under
  way.
* `AgentSessionProofs`: `TypeCorrect`, `OnlyServedTurnsCounted`, `OwnTurnStreamed`,
  `NoRequestIsLeftOpen`, `NoServerOutlives`. The invariant has `TransitTrue` (a completion
  in the pipe, in the hand of the reader or of the writer says how the turn ended),
  `TurnsCounted` (the client is at most one turn ahead of those it has counted, stage by
  stage), `Framed` (the head of a torn line is followed by its tail, in the pipe or in what
  the server still has to write) and `RequestsKept` (a request is answered, on its way, or in
  the hands of the client: a call it executes or an answer it is writing).
* `TrackerClientProofs`: `TypeCorrect`, `ListingIsComplete`, `RefreshFindsWhatStayed`,
  `ReportsWereTrue`, `MovesTouchOwnItem`, `OrderIsKept`, for every board, page size, change
  between two requests and server that fails or breaks its cursors. `ListedSoFar` says that
  what lies before the cursor of a listing has been read, `NodesTrue` that a node's labels
  and items are complete once their walk has passed them, `RefreshedSoFar` that what was
  asked for and has stayed is in the answer or in the queue. `OrderIsKept` has an invariant
  of its own (`OInv`): what was answered lies before what waits, which lies before the
  cursor.
* `PacingProofs`: `PollsGoOnAlways` and `StallsEndAlways`, from bounds on the clock in each
  phase (`ClockBounded`), on what was heard before the last round (`HeardInTime`) and the
  order of events in the channel (`EventsInOrder`); `TypeCorrect`, `RetriesAreInTime` and
  `BackoffGrows`, from a second invariant `RInv`: the timer of the select is that of the
  earliest retry (`RetryTimerSet`), every retry has a time (`RetriesDue`), and the last wait
  of an issue is at most the delay of the attempt it is at (`WaitsGrown`). The power of two
  behind the shift is a recursive function; that it grows is shown by least counterexamples,
  as are the existence of the earliest retry and, in the accounting of tokens, the sums over
  the workers.

`StoppedClean`, `SetUpOnce`, `ReloadKeepsGood`, `PollsGoOn`, `StreamsOwnTurn`, `ServerGone`,
`PolledInForce`, `AgentUndisturbed`, `OrderKept` and the `TypeOK` of the modules that have a `_rest` configuration are proved and
checked there (that of `Service` in `Service_liveness`); `LeaderGone` and `SuccessInTime` of
`HookRun`, the `TypeOK` of `Delivery`, the `TokenTypeOK` of `TokenAccounting` and
`NothingOverwritten` are proved only, and so is the `TypeOK` of `HookRun`, as a part of
`HInv`. `CountedOncePerTurn` and `AbortKillsGroup` are proved of properties that no run
names.

Model-checked only: every liveness property and the fairness behind it, which the prover
does not handle (`RunningSettles`, `RetriesResolve`, `ActiveIssuesServed`, `WorkDelivered`,
`SessionEnds`, `RefreshServed`, `CommandsAnswered`, `HookEnds`, `AbortEndsTree`,
`RemovalEnds`, `RunsReachAgent`, `CallsEnd`, `EditsTakeEffect`, `ReadinessFollows`); and the
violations of 3.3.

## 5. Not modelled

Parsing and defaults of the configuration, prompt rendering, logging, the GraphQL documents,
credentials and redaction, path containment and symlink checks, the layout of the read-only
HTTP views and authentication, the contents of Codex messages, token usage in snapshots and
rate limits.  These are data, input and output without state of their own; where they can
fail, the failure is a step of a model.  That the started state
is set from the dispatch snapshot (`completion.rs:476`) is a step of `Service`; no document
promises anything about it, so no property does.  That a direct commit of a remote workspace
runs git on the local machine (`agent/runner.rs:125`), which fails every time, is a step too.

## 6. Plan

Done: all modules of section 2 with their runs, and theorems for every safety property that
holds, of the listed runs and of the further configurations.  What would come next:

1. The composition of `Delivery` and `Workspaces`: a git repository per target.
2. An abort between a rebase conflict and its `git rebase --abort`
   (`completion.rs:650-652`), which `FailRun` of `Delivery` takes for one step.
3. An edit between the load and the time stamp of `ConfigReloader::new` at the start.

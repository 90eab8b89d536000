------------------------ MODULE ServiceProperties ------------------------
(***************************************************************************)
(* What the service loop must keep true, whatever the order in which       *)
(* workers end, answers arrive, operators intervene and retries fall due.  *)
(***************************************************************************)
EXTENDS Service

\* Claims are exactly what running entries and queued retries own: a claim that
\* outlives its owner would block an issue for ever, an owner without its claims
\* would let a second worker in (claim_running ... release_workspace_key_if_unowned).
ClaimsExact == ClaimsMatchOwners(st)

\* No two owners share an issue id or a workspace, over all sources, and no issue
\* is both running and queued for retry (is_issue_or_workspace_claimed_for_source).
ExclusiveOwnership == OwnersDisjoint(st)

\* The outcomes in the channel that the registered task of k has sent.
Answers(k) == {n \in DOMAIN outcomes : /\ outcomes[n].key = k
                                       /\ outcomes[n].generation = workers[k].generation}

\* Every live agent is a registered task; until shutdown every running entry has one
\* registered task of its generation, and that task is either still alive or has its
\* outcome in the channel, never both and never neither: no worker is lost and none is
\* counted twice (dispatch_issue, abort_worker, await_worker, apply_worker_outcome).
WorkersAccountedFor ==
    /\ alive = UNION {TaskOf(k) : k \in Key}
    /\ \A k \in Key : workers[k] # None => Cardinality(TaskOf(k)) + Cardinality(Answers(k)) = 1
    /\ phase \notin {"stopping", "stopped"} =>
         \A k \in Key : IF workers[k] = None THEN st.running[k] = None
                        ELSE /\ st.running[k] # None
                             /\ st.running[k].generation = workers[k].generation
                             /\ st.running[k].target = workers[k].target

\* Two live agents never work on the same issue or in the same directory, even
\* when an abort, a late outcome and a new dispatch meet (abort_worker waits).
WorkersIsolated ==
    \A v, w \in alive : v # w =>
        /\ v.key[2] # w.key[2]
        /\ <<v.key[1], v.name>> # <<w.key[1], w.name>>

\* Never more live agents than the largest configured limit, nor on a host than
\* its capacity: retries, continuations and preparation failures included.
LimitsRespected ==
    /\ alive # {} => \E s \in Sources : Cardinality(alive) <= MaxAgents[s]
    /\ \A h \in HostPool :
         LET there == {w \in alive : w.target = h}
         IN  there # {} => \E s \in Sources : Cardinality(there) <= HostCapacity[s]

\* The clean-up of the issue k, which goes by the latest name seen of k, meets the directory
\* of the agent w: k was renamed while it ran, to the name of w's issue (service.rs:865).
CleansUnderNewName(k, w) ==
    LET latest == poll[k[1]].recon.seen[k[2]]
    IN  /\ k # w.key /\ k[1] = w.key[1]
        /\ st.running[k] # None /\ st'.running[k] = None
        /\ st.running[k].target = w.target
        /\ st.running[k].workspace_key # <<w.key[1], w.name>>
        /\ \/ st.running[k].issue.name = w.name
           \/ latest # None /\ latest.name = w.name

\* The directory of a live agent goes neither at start-up, nor by retention, nor with an
\* abort, a late outcome or the commit of another agent.  One step takes it: the clean-up
\* of an issue that got the agent's name while it ran itself, on the same machine
\* (remove_for_target, prune_orphans, abort_worker).
LiveWorkspacesKept ==
    [][\A w \in alive \cap alive' :
          LET own == WorkspaceDir(w.target, w.key, w.name)
          IN  own \in dirs /\ own \notin dirs' => \E k \in Key : CleansUnderNewName(k, w)]_vars

\* LiveWorkspacesKept without its exception, which an issue that is renamed to the name of
\* another one breaks (service.rs:865).
AgentsLeftAlone ==
    [][\A w \in alive \cap alive' :
          LET own == WorkspaceDir(w.target, w.key, w.name)
          IN  own \in dirs => own \in dirs']_vars

\* When the process has ended no agent task is left running.
StoppedClean == phase = "stopped" => alive = {}

Attempt(s, k) == IF s.running[k] # None THEN s.running[k].retry_attempt
                 ELSE s.retry_attempts[k].attempt

NormalExit(k) == /\ outcomes # <<>> /\ Head(outcomes).key = k
                 /\ Head(outcomes).reason = "normal" /\ outcomes' = Tail(outcomes)

\* The poll of s has failed, and this step makes of it what it means for the retries of s.
FailedPoll(s) ==
    phase = "apply" /\ s \in todo.sources \ todo'.sources /\ poll[s].cand.status = "failed"

\* The run of k is over, or its due retry meets a failed poll.
Setback(k) ==
    \/ st.running[k] # None /\ st'.running[k] = None
    \/ st.retry_attempts[k] # None /\ st.retry_attempts[k].due /\ FailedPoll(k[1])

\* While an issue stays claimed its attempt never falls, and it grows with every failed,
\* stalled, aborted or canceled run and with every failed poll its due retry meets; only a
\* normal exit starts it afresh: requeues never shorten the back-off (worker_exit_by_key,
\* reschedule_due_retries_after_fetch_error, requeue_retry).
BackoffKept ==
    [][\A k \in Owners(st) \cap Owners(st)' :
          \/ NormalExit(k)
          \/ /\ Attempt(st, k)' >= Attempt(st, k)
             /\ Setback(k) => Attempt(st, k)' > Attempt(st, k)]_vars

\* While draining, from the command to resume or shutdown, no worker starts.
DrainHolds == [][st.draining => next_generation' = next_generation]_vars

-----------------------------------------------------------------------------
(* Liveness, for finitely many disturbances. *)

\* A running issue is settled: its worker ends and the outcome is applied.
RunningSettles ==
    \A k \in Key : st.running[k] # None ~> (st.running[k] = None \/ phase = "stopped")

\* A queued retry is dispatched or given up, unless the service drains or stops.
RetriesResolve ==
    \A k \in Key : st.retry_attempts[k] # None ~>
        (st.retry_attempts[k] = None \/ st.draining)

\* An active issue that nothing blocks is worked off, in whatever order the
\* candidates, the retries and the slots come.
ActiveIssuesServed ==
    \A k \in Key :
        (tracker[k] \in ActiveStates[k[1]] /\ Blockers[k] = {}) ~>
            (tracker[k] \notin ActiveStates[k[1]] \/ st.draining)

-----------------------------------------------------------------------------
(* Refinement. *)

Life == [k \in Key |-> IF st.running[k] # None THEN "running"
                       ELSE IF st.retry_attempts[k] # None THEN "retry" ELSE "unclaimed"]

HeldWorkspace == [k \in Key |-> IF st.running[k] # None THEN st.running[k].workspace_key
                                ELSE IF st.retry_attempts[k] # None
                                THEN st.retry_attempts[k].workspace_key ELSE None]

Lifecycle == INSTANCE IssueLifecycle
    WITH life <- Life, workspace <- HeldWorkspace, agents <- {w.key : w \in alive}

\* Every step of the service is a life-cycle step of one issue, or none: claims are
\* exclusive and end only when the agent has (dispatch_issue, abort_worker).
ImplementsLifecycle == Lifecycle!Spec

-----------------------------------------------------------------------------
(* What the specification document says and the code does not do. *)

StartsRunning(k) == st.running[k] = None /\ st'.running[k] # None

\* SPEC.md:2322-2325: the global limit holds across all sources, also while one of
\* them cannot be polled.
GlobalLimitHolds ==
    [][\A k \in Key : StartsRunning(k) =>
          \A s \in Sources : Cardinality(RunningKeys(st)) < MaxAgents[s]]_vars

\* Reconciliation saw the issue in a terminal state, and takes its worker away.
FoundTerminal(k) ==
    /\ poll[k[1]].recon.seen[k[2]] # None
    /\ poll[k[1]].recon.seen[k[2]].state \in TerminalStates[k[1]]

ReconciledAway(k) ==
    /\ phase = "apply" /\ st.running[k] # None /\ st'.running[k] = None
    /\ FoundTerminal(k) /\ UNCHANGED disturbances

\* SPEC.md:855: an issue found terminal loses its worker and its workspace, also when
\* it was renamed since its dispatch.
TerminalCleaned ==
    [][\A k \in Key : ReconciledAway(k) =>
          <<st.running[k].target, st.running[k].workspace_key>> \notin dirs']_vars

\* SPEC.md:767-771: candidates are fetched after reconciliation, so an issue that
\* reconciliation found terminal, and that still is, is not dispatched in that tick.
NoStaleDispatch ==
    [][\A k \in Key : (StartsRunning(k) /\ FoundTerminal(k)) =>
          tracker[k] \notin TerminalStates[k[1]]]_vars

\* SPEC.md:2056: a todo issue whose blockers are terminal is eligible, so it is
\* worked off in the end.
UnblockedServed ==
    \A k \in Key :
        (/\ tracker[k] \in ActiveStates[k[1]]
         /\ \A i \in Blockers[k] : tracker[<<k[1], i>>] \in TerminalStates[k[1]]) ~>
            (tracker[k] \notin ActiveStates[k[1]] \/ st.draining)

=============================================================================

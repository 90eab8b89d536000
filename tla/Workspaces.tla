----------------------------- MODULE Workspaces ------------------------------
(***************************************************************************)
(* The directories of one issue on the places it may run at, and who       *)
(* prepares, uses and removes them (src/workspace.rs, src/agent/runner.rs, *)
(* src/service.rs): a run creates its directory, populates it, runs the    *)
(* hooks around the agent and removes it after a commit; the service       *)
(* removes it when the issue is found terminal, in its own loop or when it *)
(* starts.                                                                 *)
(*                                                                         *)
(* On another host every step is a script sent over ssh: its answer may be *)
(* lost, and, like a local git clone, it goes on when the task that awaits *)
(* it is aborted.  Population is git; the contents of directories and the  *)
(* scripts' checks for links and containment are failures of a step.       *)
(***************************************************************************)
EXTENDS Integers, FiniteSets

CONSTANTS
    Targets,         \* places a run may be sent to
    Local,           \* the service's own machine
    Syncs,           \* workspace.population.reuse is fetch_ff_only
    MaxDisturbances  \* bound on failures, hangs, aborts, crashes and people's steps

ASSUME WorkspacesAssumption == Syncs \in BOOLEAN /\ MaxDisturbances \in Nat

VARIABLES
    dir,          \* how far the directory at each target is prepared
    stage,        \* the step the run is at
    at,           \* its target
    created,      \* the run created the directory
    outcome,      \* how the run ends
    keeper,       \* the removal the service itself is at
    hung,         \* of "run" and "keeper", those whose hook hangs
    leftover,     \* commands that outlived their run
    issue,        \* the state of the issue
    up,           \* the service runs
    setups,       \* runs of after_create in the life of each directory
    cut,          \* targets where the preparation or removal was cut short
    disturbances  \* disturbances so far

run == <<stage, at, created, outcome>>
histories == <<setups, cut>>
vars == <<dir, run, keeper, hung, leftover, issue, up, histories, disturbances>>

Places == Targets \cup {Local}
Hooks == {"after_create", "before_run", "after_run", "before_remove"}
Steps == Hooks \cup {"create", "populate", "remove"}
Stages == Steps \cup {"idle", "agent"}

NoRemoval == [step |-> "idle", at |-> Local, why |-> "none"]

TypeOK ==
    /\ dir \in [Places -> {"none", "empty", "populated", "ready"}]
    /\ stage \in Stages /\ at \in Places /\ created \in BOOLEAN
    /\ outcome \in {"none", "normal", "terminal", "failed", "aborted"}
    /\ keeper \in [step: {"idle", "before_remove", "remove"}, at: Places,
                   why: {"none", "terminal", "startup"}]
    /\ hung \subseteq {"run", "keeper"}
    /\ "run" \in hung => stage \in Hooks
    /\ "keeper" \in hung => keeper.step = "before_remove"
    /\ leftover \subseteq [step: Steps, at: Places]
    /\ issue \in {"active", "inactive", "terminal"}
    /\ up \in BOOLEAN /\ (~up => stage = "idle" /\ keeper = NoRemoval /\ outcome = "aborted")
    /\ setups \in [Places -> Nat] /\ cut \subseteq Places
    /\ disturbances \in 0..MaxDisturbances
    /\ keeper.step # "idle" => stage = "idle"

Init ==
    /\ dir = [t \in Places |-> "none"]
    /\ stage = "idle" /\ at = Local /\ created = FALSE /\ outcome = "none"
    /\ keeper = NoRemoval /\ hung = {} /\ leftover = {}
    /\ issue = "active" /\ up = TRUE
    /\ setups = [t \in Places |-> 0] /\ cut = {}
    /\ disturbances = 0

Disturb == disturbances < MaxDisturbances /\ disturbances' = disturbances + 1

-----------------------------------------------------------------------------
(* Directories. *)

Put(t, d) == dir' = [dir EXCEPT ![t] = d]

\* What a command does to the directory at t if it succeeds; a command in a directory
\* that is gone fails, a removal does not mind.
Does(step, t) ==
    \/ step = "populate" /\ dir[t] = "empty" /\ Put(t, "populated")
    \/ step = "after_create" /\ dir[t] # "none" /\ Put(t, IF dir[t] = "populated" THEN "ready" ELSE dir[t])
    \/ step = "remove" /\ Put(t, "none")
    \/ step \in {"before_run", "after_run", "before_remove"} /\ UNCHANGED dir

\* Commands that ran in a directory end with it.
LeftAfter(step, t) ==
    IF step = "remove" THEN {c \in leftover : c.at # t \/ c.step \in {"create", "remove"}}
    ELSE leftover

-----------------------------------------------------------------------------
(* The run. *)

GoOn(next) == stage' = next /\ UNCHANGED <<at, created, outcome>>

End(how) == stage' = "idle" /\ outcome' = how /\ UNCHANGED <<at, created>>

BeginRun ==
    /\ up /\ stage = "idle" /\ keeper = NoRemoval /\ issue = "active" /\ outcome # "terminal"
    /\ \E t \in Targets : at' = t
    /\ stage' = "create" /\ created' = FALSE /\ outcome' = "none"
    /\ UNCHANGED <<dir, keeper, hung, leftover, issue, up, histories, disturbances>>

Create ==
    /\ stage = "create"
    /\ created' = (dir[at] = "none")
    /\ IF created'
       THEN /\ Put(at, "empty") /\ setups' = [setups EXCEPT ![at] = 0]
            /\ cut' = cut \ {at}
       ELSE UNCHANGED <<dir, histories>>
    /\ stage' = "populate"
    /\ UNCHANGED <<at, outcome, keeper, hung, leftover, issue, up, disturbances>>

SetsUp == created

\* What follows a step: the hooks frame the agent, and a directory is removed after a
\* commit.  The completion may fail, and over ssh never finds the directory.
Follow ==
    \/ stage = "populate" /\ GoOn(IF SetsUp THEN "after_create" ELSE "before_run")
    \/ stage = "after_create" /\ GoOn("before_run")
    \/ stage = "before_run" /\ GoOn("agent")
    \/ stage = "after_run" /\ (End(outcome) \/ End("failed"))
    \/ stage = "after_run" /\ outcome # "failed" /\ at = Local /\ GoOn("before_remove")
    \/ stage = "before_remove" /\ GoOn("remove")
    \/ stage = "remove" /\ End(outcome)

\* Mutant: leaves a directory that could not be prepared.
LeavesNew == End("failed")

\* Mutant: removes a directory that could not be brought up to date, too.
UndoesAny == outcome' = "failed" /\ stage' = "remove" /\ UNCHANGED <<at, created>>

\* remove_new_workspace only deletes; over ssh it is a removal with its hook.
Undo ==
    /\ outcome' = "failed"
    /\ stage' = IF at = Local THEN "remove" ELSE "before_remove"
    /\ UNCHANGED <<at, created>>

FailReused == End("failed")

\* What follows a step that failed.  after_run follows whatever kept the agent from
\* starting, and no failure keeps a directory from being removed.
FollowFailure ==
    \/ stage = "create" /\ End("failed")
    \/ stage = "populate" /\ ~created /\ FailReused
    \/ stage \in {"populate", "after_create"} /\ created /\ Undo
    \/ stage = "before_run" /\ stage' = "after_run" /\ outcome' = "failed" /\ UNCHANGED <<at, created>>
    \/ stage = "after_run" /\ End(outcome)
    \/ stage = "before_remove" /\ GoOn("remove")
    \/ stage = "remove" /\ End(outcome)

\* Without a directory a step fails, but for the removal and what goes with it; bringing
\* up to date also needs a repository in it.
MayWork ==
    \/ stage = "populate" /\ IF created THEN dir[at] = "empty"
                              ELSE dir[at] # "none" /\ (Syncs => dir[at] # "empty")
    \/ stage \in {"after_create", "before_run"} /\ dir[at] # "none"
    \/ stage \in {"after_run", "before_remove", "remove"}

Step ==
    /\ "run" \notin hung /\ MayWork
    /\ IF stage = "populate" /\ ~created THEN UNCHANGED dir ELSE Does(stage, at)
    /\ leftover' = LeftAfter(stage, at)
    /\ Follow
    /\ setups' = IF stage' = "after_create" THEN [setups EXCEPT ![at] = @ + 1] ELSE setups
    /\ UNCHANGED <<keeper, hung, issue, up, cut, disturbances>>

CannotWork ==
    /\ stage \in Steps \ {"create"} /\ "run" \notin hung /\ ~MayWork
    /\ FollowFailure
    /\ UNCHANGED <<dir, keeper, hung, leftover, issue, up, histories, disturbances>>

\* A removal that fails is logged, and the directory stays.
StepFails ==
    /\ stage \in Steps /\ "run" \notin hung
    /\ Disturb
    /\ cut' = IF stage = "remove" THEN cut \cup {at} ELSE cut
    /\ FollowFailure
    /\ UNCHANGED <<dir, keeper, hung, leftover, issue, up, setups>>

\* The move to the started state fails before the hook: the run is over at once.
MarkStartedFails ==
    /\ stage = "before_run" /\ "run" \notin hung
    /\ Disturb
    /\ End("failed")
    /\ UNCHANGED <<dir, keeper, hung, leftover, issue, up, histories>>

\* The answer of a script is lost, and the script goes on.
AnswerLost ==
    /\ stage \in Steps /\ at # Local
    /\ Disturb
    /\ leftover' = leftover \cup {[step |-> stage, at |-> at]}
    /\ cut' = cut \cup {at}
    /\ FollowFailure
    /\ hung' = hung \ {"run"}
    /\ UNCHANGED <<dir, keeper, issue, up, setups>>

Hang ==
    /\ Disturb
    /\ \/ stage \in Hooks /\ hung' = hung \cup {"run"}
       \/ keeper.step = "before_remove" /\ hung' = hung \cup {"keeper"}
    /\ UNCHANGED <<dir, run, keeper, leftover, issue, up, histories>>

\* Only local hooks have a timeout.
TimeOut ==
    /\ "run" \in hung /\ at = Local
    /\ FollowFailure
    /\ hung' = hung \ {"run"}
    /\ UNCHANGED <<dir, keeper, leftover, issue, up, histories, disturbances>>

\* It may have seen the issue terminal, and the service is told so when the run is over.
AgentEnds ==
    /\ stage = "agent"
    /\ stage' = "after_run"
    /\ \/ outcome' \in {"normal", "failed"}
       \/ issue = "terminal" /\ outcome' = "terminal"
    /\ UNCHANGED <<at, created, dir, keeper, hung, leftover, issue, up, histories, disturbances>>

-----------------------------------------------------------------------------
(* Aborts, crashes, and what outlives them. *)

\* A local git clone and every remote script.
Outlives == stage \in Steps /\ (at # Local \/ stage = "populate")

\* The directory may be left half prepared, or half removed.
CutsShort == stage \in Steps \ {"before_run", "after_run"}

\* The task is dropped, and a local hook or agent with it.
Drop ==
    /\ End("aborted")
    /\ leftover' = IF Outlives THEN leftover \cup {[step |-> stage, at |-> at]} ELSE leftover
    /\ cut' = IF CutsShort THEN cut \cup {at} ELSE cut
    /\ hung' = hung \ {"run"}
    /\ UNCHANGED setups

\* A local removal does not await anything.
Abortable == stage # "idle" /\ ~(stage = "remove" /\ at = Local)

\* The issue is no longer active, or an operator aborts the worker.
Abort ==
    /\ Abortable /\ Disturb
    /\ Drop
    /\ UNCHANGED <<dir, keeper, issue, up>>

\* reconcile_stalled.
AbortStalled ==
    /\ "run" \in hung
    /\ Drop
    /\ UNCHANGED <<dir, keeper, issue, up, disturbances>>

\* The process dies; a local removal stops where it is.
Crash ==
    /\ up /\ Disturb
    /\ up' = FALSE /\ keeper' = NoRemoval /\ hung' = {}
    /\ \E d \in {"none", "empty", "populated"} :
         \/ stage = "remove" /\ at = Local /\ dir[at] # "none" /\ Put(at, d)
         \/ keeper.step = "remove" /\ keeper.at = Local /\ dir[Local] # "none" /\ Put(Local, d)
         \/ UNCHANGED dir
    /\ cut' = cut \cup (IF CutsShort THEN {at} ELSE {})
                  \cup (IF keeper.step = "remove" THEN {keeper.at} ELSE {})
    /\ leftover' = leftover
         \cup (IF Outlives THEN {[step |-> stage, at |-> at]} ELSE {})
         \cup (IF keeper.step # "idle" /\ keeper.at # Local
               THEN {[step |-> keeper.step, at |-> keeper.at]} ELSE {})
    /\ End("aborted")
    /\ UNCHANGED <<issue, setups>>

\* A leftover command ends, with or without success.
LeftoverEnds ==
    \E c \in leftover :
      /\ \/ c.step # "create" /\ Does(c.step, c.at) /\ UNCHANGED histories
         \/ c.step = "create" /\ dir[c.at] = "none" /\ Put(c.at, "empty")
            /\ setups' = [setups EXCEPT ![c.at] = 0] /\ cut' = cut \cup {c.at}
         \/ UNCHANGED <<dir, histories>>
      /\ leftover' = LeftAfter(c.step, c.at) \ {c}
      /\ UNCHANGED <<run, keeper, hung, issue, up, disturbances>>

-----------------------------------------------------------------------------
(* The service removes the workspace of a terminal issue. *)

BeginRemoval(t, why) == keeper' = [step |-> "before_remove", at |-> t, why |-> why]

\* Found terminal by reconciliation: the worker is aborted and the loop waits for the
\* removal.
CancelTerminal ==
    /\ issue = "terminal" /\ Abortable
    /\ Drop
    /\ BeginRemoval(at, "terminal")
    /\ UNCHANGED <<dir, issue, up, disturbances>>

\* The run found the issue terminal, which it may be no longer.
HandleTerminal ==
    /\ stage = "idle" /\ outcome = "terminal"
    /\ BeginRemoval(at, "terminal")
    /\ outcome' = "none"
    /\ UNCHANGED <<dir, stage, at, created, hung, leftover, issue, up, histories, disturbances>>

\* startup_terminal_cleanup: it looks at the local machine only, and goes on when the
\* tracker does not answer.
Restart ==
    /\ ~up /\ up' = TRUE
    /\ \/ issue = "terminal" /\ BeginRemoval(Local, "startup") /\ UNCHANGED disturbances
       \/ issue = "terminal" /\ Disturb /\ UNCHANGED keeper
       \/ issue # "terminal" /\ UNCHANGED <<keeper, disturbances>>
    /\ UNCHANGED <<dir, run, hung, leftover, issue, histories>>

\* The hook ends in any way, or a local one is timed out.
KeeperHookEnds ==
    /\ keeper.step = "before_remove" /\ ("keeper" \notin hung \/ keeper.at = Local)
    /\ keeper' = [keeper EXCEPT !.step = "remove"]
    /\ hung' = hung \ {"keeper"}
    /\ UNCHANGED <<dir, run, leftover, issue, up, histories, disturbances>>

KeeperRemoves ==
    /\ keeper.step = "remove"
    /\ keeper' = NoRemoval
    /\ \/ Does("remove", keeper.at) /\ leftover' = LeftAfter("remove", keeper.at)
          /\ UNCHANGED <<histories, disturbances>>
       \/ Disturb /\ cut' = cut \cup {keeper.at} /\ UNCHANGED <<dir, leftover, setups>>
       \/ Disturb /\ keeper.at # Local /\ cut' = cut \cup {keeper.at}
          /\ leftover' = leftover \cup {[step |-> "remove", at |-> keeper.at]} /\ UNCHANGED <<dir, setups>>
    /\ UNCHANGED <<run, hung, issue, up>>

PeopleMove ==
    /\ Disturb
    /\ issue' \in {"active", "inactive", "terminal"} \ {issue}
    /\ UNCHANGED <<dir, run, keeper, hung, leftover, up, histories>>

\* Nothing to do, or the loop of the service waits for a hook that hangs.
Rest ==
    /\ \/ up /\ stage = "idle" /\ keeper = NoRemoval /\ issue # "active" /\ outcome # "terminal"
       \/ "keeper" \in hung
    /\ UNCHANGED vars

-----------------------------------------------------------------------------

Progress ==
    \/ BeginRun \/ Create \/ Step \/ CannotWork \/ TimeOut \/ AgentEnds \/ AbortStalled
    \/ HandleTerminal \/ Restart \/ KeeperHookEnds \/ KeeperRemoves

Next ==
    \/ Progress
    \/ StepFails \/ MarkStartedFails \/ AnswerLost \/ Hang \/ Abort \/ Crash \/ LeftoverEnds
    \/ CancelTerminal \/ PeopleMove \/ Rest

Spec == Init /\ [][Next]_vars

\* A run goes on, and the service is started again.  git and ssh commands are taken
\* to end; a hook may hang.
FairSpec == Spec /\ WF_vars(Progress)

-----------------------------------------------------------------------------
(* Properties. *)

\* An agent works in a directory that was populated and set up, unless its preparation
\* or its removal was cut short by an abort, a crash, or a failed removal or answer.
AgentInPrepared == stage = "agent" => dir[at] \in {"ready", "none"} \/ at \in cut

\* after_create runs at most once in the life of a directory, whatever is repeated
\* (SPEC.md:440).
SetUpOnce == \A t \in Places : setups[t] <= 1

\* Apart from the removals of the service, and those that outlive an aborted run, a run
\* only removes a directory it has created and could not prepare, or one it has
\* delivered from: never one that it reuses (SPEC.md:921).
ReusedKept ==
    [][\A t \in Places : dir[t] # "none" /\ dir'[t] = "none" =>
         \/ keeper.at = t /\ keeper.step = "remove"
         \/ [step |-> "remove", at |-> t] \in leftover
         \/ at = t /\ (created \/ outcome # "failed")]_vars

\* The directory stays while an agent works in it.  Not so over ssh, where the removal
\* of an aborted run may still go on.
AgentUndisturbed == stage = "agent" => dir[at] # "none"

\* The service's loop waits for a removal only for a time.
RemovalEnds == keeper.step # "idle" ~> keeper.step = "idle"

\* While the issue is active, its runs get to the agent again and again whatever was
\* aborted or failed.  Only when directories are brought up to date and a preparation was
\* cut short, git may find no repository, and no run repairs that; and a hook of a removal
\* that hangs on another host holds up the loop of the service, hence every run.
RunsReachAgent ==
    issue = "active" ~>
        \/ stage = "agent" \/ issue # "active"
        \/ Syncs /\ cut # {}
        \/ "keeper" \in hung /\ keeper.at # Local

\* SPEC.md:446: "Runs after each agent attempt (success, failure, timeout, or
\* cancellation) once the workspace exists."
AfterRunFollows == [][up /\ up' /\ stage = "agent" /\ stage' # "agent" => stage' = "after_run"]_vars

\* SPEC.md:865: at a start, "For each returned issue identifier, remove the
\* corresponding workspace directory."
StartRemovesTerminal ==
    [][keeper.why = "startup" /\ keeper'.step = "idle" /\ up' /\ disturbances' = disturbances
         => \A t \in Places : dir'[t] = "none"]_vars

=============================================================================

------------------------------ MODULE Delivery ------------------------------
(***************************************************************************)
(* The way of one issue's work from its workspace to the base branch and   *)
(* the tracker: the workspace is created, populated and set up             *)
(* (src/workspace.rs, src/hooks.rs), an agent works in it                  *)
(* (src/agent/runner.rs), and the direct commit commits, fetches, rebases, *)
(* pushes, moves the issue and removes the workspace (src/completion.rs).  *)
(* Runs follow one another on the same workspace, any of them may fail or  *)
(* be aborted, and a git command outlives the task that started it: it is  *)
(* not killed when its future is dropped.                                  *)
(*                                                                         *)
(* A branch is the set of the changes on it: rebasing joins two sets and a *)
(* push is fast-forward when the pushed set contains the branch.           *)
(***************************************************************************)
EXTENDS Integers, SequencesExt

CONSTANTS
    Others,          \* changes other people push to the base branch
    MaxChanges,      \* bound on the changes made in the workspace
    MaxDisturbances, \* bound on failures, aborts, lost answers and people's steps
    Removes          \* workspace.cleanup.after_success is "committed"

ASSUME DeliveryAssumption ==
    /\ MaxChanges \in Nat /\ MaxDisturbances \in Nat /\ Removes \in BOOLEAN
    /\ Others \cap Int = {}

VARIABLES
    dir,          \* how far the workspace directory has been prepared
    local,        \* changes on HEAD
    tracking,     \* changes on refs/remotes/origin/<base>
    dirty,        \* changes in the work tree
    stash,        \* git stash, oldest first
    remote,       \* changes on the base branch of the remote
    issue,        \* what the tracker says of the issue
    stage,        \* where the run is
    result,       \* how the last run ended
    orphan,       \* the git command an aborted run left running, and what it works on
    made,         \* changes made so far
    disturbances  \* disturbances so far

git == <<dir, local, tracking, dirty, stash, remote>>
vars == <<git, issue, stage, result, orphan, made, disturbances>>

Own == 1..MaxChanges
Change == Own \cup Others

GitStages == {"populate", "commit", "fetch", "rebase", "stash", "unstash",
              "recommit", "rebase_again", "push"}
Stages == GitStages \cup {"idle", "set_up", "agent", "check", "move", "remove"}

NoOrphan == [op |-> "idle", arg |-> {}]

TypeOK ==
    /\ dir \in {"none", "empty", "cloned", "ready"}
    /\ local \subseteq Change /\ tracking \subseteq Change
    /\ dirty \subseteq Own
    /\ stash \in Seq(SUBSET Own)
    /\ remote \subseteq Change
    /\ issue \in {"active", "handoff", "closed"}
    /\ stage \in Stages
    /\ result \in {"none", "normal", "failed", "aborted"}
    /\ orphan \in [op: GitStages \cup {"idle"}, arg: SUBSET Change]
    /\ made \in 0..MaxChanges
    /\ disturbances \in 0..MaxDisturbances
    /\ stage = "populate" => dir = "empty"
    /\ stage = "set_up" => dir = "cloned"

Init ==
    /\ dir = "none" /\ local = {} /\ tracking = {} /\ dirty = {} /\ stash = <<>>
    /\ remote = {}
    /\ issue = "active"
    /\ stage = "idle" /\ result = "none"
    /\ orphan = NoOrphan
    /\ made = 0 /\ disturbances = 0

Disturb == disturbances < MaxDisturbances /\ disturbances' = disturbances + 1

Cloned == dir \in {"cloned", "ready"}

EndRun(how) == stage' = "idle" /\ result' = how

GoOn(next) == stage' = next /\ UNCHANGED result

-----------------------------------------------------------------------------
(* What a git command does when it succeeds, to whoever started it.  Its        *)
(* argument is what it found when it started: the staged changes, or HEAD.      *)
(* Changes git does not track do not stop a rebase, others may.                 *)

\* Mutant: forces the push.
ForcesPush(head) == TRUE

\* A push without force is refused when the branch has moved on.
FastForward(head) == remote \subseteq head

Argument(op) == IF op \in {"commit", "recommit", "stash"} THEN dirty ELSE local

GitEffect(op, arg) ==
    \/ /\ op = "populate" /\ dir = "empty"
       /\ dir' = "cloned" /\ local' = remote /\ tracking' = remote
       /\ UNCHANGED <<dirty, stash, remote>>
    \/ /\ op \in {"commit", "recommit"} /\ Cloned /\ arg # {} /\ arg \subseteq dirty
       /\ local' = local \cup arg /\ dirty' = dirty \ arg
       /\ UNCHANGED <<dir, tracking, stash, remote>>
    \/ /\ op = "fetch" /\ Cloned
       /\ tracking' = remote
       /\ UNCHANGED <<dir, local, dirty, stash, remote>>
    \/ /\ op \in {"rebase", "rebase_again"} /\ Cloned
       /\ local' = local \cup tracking
       /\ UNCHANGED <<dir, tracking, dirty, stash, remote>>
    \/ /\ op = "stash" /\ Cloned /\ arg # {} /\ arg \subseteq dirty
       /\ stash' = Append(stash, arg) /\ dirty' = dirty \ arg
       /\ UNCHANGED <<dir, local, tracking, remote>>
    \/ /\ op = "unstash" /\ Cloned /\ stash # <<>>
       /\ dirty' = dirty \cup Last(stash) /\ stash' = Front(stash)
       /\ UNCHANGED <<dir, local, tracking, remote>>
    \/ /\ op = "push" /\ Cloned /\ FastForward(arg)
       /\ remote' = arg
       /\ UNCHANGED <<dir, local, tracking, dirty, stash>>

\* A git command of the run itself.
RunGit(op) == GitEffect(op, Argument(op))

\* The directory goes with all it holds, and a command running in it fails.
RemoveWorkspace ==
    /\ dir' = "none" /\ local' = {} /\ tracking' = {} /\ dirty' = {} /\ stash' = <<>>
    /\ orphan' = NoOrphan
    /\ UNCHANGED remote

-----------------------------------------------------------------------------
(* The run. *)

\* Population and the after_create hook are only for a directory created now.
CreateWorkspace ==
    \/ dir = "none" /\ dir' = "empty" /\ GoOn("populate")
    \/ dir # "none" /\ UNCHANGED dir /\ GoOn("agent")

BeginRun ==
    /\ stage = "idle" /\ issue = "active"
    /\ CreateWorkspace
    /\ UNCHANGED <<local, tracking, dirty, stash, remote, issue, orphan, made, disturbances>>

Populate ==
    /\ stage = "populate"
    /\ RunGit("populate")
    /\ GoOn("set_up")
    /\ UNCHANGED <<issue, orphan, made, disturbances>>

SetUp ==
    /\ stage = "set_up"
    /\ dir' = "ready"
    /\ GoOn("agent")
    /\ UNCHANGED <<local, tracking, dirty, stash, remote, issue, orphan, made, disturbances>>

\* The agent leaves a change in the work tree or commits it itself.
AgentEdits ==
    /\ stage = "agent" /\ made < MaxChanges
    /\ made' = made + 1
    /\ \/ dirty' = dirty \cup {made + 1} /\ UNCHANGED local
       \/ Cloned /\ local' = local \cup {made + 1} /\ UNCHANGED dirty
    /\ UNCHANGED <<dir, tracking, stash, remote, issue, stage, result, orphan, disturbances>>

AgentEnds ==
    /\ stage = "agent"
    /\ GoOn("check")
    /\ UNCHANGED <<git, issue, orphan, made, disturbances>>

\* Mutant: removes the workspace of an issue that is no longer active as well.
RemovesInactive == IF Removes THEN GoOn("remove") ELSE EndRun("normal")

SkipInactive == EndRun("normal")

\* Mutant: only the work tree is looked at.
NeverAhead == FALSE

Ahead == ~(local \subseteq tracking)

\* Nothing to do for an inactive issue; git status fails outside a repository; without
\* a change in the work tree and with nothing ahead of the last fetch there is
\* nothing to deliver.
CheckChanges ==
    /\ stage = "check"
    /\ \/ issue # "active" /\ SkipInactive
       \/ issue = "active" /\ ~Cloned /\ EndRun("failed")
       \/ /\ issue = "active" /\ Cloned
          /\ \/ dirty # {} /\ GoOn("commit")
             \/ dirty = {} /\ Ahead /\ GoOn("fetch")
             \/ dirty = {} /\ ~Ahead /\ EndRun("normal")
    /\ UNCHANGED <<git, issue, orphan, made, disturbances>>

\* A commit fails when another command has taken all there was to commit.
Commit ==
    /\ stage = "commit"
    /\ \/ RunGit("commit") /\ GoOn("fetch")
       \/ dirty = {} /\ UNCHANGED git /\ EndRun("failed")
    /\ UNCHANGED <<issue, orphan, made, disturbances>>

\* With nothing left to push the completion is skipped and the issue stays.
Fetch ==
    /\ stage = "fetch"
    /\ RunGit("fetch")
    /\ IF local \subseteq tracking' THEN EndRun("normal") ELSE GoOn("rebase")
    /\ UNCHANGED <<issue, orphan, made, disturbances>>

\* A rebase may be refused for a dirty work tree: it stashes, commits and tries once more.
Rebase ==
    /\ stage = "rebase"
    /\ \/ RunGit("rebase") /\ GoOn("push")
       \/ dirty # {} /\ UNCHANGED git /\ GoOn("stash")
    /\ UNCHANGED <<issue, orphan, made, disturbances>>

Stash ==
    /\ stage = "stash"
    /\ \/ RunGit("stash") /\ GoOn("unstash")
       \/ dirty = {} /\ UNCHANGED git /\ GoOn("recommit")
    /\ UNCHANGED <<issue, orphan, made, disturbances>>

Unstash ==
    /\ stage = "unstash"
    /\ \/ RunGit("unstash") /\ GoOn("recommit")
       \/ stash = <<>> /\ UNCHANGED git /\ EndRun("failed")
    /\ UNCHANGED <<issue, orphan, made, disturbances>>

CommitAgain ==
    /\ stage = "recommit"
    /\ IF dirty # {} THEN RunGit("recommit") ELSE UNCHANGED git
    /\ GoOn("rebase_again")
    /\ UNCHANGED <<issue, orphan, made, disturbances>>

RebaseAgain ==
    /\ stage = "rebase_again"
    /\ \/ RunGit("rebase_again") /\ GoOn("push")
       \/ dirty # {} /\ UNCHANGED git /\ EndRun("failed")
    /\ UNCHANGED <<issue, orphan, made, disturbances>>

\* Mutant: goes on after a refused push.
MovesAnyway == GoOn("move")

PushRefused == EndRun("failed")

\* A push may also reach the remote without its answer reaching the service.
Push ==
    /\ stage = "push"
    /\ \/ RunGit("push") /\ GoOn("move") /\ UNCHANGED disturbances
       \/ ~FastForward(local) /\ UNCHANGED git /\ PushRefused /\ UNCHANGED disturbances
       \/ RunGit("push") /\ EndRun("failed") /\ Disturb
    /\ UNCHANGED <<issue, orphan, made>>

\* Moved whatever state the issue is in by now; an error is a partial failure.
MoveIssue ==
    /\ stage = "move"
    /\ issue' = "handoff"
    /\ \/ /\ IF Removes THEN GoOn("remove") ELSE EndRun("normal")
          /\ UNCHANGED disturbances
       \/ EndRun("failed") /\ Disturb
    /\ UNCHANGED <<git, orphan, made>>

\* A removal that fails is only logged.
RemoveAfterCommit ==
    /\ stage = "remove"
    /\ EndRun("normal")
    /\ \/ RemoveWorkspace /\ UNCHANGED disturbances
       \/ UNCHANGED <<git, orphan>> /\ Disturb
    /\ UNCHANGED <<issue, made>>

\* Any step but the removal may fail: a hook, the session, a check of the repository,
\* git, the tracker.  A directory that was created now is removed again.
FailRun ==
    /\ stage \in Stages \ {"idle", "remove"}
    /\ Disturb
    /\ EndRun("failed")
    /\ IF stage \in {"populate", "set_up"} THEN RemoveWorkspace
       ELSE UNCHANGED <<git, orphan>>
    /\ UNCHANGED <<issue, made>>

-----------------------------------------------------------------------------
(* Aborts, git left to itself, people. *)

\* The service aborts the task, or the process dies: hooks and the agent die with
\* it, a git command does not.
Abort ==
    /\ stage # "idle"
    /\ Disturb
    /\ EndRun("aborted")
    /\ orphan' = IF stage \in GitStages THEN [op |-> stage, arg |-> Argument(stage)] ELSE orphan
    /\ UNCHANGED <<git, issue, made>>

OrphanEnds ==
    /\ orphan # NoOrphan
    /\ GitEffect(orphan.op, orphan.arg) \/ UNCHANGED git
    /\ orphan' = NoOrphan
    /\ UNCHANGED <<issue, stage, result, made, disturbances>>

\* A process the agent or a hook left behind writes to the work tree.
LateWrite ==
    /\ Cloned /\ stage \in GitStages /\ made < MaxChanges
    /\ Disturb
    /\ made' = made + 1
    /\ dirty' = dirty \cup {made + 1}
    /\ UNCHANGED <<dir, local, tracking, stash, remote, issue, stage, result, orphan>>

OthersPush ==
    /\ Disturb
    /\ \E c \in Others \ remote : remote' = remote \cup {c}
    /\ UNCHANGED <<dir, local, tracking, dirty, stash, issue, stage, result, orphan, made>>

\* People close and reopen an issue that has not been handed off to them.
PeopleMove ==
    /\ Disturb
    /\ issue # "handoff"
    /\ issue' \in {"active", "closed"} \ {issue}
    /\ UNCHANGED <<git, stage, result, orphan, made>>

\* The service removes the workspace of an issue found terminal.
CleanUpTerminal ==
    /\ stage = "idle" /\ issue = "closed" /\ dir # "none"
    /\ RemoveWorkspace
    /\ UNCHANGED <<issue, stage, result, made, disturbances>>

Rest == stage = "idle" /\ issue # "active" /\ UNCHANGED vars

-----------------------------------------------------------------------------

RunStep ==
    \/ BeginRun \/ Populate \/ SetUp \/ AgentEnds \/ CheckChanges \/ Commit \/ Fetch
    \/ Rebase \/ Stash \/ Unstash \/ CommitAgain \/ RebaseAgain \/ Push \/ MoveIssue
    \/ RemoveAfterCommit

Next ==
    \/ RunStep \/ AgentEdits \/ FailRun
    \/ Abort \/ OrphanEnds \/ LateWrite \/ OthersPush \/ PeopleMove \/ CleanUpTerminal
    \/ Rest

Spec == Init /\ [][Next]_vars

\* Active issues are dispatched again and their runs go on; commands end.
FairSpec == Spec /\ WF_vars(RunStep) /\ WF_vars(OrphanEnds)

-----------------------------------------------------------------------------
(* Properties. *)

\* What is committed in the workspace is what it holds for the base branch.
Promise == INSTANCE Handoff WITH held <- local, base <- remote

\* However commands fail, are aborted or run on beside a later run, the base branch only
\* grows and by what the workspace has committed, commits go only with a workspace whose
\* work is delivered or whose issue is closed, and the issue is handed off with all of
\* them delivered (complete_issue_by_direct_commit).
ImplementsHandoff == Promise!Spec

\* No step takes a change off the base branch: neither a push that races with other
\* people's nor one an aborted run left behind (git_push_base_branch has no force).
NothingOverwritten == [][remote \subseteq remote']_vars

\* The issue is handed off only when every commit of its workspace is on the base
\* branch, whatever failed, was aborted or ran on before (SPEC.md:428-431).
HandedOffWhenDelivered ==
    [][stage = "move" /\ issue' = "handoff" => local \subseteq remote]_vars

\* Only an issue found terminal loses commits the base branch does not have: neither
\* the removal after a commit nor the undoing of a failed creation does
\* (removes_after_committed_success, remove_new_workspace).
WorkKept ==
    [][dir' = "none" /\ dir # "none" /\ issue # "closed" => local \subseteq remote]_vars

\* For finitely many disturbances, what is left in a repository reaches the base
\* branch while its issue stays active: later runs find and deliver what failed or
\* aborted ones left, but for what an abort left in the stash.
WorkDelivered ==
    \A c \in Own : (Cloned /\ c \in dirty \cup local) ~>
        (c \in remote \/ issue # "active" \/ dir = "none" \/ \E n \in DOMAIN stash : c \in stash[n])

\* WORKFLOW.example.md:127: Symphony commits the work to main and moves the item, so a
\* run that ends normally with its issue still active left no work of its own there.
PushedIsMoved ==
    [][stage # "idle" /\ stage' = "idle" /\ result' = "normal" /\ issue' = "active"
         => remote \cap Own = {}]_vars

=============================================================================

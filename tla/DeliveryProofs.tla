--------------------------- MODULE DeliveryProofs ---------------------------
(***************************************************************************)
(* For any number of changes, people's pushes and failures.  First what    *)
(* holds of the base branch and of the variables; then of the work itself: *)
(* an issue is handed off with its commits delivered, and no commit is     *)
(* removed before it is.  The danger is a git command an aborted run left  *)
(* behind: it may only move HEAD to what the base branch already has once  *)
(* a later run has pushed.                                                 *)
(***************************************************************************)
EXTENDS Delivery, TLAPS

\* No git command takes a change off the base branch.
LEMMA GitKeepsRemote ==
  ASSUME NEW op, NEW arg, GitEffect(op, arg)
  PROVE  remote \subseteq remote'
  BY DEF GitEffect, FastForward

\* Nor does any step of a run.
LEMMA RunKeepsRemote ==
  ASSUME RunStep
  PROVE  remote \subseteq remote'
  <1>1. CASE BeginRun
    BY <1>1 DEF BeginRun
  <1>2. CASE Populate
    BY <1>2, GitKeepsRemote DEF Populate, RunGit
  <1>3. CASE SetUp
    BY <1>3 DEF SetUp
  <1>4. CASE AgentEnds \/ CheckChanges
    BY <1>4 DEF AgentEnds, CheckChanges, git
  <1>5. CASE Commit \/ Fetch
    BY <1>5, GitKeepsRemote DEF Commit, Fetch, RunGit, git
  <1>6. CASE Rebase \/ Stash \/ Unstash
    BY <1>6, GitKeepsRemote DEF Rebase, Stash, Unstash, RunGit, git
  <1>7. CASE CommitAgain \/ RebaseAgain
    BY <1>7, GitKeepsRemote DEF CommitAgain, RebaseAgain, RunGit, git
  <1>8. CASE Push
    BY <1>8, GitKeepsRemote DEF Push, RunGit, git
  <1>9. CASE MoveIssue \/ RemoveAfterCommit
    BY <1>9 DEF MoveIssue, RemoveAfterCommit, RemoveWorkspace, git
  <1>10. QED
    BY <1>1, <1>2, <1>3, <1>4, <1>5, <1>6, <1>7, <1>8, <1>9 DEF RunStep

\* Nothing is ever overwritten on the base branch: a change that is on it stays,
\* whoever pushes, fails, is aborted or runs on (git_push_base_branch).
THEOREM NothingOverwrittenAlways == Spec => NothingOverwritten
  <1>1. ASSUME Next PROVE remote \subseteq remote'
    <2>1. CASE RunStep
      BY <2>1, RunKeepsRemote
    <2>2. CASE AgentEdits \/ LateWrite
      BY <2>2 DEF AgentEdits, LateWrite
    <2>3. CASE FailRun \/ CleanUpTerminal
      BY <2>3 DEF FailRun, CleanUpTerminal, RemoveWorkspace, git
    <2>4. CASE Abort \/ PeopleMove \/ Rest
      BY <2>4 DEF Abort, PeopleMove, Rest, vars, git
    <2>5. CASE OrphanEnds
      BY <2>5, GitKeepsRemote DEF OrphanEnds, git
    <2>6. CASE OthersPush
      BY <2>6 DEF OthersPush
    <2>7. QED
      BY <1>1, <2>1, <2>2, <2>3, <2>4, <2>5, <2>6 DEF Next
  <1>2. [Next]_vars => [remote \subseteq remote']_vars
    BY <1>1
  <1>3. QED
    BY <1>2, PTL DEF Spec, NothingOverwritten

\* A directory that is not there, or was created just now, has no command left in it,
\* and no run works without a directory.
FreshDirectory ==
    /\ dir = "none" \/ stage = "populate" => orphan = NoOrphan
    /\ dir = "none" => stage = "idle"

IInv == TypeOK /\ FreshDirectory

GitTypes ==
    /\ dir \in {"none", "empty", "cloned", "ready"}
    /\ local \subseteq Change /\ tracking \subseteq Change
    /\ dirty \subseteq Own
    /\ stash \in Seq(SUBSET Own)
    /\ remote \subseteq Change

LEMMA StashPopped ==
  ASSUME stash \in Seq(SUBSET Own), stash # <<>>
  PROVE  /\ Last(stash) \subseteq Own
         /\ Front(stash) \in Seq(SUBSET Own)
  BY DEF Last, Front

\* Git keeps the types, makes a clone of an empty directory and no other.
LEMMA GitKeepsTypes ==
  ASSUME TypeOK, NEW op, NEW arg \in SUBSET Change, GitEffect(op, arg)
  PROVE  /\ GitTypes'
         /\ dir' = dir \/ (op = "populate" /\ dir = "empty" /\ dir' = "cloned")
         /\ op = "populate" => dir' = "cloned"
  <1> USE DEF TypeOK, GitTypes
  <1>1. CASE op = "populate"
    BY <1>1 DEF GitEffect
  <1>2. CASE op \in {"commit", "recommit"}
    BY <1>2 DEF GitEffect, Change
  <1>3. CASE op = "fetch"
    BY <1>3 DEF GitEffect
  <1>4. CASE op \in {"rebase", "rebase_again"}
    BY <1>4 DEF GitEffect
  <1>5. CASE op = "stash"
    BY <1>5 DEF GitEffect, Change
  <1>6. CASE op = "unstash"
    BY <1>6, StashPopped DEF GitEffect
  <1>7. CASE op = "push"
    BY <1>7 DEF GitEffect
  <1>8. QED
    BY <1>1, <1>2, <1>3, <1>4, <1>5, <1>6, <1>7 DEF GitEffect

LEMMA ArgumentType ==
  ASSUME TypeOK, NEW op
  PROVE  Argument(op) \in SUBSET Change
  BY DEF TypeOK, Argument, Change

LEMMA RunGitKeepsTypes ==
  ASSUME TypeOK, NEW op, RunGit(op)
  PROVE  /\ GitTypes'
         /\ dir' = dir \/ (op = "populate" /\ dir = "empty" /\ dir' = "cloned")
         /\ op = "populate" => dir' = "cloned"
  BY ArgumentType, GitKeepsTypes DEF RunGit

LEMMA DisturbType ==
  ASSUME TypeOK, Disturb
  PROVE  disturbances' \in 0..MaxDisturbances
  BY DeliveryAssumption DEF TypeOK, Disturb

LEMMA RemovalTypes ==
  ASSUME TypeOK, RemoveWorkspace
  PROVE  GitTypes' /\ dir' = "none" /\ orphan' = NoOrphan
  BY DEF TypeOK, GitTypes, RemoveWorkspace

LEMMA NoOrphanType == NoOrphan \in [op: GitStages \cup {"idle"}, arg: SUBSET Change]
  BY DEF NoOrphan

\* The types of what a step leaves alone carry over.
LEMMA RunStepInv ==
  ASSUME IInv, RunStep
  PROVE  IInv'
  <1> USE DEF IInv, FreshDirectory
  <1>1. CASE BeginRun
    BY <1>1 DEF BeginRun, CreateWorkspace, GoOn, TypeOK, Stages, GitStages
  <1>2. CASE Populate
    <2>1. RunGit("populate")
      BY <1>2 DEF Populate
    <2>2. GitTypes' /\ dir' = "cloned"
      BY <2>1, RunGitKeepsTypes
    <2>3. QED
      BY <1>2, <2>2 DEF Populate, GoOn, TypeOK, GitTypes, Stages
  <1>3. CASE SetUp
    BY <1>3 DEF SetUp, GoOn, TypeOK, Stages
  <1>4. CASE AgentEnds
    BY <1>4 DEF AgentEnds, GoOn, TypeOK, Stages, git
  <1>5. CASE CheckChanges
    BY <1>5 DEF CheckChanges, SkipInactive, GoOn, EndRun, TypeOK, Stages, GitStages, git
  <1>6. ASSUME NEW op \in GitStages \ {"populate"},
               RunGit(op) \/ UNCHANGED git,
               stage' \in Stages \ {"populate", "set_up"},
               result' \in {"none", "normal", "failed", "aborted"},
               UNCHANGED <<issue, orphan, made>>, stage # "idle",
               disturbances' \in 0..MaxDisturbances
        PROVE  IInv'
    <2>1. GitTypes' /\ dir' = dir
      BY <1>6, RunGitKeepsTypes DEF git, TypeOK, GitTypes
    <2>2. QED
      BY <1>6, <2>1 DEF TypeOK, GitTypes
  <1> DEFINE Calm == disturbances' \in 0..MaxDisturbances
  <1>7. CASE Commit \/ Fetch
    <2>1. RunGit("commit") \/ RunGit("fetch") \/ UNCHANGED git
      BY <1>7 DEF Commit, Fetch
    <2>2. /\ stage' \in Stages \ {"populate", "set_up"}
          /\ result' \in {"none", "normal", "failed", "aborted"}
          /\ UNCHANGED <<issue, orphan, made>> /\ Calm /\ stage # "idle"
      BY <1>7 DEF Commit, Fetch, GoOn, EndRun, TypeOK, Stages, GitStages
    <2>3. QED
      BY <2>1, <2>2, <1>6 DEF GitStages
  <1>8. CASE Rebase \/ RebaseAgain
    <2>1. RunGit("rebase") \/ RunGit("rebase_again") \/ UNCHANGED git
      BY <1>8 DEF Rebase, RebaseAgain
    <2>2. /\ stage' \in Stages \ {"populate", "set_up"}
          /\ result' \in {"none", "normal", "failed", "aborted"}
          /\ UNCHANGED <<issue, orphan, made>> /\ Calm /\ stage # "idle"
      BY <1>8 DEF Rebase, RebaseAgain, GoOn, EndRun, TypeOK, Stages, GitStages
    <2>3. QED
      BY <2>1, <2>2, <1>6 DEF GitStages
  <1>9. CASE Stash \/ Unstash \/ CommitAgain
    <2>1. RunGit("stash") \/ RunGit("unstash") \/ RunGit("recommit") \/ UNCHANGED git
      BY <1>9 DEF Stash, Unstash, CommitAgain
    <2>2. /\ stage' \in Stages \ {"populate", "set_up"}
          /\ result' \in {"none", "normal", "failed", "aborted"}
          /\ UNCHANGED <<issue, orphan, made>> /\ Calm /\ stage # "idle"
      BY <1>9 DEF Stash, Unstash, CommitAgain, GoOn, EndRun, TypeOK, Stages, GitStages
    <2>3. QED
      BY <2>1, <2>2, <1>6 DEF GitStages
  <1>10. CASE Push
    <2>1. RunGit("push") \/ UNCHANGED git
      BY <1>10 DEF Push
    <2>2. /\ stage' \in Stages \ {"populate", "set_up"}
          /\ result' \in {"none", "normal", "failed", "aborted"}
          /\ UNCHANGED <<issue, orphan, made>> /\ stage # "idle"
      BY <1>10 DEF Push, PushRefused, GoOn, EndRun, TypeOK, Stages, GitStages
    <2>3. Calm
      BY <1>10, DisturbType DEF Push, TypeOK
    <2>4. QED
      BY <2>1, <2>2, <2>3, <1>6 DEF GitStages
  <1>11. CASE MoveIssue
    <2>1. Calm
      BY <1>11, DisturbType DEF MoveIssue, TypeOK
    <2>2. QED
      BY <1>11, <2>1 DEF MoveIssue, GoOn, EndRun, TypeOK, Stages, git
  <1>12. CASE RemoveAfterCommit
    <2>1. Calm
      BY <1>12, DisturbType DEF RemoveAfterCommit, TypeOK
    <2>2. CASE RemoveWorkspace
      BY <1>12, <2>1, <2>2, RemovalTypes, NoOrphanType
         DEF RemoveAfterCommit, EndRun, TypeOK, GitTypes, Stages
    <2>3. CASE UNCHANGED <<git, orphan>>
      BY <1>12, <2>1, <2>3 DEF RemoveAfterCommit, EndRun, TypeOK, Stages, git
    <2>4. QED
      BY <1>12, <2>2, <2>3 DEF RemoveAfterCommit
  <1>13. QED
    BY <1>1, <1>2, <1>3, <1>4, <1>5, <1>7, <1>8, <1>9, <1>10, <1>11, <1>12 DEF RunStep

LEMMA OtherStepsInv ==
  ASSUME IInv, Next, ~RunStep
  PROVE  IInv'
  <1> USE DEF IInv, FreshDirectory
  <1>1. CASE AgentEdits
    <2>1. made' \in 0..MaxChanges /\ made + 1 \in Own
      BY <1>1, DeliveryAssumption DEF AgentEdits, TypeOK, Own
    <2>2. local' \subseteq Change /\ dirty' \subseteq Own
      BY <1>1, <2>1 DEF AgentEdits, TypeOK, Change
    <2>3. QED
      BY <1>1, <2>1, <2>2 DEF AgentEdits, TypeOK
  <1>2. CASE FailRun
    <2>1. disturbances' \in 0..MaxDisturbances
      BY <1>2, DisturbType DEF FailRun
    <2>2. CASE RemoveWorkspace
      BY <1>2, <2>1, <2>2, RemovalTypes, NoOrphanType
         DEF FailRun, EndRun, TypeOK, GitTypes, Stages
    <2>3. CASE UNCHANGED <<git, orphan>>
      BY <1>2, <2>1, <2>3 DEF FailRun, EndRun, TypeOK, Stages, git
    <2>4. QED
      BY <1>2, <2>2, <2>3 DEF FailRun
  <1>3. CASE Abort
    <2>1. disturbances' \in 0..MaxDisturbances
      BY <1>3, DisturbType DEF Abort
    <2>2. orphan' \in [op: GitStages \cup {"idle"}, arg: SUBSET Change]
      BY <1>3, ArgumentType DEF Abort, TypeOK
    <2>3. dir # "none"
      BY <1>3 DEF Abort
    <2>4. QED
      BY <1>3, <2>1, <2>2, <2>3 DEF Abort, EndRun, TypeOK, Stages, git
  <1>4. CASE OrphanEnds
    <2>1. /\ GitTypes'
          /\ dir' = dir \/ (dir = "empty" /\ dir' = "cloned")
      BY <1>4, GitKeepsTypes DEF OrphanEnds, TypeOK, GitTypes, git
    <2>2. stage # "populate"
      BY <1>4 DEF OrphanEnds
    <2>3. QED
      BY <1>4, <2>1, <2>2 DEF OrphanEnds, NoOrphan, TypeOK, GitTypes
  <1>5. CASE LateWrite
    <2>1. disturbances' \in 0..MaxDisturbances
      BY <1>5, DisturbType DEF LateWrite
    <2>2. QED
      BY <1>5, <2>1, DeliveryAssumption DEF LateWrite, TypeOK, Own, Change
  <1>6. CASE OthersPush
    <2>1. disturbances' \in 0..MaxDisturbances
      BY <1>6, DisturbType DEF OthersPush
    <2>2. QED
      BY <1>6, <2>1 DEF OthersPush, TypeOK, Change
  <1>7. CASE PeopleMove
    <2>1. disturbances' \in 0..MaxDisturbances
      BY <1>7, DisturbType DEF PeopleMove
    <2>2. QED
      BY <1>7, <2>1 DEF PeopleMove, TypeOK, git
  <1>8. CASE CleanUpTerminal
    BY <1>8 DEF CleanUpTerminal, RemoveWorkspace, NoOrphan, TypeOK
  <1>9. CASE Rest
    BY <1>9 DEF Rest, vars, git, TypeOK
  <1>10. QED
    BY <1>1, <1>2, <1>3, <1>4, <1>5, <1>6, <1>7, <1>8, <1>9 DEF Next

\* The variables keep their types, and population and set-up only ever meet a directory
\* that was created in the same run (create_local_for_source_identifier).
THEOREM TypeCorrect == Spec => []TypeOK
  <1>1. Init => IInv
    BY DeliveryAssumption DEF Init, IInv, FreshDirectory, NoOrphan, TypeOK, Stages
  <1>2. IInv /\ [Next]_vars => IInv'
    <2>1. CASE UNCHANGED vars
      BY <2>1 DEF vars, git, IInv, FreshDirectory, TypeOK
    <2>2. QED
      BY <2>1, RunStepInv, OtherStepsInv
  <1>3. QED
    BY <1>1, <1>2, PTL DEF Spec, IInv

-----------------------------------------------------------------------------
(* The work. *)

Committing == {"commit", "recommit"}

\* The stages that follow a commit, or the finding that there was nothing to commit.
Committed == {"fetch", "rebase", "stash", "unstash", "recommit", "rebase_again", "push",
              "move", "remove"}

\* The entries of a stash share nothing with D nor with one another.
Apart(s, D) ==
    /\ \A n \in DOMAIN s : s[n] \cap D = {}
    /\ \A m, n \in DOMAIN s : m # n => s[m] \cap s[n] = {}

AllWithin(s, D) == \A n \in DOMAIN s : s[n] \subseteq D

\* No change is twice among the work tree and the entries of the stash, and what was
\* fetched is on the remote.
Placed ==
    /\ tracking \subseteq remote
    /\ ~Cloned => local = {}
    /\ dirty \subseteq 1..made /\ AllWithin(stash, 1..made)
    /\ Apart(stash, dirty)

\* What an orphaned commit was to commit has been committed by the run that came after,
\* so it has nothing left to do.
OrphanSpent ==
    orphan.op \in Committing =>
        /\ orphan.arg \subseteq 1..made
        /\ \A n \in DOMAIN stash : stash[n] \cap orphan.arg = {}
        /\ stage \in Committed => dirty \cap orphan.arg = {}

Delivered ==
    /\ stage \in Committed => Cloned
    /\ stage \in {"populate", "set_up"} => orphan = NoOrphan
    /\ stage \in {"populate", "set_up", "move", "remove"} => local \subseteq remote

WInv == IInv /\ Placed /\ OrphanSpent /\ Delivered

-----------------------------------------------------------------------------
(* The stash. *)

\* Stashing and popping keep the changes apart.
LEMMA ApartAppend ==
  ASSUME NEW s \in Seq(SUBSET Own), NEW D, NEW a \in SUBSET Own, a \subseteq D, Apart(s, D)
  PROVE  Apart(Append(s, a), D \ a)
  <1> DEFINE t == Append(s, a)
  <1>1. /\ DOMAIN t = DOMAIN s \cup {Len(s) + 1} /\ Len(s) + 1 \notin DOMAIN s
        /\ t[Len(s) + 1] = a
        /\ \A n \in DOMAIN s : t[n] = s[n]
    OBVIOUS
  <1>2. \A n \in DOMAIN s : s[n] \cap D = {}
    BY DEF Apart
  <1> HIDE DEF t
  <1>3. \A n \in DOMAIN t : t[n] \cap (D \ a) = {}
    BY <1>1, <1>2
  <1>4. \A m, n \in DOMAIN t : m # n => t[m] \cap t[n] = {}
    BY <1>1, <1>2 DEF Apart
  <1>5. QED
    BY <1>3, <1>4 DEF Apart, t

LEMMA ApartPopped ==
  ASSUME NEW s \in Seq(SUBSET Own), s # <<>>, NEW D, Apart(s, D)
  PROVE  Apart(Front(s), D \cup Last(s))
  <1>1. /\ DOMAIN Front(s) \subseteq DOMAIN s /\ Len(s) \in DOMAIN s
        /\ Len(s) \notin DOMAIN Front(s)
        /\ \A n \in DOMAIN Front(s) : Front(s)[n] = s[n]
    BY DEF Front
  <1>2. Last(s) = s[Len(s)]
    BY DEF Last
  <1>3. QED
    BY <1>1, <1>2 DEF Apart

\* What holds of every entry of a stash holds of what is left of it and of its last entry.
LEMMA PoppedEntries ==
  ASSUME NEW s \in Seq(SUBSET Own), s # <<>>
  PROVE  /\ \E n \in DOMAIN s : Last(s) = s[n]
         /\ \A n \in DOMAIN Front(s) : n \in DOMAIN s /\ Front(s)[n] = s[n]
  BY DEF Front, Last

LEMMA AppendedEntries ==
  ASSUME NEW s \in Seq(SUBSET Own), NEW a \in SUBSET Own
  PROVE  \A n \in DOMAIN Append(s, a) :
            Append(s, a)[n] = a \/ (n \in DOMAIN s /\ Append(s, a)[n] = s[n])
  OBVIOUS

-----------------------------------------------------------------------------
(* Where changes are. *)

\* No git command copies a change that is not committed.
LEMMA GitKeepsPlaced ==
  ASSUME TypeOK, Placed, NEW op, NEW arg, GitEffect(op, arg), made' = made
  PROVE  Placed'
  <1> USE DEF Placed
  <1>1. CASE op = "populate"
    BY <1>1 DEF GitEffect, Cloned
  <1>2. CASE op \in {"commit", "recommit"}
    BY <1>2 DEF GitEffect, Cloned, Apart
  <1>3. CASE op = "fetch"
    BY <1>3 DEF GitEffect, Cloned
  <1>4. CASE op \in {"rebase", "rebase_again"}
    BY <1>4 DEF GitEffect, Cloned
  <1>5. CASE op = "stash"
    <2>1. /\ arg \in SUBSET Own /\ arg \subseteq dirty /\ stash \in Seq(SUBSET Own)
          /\ stash' = Append(stash, arg) /\ dirty' = dirty \ arg
          /\ UNCHANGED <<dir, local, tracking, remote>>
      BY <1>5 DEF GitEffect, TypeOK
    <2>2. Apart(stash', dirty')
      BY <2>1, ApartAppend
    <2>3. AllWithin(stash', 1..made)
      <3>1. arg \subseteq 1..made /\ \A n \in DOMAIN stash : stash[n] \subseteq 1..made
        BY <2>1 DEF AllWithin
      <3>2. \A n \in DOMAIN Append(stash, arg) : Append(stash, arg)[n] \subseteq 1..made
        <4>1. \A n \in DOMAIN Append(stash, arg) :
                 Append(stash, arg)[n] = arg
                 \/ (n \in DOMAIN stash /\ Append(stash, arg)[n] = stash[n])
          BY <2>1, AppendedEntries
        <4>2. QED
          BY <3>1, <4>1, Zenon
      <3>3. QED
        BY <2>1, <3>2 DEF AllWithin
    <2>4. QED
      BY <2>1, <2>2, <2>3 DEF Cloned, Apart, AllWithin
  <1>6. CASE op = "unstash"
    <2>1. /\ stash \in Seq(SUBSET Own) /\ stash # <<>>
          /\ stash' = Front(stash) /\ dirty' = dirty \cup Last(stash)
          /\ UNCHANGED <<dir, local, tracking, remote>>
      BY <1>6 DEF GitEffect, TypeOK
    <2>2. Apart(stash', dirty')
      BY <2>1, ApartPopped
    <2>3. AllWithin(stash', 1..made) /\ Last(stash) \subseteq 1..made
      BY <2>1, PoppedEntries DEF AllWithin
    <2>4. QED
      BY <2>1, <2>2, <2>3 DEF Cloned, Apart, AllWithin
  <1>7. CASE op = "push"
    BY <1>7 DEF GitEffect, Cloned, FastForward
  <1>8. QED
    BY <1>1, <1>2, <1>3, <1>4, <1>5, <1>6, <1>7 DEF GitEffect

LEMMA RemovalKeepsPlaced ==
  ASSUME RemoveWorkspace
  PROVE  Placed'
  BY DEF RemoveWorkspace, Placed, Apart, AllWithin, Cloned

LEMMA UnchangedKeepsPlaced ==
  ASSUME Placed, UNCHANGED <<git, made>>
  PROVE  Placed'
  BY DEF Placed, Apart, AllWithin, Cloned, git

\* A change that is new is in no entry of the stash.
LEMMA NewChange ==
  ASSUME TypeOK, Placed, made' = made + 1
  PROVE  /\ dirty \subseteq 1..made' /\ dirty \cup {made + 1} \subseteq 1..made'
         /\ AllWithin(stash, 1..made')
         /\ Apart(stash, dirty \cup {made + 1})
  <1>1. made \in Nat /\ 1..made \subseteq 1..made' /\ made + 1 \in 1..made'
        /\ made + 1 \notin 1..made
    BY DeliveryAssumption DEF TypeOK
  <1>2. \A n \in DOMAIN stash : made + 1 \notin stash[n]
    BY <1>1 DEF Placed, AllWithin
  <1>3. QED
    BY <1>1, <1>2 DEF Placed, Apart, AllWithin

\* Nor does any step.
LEMMA RunStepPlaced ==
  ASSUME WInv, RunStep
  PROVE  Placed'
  <1> USE DEF WInv, IInv
  <1>1. CASE BeginRun
    BY <1>1 DEF BeginRun, CreateWorkspace, Placed, Apart, AllWithin, Cloned
  <1>2. CASE Populate
    BY <1>2, GitKeepsPlaced DEF Populate, RunGit
  <1>3. CASE SetUp
    BY <1>3 DEF SetUp, TypeOK, Placed, Apart, AllWithin, Cloned
  <1>4. CASE AgentEnds \/ CheckChanges
    BY <1>4, UnchangedKeepsPlaced DEF AgentEnds, CheckChanges
  <1>5. CASE Commit \/ Fetch
    BY <1>5, GitKeepsPlaced, UnchangedKeepsPlaced DEF Commit, Fetch, RunGit
  <1>6. CASE Rebase \/ Stash \/ Unstash
    BY <1>6, GitKeepsPlaced, UnchangedKeepsPlaced DEF Rebase, Stash, Unstash, RunGit
  <1>7. CASE CommitAgain \/ RebaseAgain
    BY <1>7, GitKeepsPlaced, UnchangedKeepsPlaced DEF CommitAgain, RebaseAgain, RunGit
  <1>8. CASE Push
    BY <1>8, GitKeepsPlaced, UnchangedKeepsPlaced DEF Push, RunGit
  <1>9. CASE MoveIssue \/ RemoveAfterCommit
    BY <1>9, UnchangedKeepsPlaced, RemovalKeepsPlaced DEF MoveIssue, RemoveAfterCommit
  <1>10. QED
    BY <1>1, <1>2, <1>3, <1>4, <1>5, <1>6, <1>7, <1>8, <1>9 DEF RunStep

LEMMA OtherStepsPlaced ==
  ASSUME WInv, Next, ~RunStep
  PROVE  Placed'
  <1> USE DEF WInv, IInv
  <1>1. CASE AgentEdits
    <2>1. CASE UNCHANGED local
      BY <1>1, <2>1, NewChange DEF AgentEdits, Placed, Cloned, Apart, AllWithin
    <2>2. CASE Cloned /\ UNCHANGED dirty
      BY <1>1, <2>2, NewChange DEF AgentEdits, Placed, Cloned, Apart, AllWithin
    <2>3. QED
      BY <1>1, <2>1, <2>2 DEF AgentEdits
  <1>2. CASE FailRun \/ CleanUpTerminal
    BY <1>2, UnchangedKeepsPlaced, RemovalKeepsPlaced DEF FailRun, CleanUpTerminal
  <1>3. CASE Abort \/ PeopleMove \/ Rest
    BY <1>3, UnchangedKeepsPlaced DEF Abort, PeopleMove, Rest, vars
  <1>4. CASE OrphanEnds
    BY <1>4, GitKeepsPlaced, UnchangedKeepsPlaced DEF OrphanEnds
  <1>5. CASE LateWrite
    BY <1>5, NewChange DEF LateWrite, Placed, Cloned, Apart, AllWithin
  <1>6. CASE OthersPush
    BY <1>6 DEF OthersPush, Placed, Cloned, Apart, AllWithin
  <1>7. QED
    BY <1>1, <1>2, <1>3, <1>4, <1>5, <1>6 DEF Next

-----------------------------------------------------------------------------
(* What an orphaned commit finds left to commit. *)

Spares(s, a) == \A n \in DOMAIN s : s[n] \cap a = {}

\* A git command that meets none of the changes in a brings none of them into the work
\* tree or the stash.
LEMMA GitSpares ==
  ASSUME TypeOK, NEW op, NEW arg, GitEffect(op, arg), NEW a, Spares(stash, a),
         op \in {"stash", "unstash"} => dirty \cap a = {}
  PROVE  Spares(stash', a) /\ (dirty \cap a = {} => dirty' \cap a = {})
  <1>1. CASE op \notin {"stash", "unstash"}
    BY <1>1 DEF GitEffect, Spares
  <1>2. CASE op = "stash"
    <2>1. /\ arg \in SUBSET Own /\ arg \subseteq dirty /\ stash \in Seq(SUBSET Own)
          /\ stash' = Append(stash, arg) /\ dirty' = dirty \ arg
      BY <1>2 DEF GitEffect, TypeOK
    <2>2. \A n \in DOMAIN Append(stash, arg) :
             Append(stash, arg)[n] = arg
             \/ (n \in DOMAIN stash /\ Append(stash, arg)[n] = stash[n])
      BY <2>1, AppendedEntries
    <2>3. arg \cap a = {} /\ dirty' \cap a = {}
      BY <1>2, <2>1
    <2>4. Spares(Append(stash, arg), a)
      BY <2>2, <2>3, Zenon DEF Spares
    <2>5. QED
      BY <2>1, <2>3, <2>4
  <1>3. CASE op = "unstash"
    <2>1. /\ stash \in Seq(SUBSET Own) /\ stash # <<>>
          /\ stash' = Front(stash) /\ dirty' = dirty \cup Last(stash)
      BY <1>3 DEF GitEffect, TypeOK
    <2>2. Spares(stash', a) /\ Last(stash) \cap a = {}
      BY <2>1, PoppedEntries DEF Spares
    <2>3. QED
      BY <2>1, <2>2
  <1>4. QED
    BY <1>1, <1>2, <1>3

\* A step of a run that has committed what it found keeps an orphaned commit spent.
LEMMA CommittedKeepsSpent ==
  ASSUME WInv, stage \in Committed, UNCHANGED <<orphan, made>>,
         NEW op, RunGit(op) \/ UNCHANGED git
  PROVE  OrphanSpent'
  <1> SUFFICES ASSUME orphan.op \in Committing
               PROVE  OrphanSpent'
    BY DEF OrphanSpent
  <1>1. orphan.arg \subseteq 1..made /\ Spares(stash, orphan.arg) /\ dirty \cap orphan.arg = {}
    BY DEF WInv, OrphanSpent, Spares
  <1>2. Spares(stash', orphan.arg) /\ dirty' \cap orphan.arg = {}
    BY <1>1, GitSpares DEF RunGit, WInv, IInv, git
  <1>3. QED
    BY <1>1, <1>2 DEF OrphanSpent, Spares

\* No step gives an orphaned commit something to do in a run that has committed.
LEMMA RunStepSpent ==
  ASSUME WInv, RunStep
  PROVE  OrphanSpent'
  <1>1. CASE BeginRun \/ SetUp \/ AgentEnds
    BY <1>1 DEF BeginRun, CreateWorkspace, SetUp, AgentEnds, GoOn, WInv, OrphanSpent,
                Committed, git
  <1>2. CASE Populate
    BY <1>2 DEF Populate, RunGit, GitEffect, GoOn, WInv, OrphanSpent, Committed
  <1>3. CASE CheckChanges
    BY <1>3 DEF CheckChanges, SkipInactive, GoOn, EndRun, WInv, OrphanSpent, Committed, git
  <1>4. CASE Commit
    <2>1. CASE RunGit("commit")
      BY <1>4, <2>1 DEF Commit, RunGit, Argument, GitEffect, WInv, OrphanSpent
    <2>2. CASE UNCHANGED git /\ EndRun("failed")
      BY <1>4, <2>2 DEF Commit, EndRun, WInv, OrphanSpent, Committed, git
    <2>3. QED
      BY <1>4, <2>1, <2>2 DEF Commit
  <1>5. CASE Fetch \/ Rebase \/ Stash
    BY <1>5, CommittedKeepsSpent DEF Fetch, Rebase, Stash, Committed
  <1>6. CASE Unstash \/ CommitAgain \/ RebaseAgain
    BY <1>6, CommittedKeepsSpent DEF Unstash, CommitAgain, RebaseAgain, Committed
  <1>7. CASE Push \/ MoveIssue
    BY <1>7, CommittedKeepsSpent DEF Push, MoveIssue, Committed
  <1>8. CASE RemoveAfterCommit
    <2>1. CASE RemoveWorkspace
      BY <2>1 DEF RemoveWorkspace, NoOrphan, OrphanSpent, Committing
    <2>2. CASE UNCHANGED <<git, orphan>>
      BY <1>8, <2>2, CommittedKeepsSpent DEF RemoveAfterCommit, Committed
    <2>3. QED
      BY <1>8, <2>1, <2>2 DEF RemoveAfterCommit
  <1>9. QED
    BY <1>1, <1>2, <1>3, <1>4, <1>5, <1>6, <1>7, <1>8 DEF RunStep

LEMMA OtherStepsSpent ==
  ASSUME WInv, Next, ~RunStep
  PROVE  OrphanSpent'
  <1>1. CASE AgentEdits \/ LateWrite
    <2>1. made \in Nat /\ made' = made + 1
      BY <1>1, DeliveryAssumption DEF AgentEdits, LateWrite, WInv, IInv, TypeOK
    <2>2. 1..made \subseteq 1..made' /\ made + 1 \notin 1..made
      BY <2>1
    <2>3. QED
      BY <1>1, <2>1, <2>2 DEF AgentEdits, LateWrite, WInv, OrphanSpent, Committed
  <1>2. CASE RemoveWorkspace
    BY <1>2 DEF RemoveWorkspace, NoOrphan, OrphanSpent, Committing
  <1>3. CASE FailRun \/ CleanUpTerminal
    BY <1>2, <1>3 DEF FailRun, CleanUpTerminal, EndRun, WInv, OrphanSpent, Committed, git
  <1>4. CASE Abort
    <2>1. stage' = "idle" /\ UNCHANGED <<git, made>>
      BY <1>4 DEF Abort, EndRun
    <2>2. CASE stage \in GitStages
      BY <1>4, <2>1, <2>2 DEF Abort, Argument, WInv, Placed, Apart, OrphanSpent, Committing,
                              Committed, git
    <2>3. CASE stage \notin GitStages
      BY <1>4, <2>1, <2>3 DEF Abort, WInv, OrphanSpent, Committed, git
    <2>4. QED
      BY <2>2, <2>3
  <1>5. CASE OrphanEnds
    BY <1>5 DEF OrphanEnds, NoOrphan, OrphanSpent, Committing
  <1>6. CASE OthersPush \/ PeopleMove \/ Rest
    BY <1>6 DEF OthersPush, PeopleMove, Rest, WInv, OrphanSpent, vars, git
  <1>7. QED
    BY <1>1, <1>3, <1>4, <1>5, <1>6 DEF Next

-----------------------------------------------------------------------------
(* What is delivered stays so. *)

\* What an orphaned command finds to do once the work is delivered adds nothing to HEAD
\* that the base branch does not have.
LEMMA OrphanAddsNothing ==
  ASSUME WInv, OrphanEnds, stage \in {"move", "remove"}
  PROVE  local' \subseteq remote'
  <1>1. local \subseteq remote /\ tracking \subseteq remote /\ Cloned
    BY DEF WInv, Delivered, Committed, Placed
  <1>2. orphan.op \in Committing => dirty \cap orphan.arg = {}
    BY DEF WInv, OrphanSpent, Committed
  <1>3. remote \subseteq remote'
    BY GitKeepsRemote DEF OrphanEnds, git
  <1>4. QED
    BY <1>1, <1>2, <1>3 DEF OrphanEnds, GitEffect, Committing, Cloned, git

\* The workspace of a run that goes on in it stays.
LEMMA RunGitKeepsClone ==
  ASSUME WInv, Cloned, NEW op, RunGit(op) \/ UNCHANGED git
  PROVE  Cloned'
  BY DEF RunGit, GitEffect, Cloned, git

\* A run reaches the move only by its own push, and a removal only from there.
LEMMA RunStepDelivered ==
  ASSUME WInv, RunStep
  PROVE  Delivered'
  <1> USE DEF WInv, IInv, Delivered
  <1>1. CASE BeginRun
    BY <1>1 DEF BeginRun, CreateWorkspace, FreshDirectory, Placed, Cloned, Committed, GoOn
  <1>2. CASE Populate
    BY <1>2 DEF Populate, RunGit, GitEffect, Committed, GoOn
  <1>3. CASE SetUp
    BY <1>3 DEF SetUp, Committed, GoOn
  <1>4. CASE AgentEnds
    BY <1>4 DEF AgentEnds, Committed, GoOn
  <1>5. CASE CheckChanges
    BY <1>5 DEF CheckChanges, SkipInactive, Committed, Cloned, GoOn, EndRun, git
  <1>6. CASE Commit
    <2>1. CASE RunGit("commit") /\ GoOn("fetch")
      BY <2>1 DEF RunGit, GitEffect, Cloned, Committed, GoOn
    <2>2. CASE EndRun("failed")
      BY <2>2 DEF EndRun, Committed
    <2>3. QED
      BY <1>6, <2>1, <2>2 DEF Commit
  <1>7. CASE Fetch \/ Rebase \/ Stash
    <2>1. Cloned'
      BY <1>7, RunGitKeepsClone DEF Fetch, Rebase, Stash, Committed
    <2>2. stage' \notin {"populate", "set_up", "move", "remove"}
      BY <1>7 DEF Fetch, Rebase, Stash, GoOn, EndRun
    <2>3. QED
      BY <2>1, <2>2
  <1>8. CASE Unstash \/ CommitAgain \/ RebaseAgain
    <2>1. Cloned'
      BY <1>8, RunGitKeepsClone DEF Unstash, CommitAgain, RebaseAgain, Committed
    <2>2. stage' \notin {"populate", "set_up", "move", "remove"}
      BY <1>8 DEF Unstash, CommitAgain, RebaseAgain, GoOn, EndRun
    <2>3. QED
      BY <2>1, <2>2
  <1>9. CASE Push
    <2>1. CASE RunGit("push") /\ GoOn("move")
      BY <2>1 DEF RunGit, Argument, GitEffect, GoOn, Cloned
    <2>2. CASE EndRun("failed")
      BY <2>2 DEF EndRun, Committed
    <2>3. QED
      BY <1>9, <2>1, <2>2 DEF Push, PushRefused
  <1>10. CASE MoveIssue
    BY <1>10 DEF MoveIssue, Committed, Cloned, GoOn, EndRun, git
  <1>11. CASE RemoveAfterCommit
    BY <1>11 DEF RemoveAfterCommit, Committed, EndRun
  <1>12. QED
    BY <1>1, <1>2, <1>3, <1>4, <1>5, <1>6, <1>7, <1>8, <1>9, <1>10, <1>11 DEF RunStep

LEMMA OtherStepsDelivered ==
  ASSUME WInv, Next, ~RunStep
  PROVE  Delivered'
  <1> USE DEF WInv, IInv, Delivered
  <1>1. CASE AgentEdits
    BY <1>1 DEF AgentEdits, Committed
  <1>2. CASE FailRun \/ Abort
    BY <1>2 DEF FailRun, Abort, EndRun, Committed
  <1>3. CASE OrphanEnds
    <2>1. stage \notin {"populate", "set_up"} /\ UNCHANGED stage
      BY <1>3 DEF OrphanEnds
    <2>2. Cloned => Cloned'
      BY <1>3 DEF OrphanEnds, GitEffect, Cloned, git
    <2>3. QED
      BY <1>3, <2>1, <2>2, OrphanAddsNothing
  <1>4. CASE LateWrite
    BY <1>4 DEF LateWrite, Cloned, Committed
  <1>5. CASE OthersPush
    BY <1>5 DEF OthersPush, Cloned, Committed
  <1>6. CASE PeopleMove \/ Rest
    BY <1>6 DEF PeopleMove, Rest, Cloned, vars, git
  <1>7. CASE CleanUpTerminal
    BY <1>7 DEF CleanUpTerminal, Committed
  <1>8. QED
    BY <1>1, <1>2, <1>3, <1>4, <1>5, <1>6, <1>7 DEF Next

-----------------------------------------------------------------------------
(* The theorems. *)

\* The invariant both theorems rest on.
LEMMA WorkInvariant == Spec => []WInv
  <1>1. Init => WInv
    <2>1. Init => IInv
      BY DeliveryAssumption DEF Init, IInv, FreshDirectory, NoOrphan, TypeOK, Stages
    <2>2. Init => Placed /\ OrphanSpent /\ Delivered
      BY DEF Init, NoOrphan, Placed, Apart, AllWithin, Cloned, OrphanSpent, Committing,
             Delivered, Committed
    <2>3. QED
      BY <2>1, <2>2 DEF WInv
  <1>2. WInv /\ [Next]_vars => WInv'
    <2>1. CASE UNCHANGED vars
      BY <2>1 DEF vars, git, WInv, IInv, FreshDirectory, TypeOK, Placed, Apart, AllWithin,
                  Cloned, OrphanSpent, Delivered
    <2>2. CASE RunStep
      BY <2>2, RunStepInv, RunStepPlaced, RunStepSpent, RunStepDelivered DEF WInv
    <2>3. CASE Next /\ ~RunStep
      BY <2>3, OtherStepsInv, OtherStepsPlaced, OtherStepsSpent, OtherStepsDelivered DEF WInv
    <2>4. QED
      BY <2>1, <2>2, <2>3
  <1>3. QED
    BY <1>1, <1>2, PTL DEF Spec

\* The issue is handed off only when every commit of its workspace is on the base
\* branch, for any number of changes, failures, aborts and orphaned commands
\* (complete_issue_by_direct_commit moves the issue after the push).
THEOREM HandedOffAlways == Spec => HandedOffWhenDelivered
  <1>1. WInv /\ [Next]_vars
          => [stage = "move" /\ issue' = "handoff" => local \subseteq remote]_vars
    BY DEF WInv, Delivered
  <1>2. QED
    BY <1>1, WorkInvariant, PTL DEF Spec, HandedOffWhenDelivered

\* Only the clean-up of an issue found terminal removes commits that were not delivered
\* (removes_after_committed_success, remove_new_workspace).
THEOREM WorkKeptAlways == Spec => WorkKept
  <1> DEFINE Kept == dir' = "none" /\ dir # "none" /\ issue # "closed" => local \subseteq remote
  <1>1. ASSUME WInv, Next PROVE Kept
    <2>1. CASE RunStep
      <3>1. CASE RemoveAfterCommit
        BY <1>1, <3>1 DEF RemoveAfterCommit, WInv, Delivered
      <3>2. CASE BeginRun \/ SetUp
        BY <3>2 DEF BeginRun, CreateWorkspace, SetUp
      <3>3. CASE AgentEnds \/ CheckChanges \/ MoveIssue
        BY <3>3 DEF AgentEnds, CheckChanges, MoveIssue, git
      <3>4. CASE Populate \/ Commit \/ Fetch \/ Rebase \/ Stash
        BY <3>4 DEF Populate, Commit, Fetch, Rebase, Stash, RunGit, GitEffect, git
      <3>5. CASE Unstash \/ CommitAgain \/ RebaseAgain \/ Push
        BY <3>5 DEF Unstash, CommitAgain, RebaseAgain, Push, RunGit, GitEffect, git
      <3>6. QED
        BY <2>1, <3>1, <3>2, <3>3, <3>4, <3>5 DEF RunStep
    <2>2. CASE FailRun
      BY <1>1, <2>2 DEF FailRun, WInv, Delivered, git
    <2>3. CASE OrphanEnds
      BY <2>3 DEF OrphanEnds, GitEffect, git
    <2>4. CASE CleanUpTerminal
      BY <2>4 DEF CleanUpTerminal
    <2>5. CASE AgentEdits \/ LateWrite \/ OthersPush \/ Abort \/ PeopleMove \/ Rest
      BY <2>5 DEF AgentEdits, LateWrite, OthersPush, Abort, PeopleMove, Rest, vars, git
    <2>6. QED
      BY <1>1, <2>1, <2>2, <2>3, <2>4, <2>5 DEF Next
  <1>2. WInv /\ [Next]_vars => [Kept]_vars
    BY <1>1
  <1>3. QED
    BY <1>2, WorkInvariant, PTL DEF Spec, WorkKept

-----------------------------------------------------------------------------
(* The refinement.  HEAD only loses changes with its directory, so what an      *)
(* orphaned push delivers is still in the workspace when it does.               *)

PushedBehind == orphan.op = "push" => orphan.arg \subseteq local

\* No git command takes a change off HEAD.
LEMMA GitKeepsHead ==
  ASSUME WInv, NEW op, NEW arg, GitEffect(op, arg)
  PROVE  local \subseteq local'
  BY DEF GitEffect, WInv, Placed, Cloned

\* A git command does work in the workspace or delivers some of what it holds.
LEMMA GitImplements ==
  ASSUME WInv, NEW op, NEW arg, GitEffect(op, arg), UNCHANGED issue,
         op = "push" => arg \subseteq local
  PROVE  Promise!Work \/ Promise!Deliver
  <1>1. /\ dirty \subseteq Own /\ tracking \subseteq remote
        /\ dir = "empty" => local = {}
    BY DEF WInv, IInv, TypeOK, Placed, Cloned
  <1>2. CASE op = "push"
    BY <1>2 DEF GitEffect, FastForward, Promise!Deliver
  <1>3. CASE op # "push"
    <2>1. UNCHANGED remote
      BY <1>3 DEF GitEffect
    <2>2. local \subseteq local'
      BY GitKeepsHead
    <2>3. local' \subseteq local \cup Own \cup remote
      BY <1>1, <1>3 DEF GitEffect
    <2>4. QED
      BY <2>1, <2>2, <2>3 DEF Promise!Work
  <1>4. QED
    BY <1>2, <1>3

\* So does a command of the run itself, or it leaves everything alone.
LEMMA RunGitImplements ==
  ASSUME WInv, NEW op, RunGit(op) \/ UNCHANGED git, UNCHANGED issue
  PROVE  [Promise!Next]_(Promise!vars)
  <1>1. CASE RunGit(op)
    <2>1. op = "push" => Argument(op) \subseteq local
      BY DEF Argument
    <2>2. Promise!Work \/ Promise!Deliver
      BY <1>1, <2>1, GitImplements DEF RunGit
    <2>3. QED
      BY <2>2 DEF Promise!Next
  <1>2. CASE UNCHANGED git
    BY <1>2 DEF git, Promise!vars
  <1>3. QED
    BY <1>1, <1>2

\* A workspace goes with its work delivered, or with an issue found closed.
LEMMA RemovalImplements ==
  ASSUME RemoveWorkspace, UNCHANGED issue, local \subseteq remote \/ issue = "closed"
  PROVE  [Promise!Next]_(Promise!vars)
  BY DEF RemoveWorkspace, Promise!Next, Promise!GiveUp

\* Every step of a run is one of the abstract specification or leaves its state alone.
LEMMA RunStepImplements ==
  ASSUME WInv, RunStep
  PROVE  [Promise!Next]_(Promise!vars)
  <1>1. CASE BeginRun \/ SetUp
    BY <1>1 DEF BeginRun, SetUp, Promise!vars
  <1>2. CASE AgentEnds \/ CheckChanges
    BY <1>2 DEF AgentEnds, CheckChanges, git, Promise!vars
  <1>3. CASE Populate
    <2>1. RunGit("populate") /\ UNCHANGED issue
      BY <1>3 DEF Populate
    <2>2. QED
      BY <2>1, RunGitImplements
  <1>4. CASE Commit
    <2>1. (RunGit("commit") \/ UNCHANGED git) /\ UNCHANGED issue
      BY <1>4 DEF Commit
    <2>2. QED
      BY <2>1, RunGitImplements
  <1>5. CASE Fetch
    <2>1. RunGit("fetch") /\ UNCHANGED issue
      BY <1>5 DEF Fetch
    <2>2. QED
      BY <2>1, RunGitImplements
  <1>6. CASE Rebase \/ RebaseAgain
    <2>1. (RunGit("rebase") \/ RunGit("rebase_again") \/ UNCHANGED git) /\ UNCHANGED issue
      BY <1>6 DEF Rebase, RebaseAgain
    <2>2. QED
      BY <2>1, RunGitImplements
  <1>7. CASE Stash \/ Unstash
    <2>1. (RunGit("stash") \/ RunGit("unstash") \/ UNCHANGED git) /\ UNCHANGED issue
      BY <1>7 DEF Stash, Unstash
    <2>2. QED
      BY <2>1, RunGitImplements
  <1>8. CASE CommitAgain
    <2>1. (RunGit("recommit") \/ UNCHANGED git) /\ UNCHANGED issue
      BY <1>8 DEF CommitAgain
    <2>2. QED
      BY <2>1, RunGitImplements
  <1>9. CASE Push
    <2>1. (RunGit("push") \/ UNCHANGED git) /\ UNCHANGED issue
      BY <1>9 DEF Push
    <2>2. QED
      BY <2>1, RunGitImplements
  <1>10. CASE MoveIssue
    <2>1. local \subseteq remote
      BY <1>10 DEF MoveIssue, WInv, Delivered
    <2>2. Promise!HandOff
      BY <1>10, <2>1 DEF MoveIssue, git, Promise!HandOff
    <2>3. QED
      BY <2>2 DEF Promise!Next
  <1>11. CASE RemoveAfterCommit
    <2>1. local \subseteq remote /\ UNCHANGED issue
      BY <1>11 DEF RemoveAfterCommit, WInv, Delivered
    <2>2. CASE RemoveWorkspace
      BY <2>1, <2>2, RemovalImplements
    <2>3. CASE UNCHANGED <<git, orphan>>
      BY <2>1, <2>3 DEF git, Promise!vars
    <2>4. QED
      BY <1>11, <2>2, <2>3 DEF RemoveAfterCommit
  <1>12. QED
    BY <1>1, <1>2, <1>3, <1>4, <1>5, <1>6, <1>7, <1>8, <1>9, <1>10, <1>11 DEF RunStep

\* So is every step of the agent, of people, of failures and of what is left running.
LEMMA OtherStepsImplement ==
  ASSUME WInv, PushedBehind, Next, ~RunStep
  PROVE  [Promise!Next]_(Promise!vars)
  <1>1. CASE AgentEdits
    <2>1. made + 1 \in Own
      BY <1>1, DeliveryAssumption DEF AgentEdits, WInv, IInv, TypeOK, Own
    <2>2. local \subseteq local' /\ local' \subseteq local \cup Own
      BY <1>1, <2>1 DEF AgentEdits
    <2>3. Promise!Work
      BY <1>1, <2>2 DEF AgentEdits, Promise!Work
    <2>4. QED
      BY <2>3 DEF Promise!Next
  <1>2. CASE FailRun
    <2>1. CASE stage \in {"populate", "set_up"}
      <3>1. RemoveWorkspace /\ UNCHANGED issue /\ local \subseteq remote
        BY <1>2, <2>1 DEF FailRun, WInv, Delivered
      <3>2. QED
        BY <3>1, RemovalImplements
    <2>2. CASE stage \notin {"populate", "set_up"}
      BY <1>2, <2>2 DEF FailRun, git, Promise!vars
    <2>3. QED
      BY <2>1, <2>2
  <1>3. CASE Abort \/ Rest
    BY <1>3 DEF Abort, Rest, vars, git, Promise!vars
  <1>4. CASE OrphanEnds
    <2>1. CASE GitEffect(orphan.op, orphan.arg)
      <3>1. Promise!Work \/ Promise!Deliver
        BY <1>4, <2>1, GitImplements DEF OrphanEnds, PushedBehind
      <3>2. QED
        BY <3>1 DEF Promise!Next
    <2>2. CASE UNCHANGED git
      BY <1>4, <2>2 DEF OrphanEnds, git, Promise!vars
    <2>3. QED
      BY <1>4, <2>1, <2>2 DEF OrphanEnds
  <1>5. CASE LateWrite
    BY <1>5 DEF LateWrite, Promise!vars
  <1>6. CASE OthersPush
    <2>1. Promise!OthersPush
      BY <1>6 DEF OthersPush, Promise!OthersPush
    <2>2. QED
      BY <2>1 DEF Promise!Next
  <1>7. CASE PeopleMove
    <2>1. Promise!PeopleMove
      BY <1>7 DEF PeopleMove, git, Promise!PeopleMove
    <2>2. QED
      BY <2>1 DEF Promise!Next
  <1>8. CASE CleanUpTerminal
    <2>1. RemoveWorkspace /\ UNCHANGED issue /\ issue = "closed"
      BY <1>8 DEF CleanUpTerminal
    <2>2. QED
      BY <2>1, RemovalImplements
  <1>9. QED
    BY <1>1, <1>2, <1>3, <1>4, <1>5, <1>6, <1>7, <1>8 DEF Next

\* A step of a run leaves what was aborted alone, and HEAD whole, unless it removes both.
LEMMA RunStepKeepsPushed ==
  ASSUME WInv, PushedBehind, RunStep
  PROVE  PushedBehind'
  <1>1. ASSUME UNCHANGED orphan, NEW op, RunGit(op) \/ UNCHANGED git
        PROVE  PushedBehind'
    <2>1. local \subseteq local'
      BY <1>1, GitKeepsHead DEF RunGit, git
    <2>2. QED
      BY <1>1, <2>1 DEF PushedBehind
  <1>2. CASE BeginRun \/ SetUp \/ AgentEnds
    BY <1>2 DEF BeginRun, SetUp, AgentEnds, git, PushedBehind
  <1>3. CASE CheckChanges \/ MoveIssue
    BY <1>3 DEF CheckChanges, MoveIssue, git, PushedBehind
  <1>4. CASE Populate \/ Commit \/ Fetch
    BY <1>1, <1>4 DEF Populate, Commit, Fetch
  <1>5. CASE Rebase \/ Stash \/ Unstash
    BY <1>1, <1>5 DEF Rebase, Stash, Unstash
  <1>6. CASE CommitAgain \/ RebaseAgain \/ Push
    BY <1>1, <1>6 DEF CommitAgain, RebaseAgain, Push
  <1>7. CASE RemoveAfterCommit
    BY <1>7 DEF RemoveAfterCommit, RemoveWorkspace, NoOrphan, git, PushedBehind
  <1>8. QED
    BY <1>2, <1>3, <1>4, <1>5, <1>6, <1>7 DEF RunStep

LEMMA OtherStepsKeepPushed ==
  ASSUME WInv, PushedBehind, Next, ~RunStep
  PROVE  PushedBehind'
  <1>1. CASE AgentEdits
    BY <1>1 DEF AgentEdits, PushedBehind
  <1>2. CASE FailRun \/ CleanUpTerminal
    BY <1>2 DEF FailRun, CleanUpTerminal, RemoveWorkspace, NoOrphan, git, PushedBehind
  <1>3. CASE Abort
    BY <1>3 DEF Abort, Argument, git, PushedBehind
  <1>4. CASE OrphanEnds
    BY <1>4 DEF OrphanEnds, NoOrphan, PushedBehind
  <1>5. CASE LateWrite \/ OthersPush
    BY <1>5 DEF LateWrite, OthersPush, PushedBehind
  <1>6. CASE PeopleMove \/ Rest
    BY <1>6 DEF PeopleMove, Rest, vars, git, PushedBehind
  <1>7. QED
    BY <1>1, <1>2, <1>3, <1>4, <1>5, <1>6 DEF Next

\* For any number of changes, failures, aborts, orphaned commands and pushes of other
\* people, a run on a workspace implements the abstract hand-off
\* (complete_issue_by_direct_commit).
THEOREM ImplementsHandoffAlways == Spec => ImplementsHandoff
  <1>1. Init => Promise!Init /\ PushedBehind
    BY DEF Init, Promise!Init, NoOrphan, PushedBehind
  <1>2. WInv /\ PushedBehind /\ [Next]_vars => PushedBehind'
    <2>1. CASE UNCHANGED vars
      BY <2>1 DEF vars, git, PushedBehind
    <2>2. QED
      BY <2>1, RunStepKeepsPushed, OtherStepsKeepPushed
  <1>3. WInv /\ PushedBehind /\ [Next]_vars => [Promise!Next]_(Promise!vars)
    <2>1. CASE UNCHANGED vars
      BY <2>1 DEF vars, git, Promise!vars
    <2>2. QED
      BY <2>1, RunStepImplements, OtherStepsImplement
  <1>4. QED
    BY <1>1, <1>2, <1>3, WorkInvariant, PTL DEF Spec, ImplementsHandoff, Promise!Spec

=============================================================================

------------------------- MODULE WorkspacesProofs --------------------------
(***************************************************************************)
(* For every set of targets and every number of failures, hangs, aborts    *)
(* and crashes: the variables keep their types, a directory is set up at   *)
(* most once in its life, agents only work in prepared directories, and no *)
(* run removes a directory that it reuses.                                 *)
(*                                                                         *)
(* The second half is about the hooks that run in these directories, the   *)
(* instance Hook of HookRun: a hook returns only once its shell is gone,   *)
(* and the process group of an aborted hook has been killed.               *)
(***************************************************************************)
EXTENDS Workspaces, TLAPS

\* A directory is half prepared only while the run that created it is at it, or after
\* something was cut short.
HalfPreparedInHand ==
    \A t \in Places : dir[t] \in {"empty", "populated"} =>
        \/ t \in cut
        \/ at = t /\ created /\ stage \in {"populate", "after_create", "before_remove", "remove"}

\* What a run knows of its directory at each of its steps.
PreparedInOrder ==
    /\ stage = "after_create" => created /\ (dir[at] # "empty" \/ at \in cut)
    /\ stage = "populate" /\ created => setups[at] = 0
    /\ stage \in {"before_remove", "remove"} => created \/ outcome # "failed"

IInv == TypeOK /\ AgentInPrepared /\ SetUpOnce /\ HalfPreparedInHand /\ PreparedInOrder

LEMMA InitEstablishes == Init => IInv
  <1> SUFFICES ASSUME Init PROVE IInv
    OBVIOUS
  <1>1. dir \in [Places -> {"none", "empty", "populated", "ready"}] /\ setups \in [Places -> Nat]
    BY DEF Init
  <1>2. keeper \in [step: {"idle", "before_remove", "remove"}, at: Places,
                   why: {"none", "terminal", "startup"}]
    BY DEF Init, NoRemoval, Places
  <1>3. stage \in Stages /\ at \in Places /\ disturbances \in 0..MaxDisturbances
    BY WorkspacesAssumption DEF Init, Places, Stages
  <1>4. TypeOK
    BY <1>1, <1>2, <1>3 DEF Init, TypeOK, NoRemoval
  <1>5. QED
    BY <1>4 DEF Init, IInv, AgentInPrepared, SetUpOnce, HalfPreparedInHand, PreparedInOrder

-----------------------------------------------------------------------------
(* Types: one lemma for each group of actions. *)

LEMMA TypeOfRun ==
  ASSUME TypeOK, BeginRun \/ Create \/ CannotWork \/ StepFails \/ MarkStartedFails \/ AnswerLost
                 \/ TimeOut \/ AgentEnds \/ Step
  PROVE  TypeOK'
  <1> USE WorkspacesAssumption DEF Places, Stages, Steps, Hooks
  <1>1. CASE BeginRun
    BY <1>1 DEF TypeOK, BeginRun, NoRemoval, histories
  <1>2. CASE Create
    BY <1>2 DEF TypeOK, Create, Put, NoRemoval, histories
  <1>3. CASE CannotWork
    BY <1>3 DEF TypeOK, CannotWork, FollowFailure, End, GoOn, Undo, FailReused, MayWork,
                NoRemoval, histories
  <1>4. CASE StepFails
    BY <1>4 DEF TypeOK, StepFails, Disturb, FollowFailure, End, GoOn, Undo, FailReused,
                NoRemoval, histories
  <1>5. CASE MarkStartedFails
    BY <1>5 DEF TypeOK, MarkStartedFails, Disturb, End, NoRemoval, histories
  <1>6. CASE AnswerLost
    BY <1>6 DEF TypeOK, AnswerLost, Disturb, FollowFailure, End, GoOn, Undo, FailReused,
                NoRemoval, histories
  <1>7. CASE TimeOut
    BY <1>7 DEF TypeOK, TimeOut, FollowFailure, End, GoOn, Undo, FailReused, NoRemoval, histories
  <1>8. CASE AgentEnds
    BY <1>8 DEF TypeOK, AgentEnds, NoRemoval, histories
  <1>9. CASE Step
    BY <1>9 DEF TypeOK, Step, Does, Put, LeftAfter, Follow, SetsUp, End, GoOn, NoRemoval, histories
  <1>10. QED
    BY <1>1, <1>2, <1>3, <1>4, <1>5, <1>6, <1>7, <1>8, <1>9

LEMMA TypeOfService ==
  ASSUME TypeOK, Hang \/ Abort \/ AbortStalled \/ Crash \/ LeftoverEnds \/ CancelTerminal
                 \/ HandleTerminal \/ Restart \/ KeeperHookEnds \/ KeeperRemoves \/ PeopleMove
  PROVE  TypeOK'
  <1> USE WorkspacesAssumption DEF Places, Stages, Steps, Hooks
  <1>1. CASE Hang
    <2>1. /\ hung' \subseteq {"run", "keeper"}
          /\ "run" \in hung' => stage \in Hooks
          /\ "keeper" \in hung' => keeper.step = "before_remove"
      BY <1>1 DEF TypeOK, Hang
    <2>2. disturbances' \in 0..MaxDisturbances
      BY <1>1 DEF TypeOK, Hang, Disturb
    <2>3. UNCHANGED <<dir, stage, at, created, outcome, keeper, leftover, issue, up, setups, cut>>
      BY <1>1 DEF Hang, run, histories
    <2>4. QED
      BY <2>1, <2>2, <2>3 DEF TypeOK, NoRemoval
  <1>2. CASE Abort
    BY <1>2 DEF TypeOK, Abort, Disturb, Abortable, Drop, End, Outlives, CutsShort, NoRemoval
  <1>3. CASE AbortStalled
    BY <1>3 DEF TypeOK, AbortStalled, Drop, End, Outlives, CutsShort, NoRemoval
  <1>4. CASE Crash
    <2>1. dir' \in [Places -> {"none", "empty", "populated", "ready"}]
      BY <1>4 DEF TypeOK, Crash, Put
    <2>2. cut' \subseteq Places
      BY <1>4 DEF TypeOK, Crash, CutsShort, NoRemoval
    <2>3. leftover' \subseteq [step: Steps, at: Places]
      BY <1>4 DEF TypeOK, Crash, Outlives, NoRemoval
    <2>4. disturbances' \in 0..MaxDisturbances
      BY <1>4 DEF TypeOK, Crash, Disturb
    <2>5. keeper' = NoRemoval /\ up' = FALSE /\ hung' = {} /\ stage' = "idle" /\ outcome' = "aborted"
          /\ UNCHANGED <<at, created, issue, setups>>
      BY <1>4 DEF Crash, End
    <2>6. QED
      BY <2>1, <2>2, <2>3, <2>4, <2>5 DEF TypeOK, NoRemoval
  <1>5. CASE LeftoverEnds
    <2>1. PICK c \in leftover :
             /\ \/ Does(c.step, c.at) /\ UNCHANGED histories
                \/ Put(c.at, "empty") /\ setups' = [setups EXCEPT ![c.at] = 0]
                   /\ cut' = cut \cup {c.at}
                \/ UNCHANGED <<dir, histories>>
             /\ leftover' = LeftAfter(c.step, c.at) \ {c}
      BY <1>5 DEF LeftoverEnds
    <2>2. c.at \in Places
      BY DEF TypeOK
    <2>3. dir' \in [Places -> {"none", "empty", "populated", "ready"}]
      BY <2>1, <2>2 DEF TypeOK, Does, Put
    <2>4. setups' \in [Places -> Nat] /\ cut' \subseteq Places
      BY <2>1, <2>2 DEF TypeOK, histories
    <2>5. leftover' \subseteq [step: Steps, at: Places]
      BY <2>1 DEF TypeOK, LeftAfter
    <2>6. UNCHANGED <<run, keeper, hung, issue, up, disturbances>>
      BY <1>5 DEF LeftoverEnds
    <2>7. QED
      BY <2>3, <2>4, <2>5, <2>6 DEF TypeOK, run, NoRemoval
  <1>6. CASE CancelTerminal
    BY <1>6 DEF TypeOK, CancelTerminal, Abortable, Drop, End, Outlives, CutsShort, BeginRemoval,
                NoRemoval
  <1>7. CASE HandleTerminal
    BY <1>7 DEF TypeOK, HandleTerminal, BeginRemoval, histories, NoRemoval
  <1>8. CASE Restart
    BY <1>8 DEF TypeOK, Restart, Disturb, BeginRemoval, run, histories, NoRemoval
  <1>9. CASE KeeperHookEnds
    BY <1>9 DEF TypeOK, KeeperHookEnds, run, histories, NoRemoval
  <1>10. CASE KeeperRemoves
    BY <1>10 DEF TypeOK, KeeperRemoves, Does, Put, LeftAfter, Disturb, run, histories, NoRemoval
  <1>11. CASE PeopleMove
    BY <1>11 DEF TypeOK, PeopleMove, Disturb, run, histories, NoRemoval
  <1>12. QED
    BY <1>1, <1>2, <1>3, <1>4, <1>5, <1>6, <1>7, <1>8, <1>9, <1>10, <1>11

-----------------------------------------------------------------------------
(* What is known of the directories, one case for each action. *)

\* The steps of a run.
LEMMA RunPreserves ==
  ASSUME IInv, BeginRun \/ Create \/ CannotWork \/ StepFails \/ MarkStartedFails \/ AnswerLost
               \/ TimeOut \/ AgentEnds \/ Step
  PROVE  AgentInPrepared' /\ SetUpOnce' /\ HalfPreparedInHand' /\ PreparedInOrder'
  <1> USE DEF IInv, TypeOK, AgentInPrepared, SetUpOnce, HalfPreparedInHand, PreparedInOrder,
              Places, Stages, Steps, Hooks
  <1>1. CASE BeginRun
    BY <1>1 DEF BeginRun, NoRemoval, histories
  <1>2. CASE Create
    <2>1. CASE dir[at] = "none"
      <3>1. /\ dir' = [dir EXCEPT ![at] = "empty"] /\ setups' = [setups EXCEPT ![at] = 0]
            /\ cut' = cut \ {at} /\ created' = TRUE /\ stage' = "populate"
            /\ UNCHANGED <<at, outcome>>
        BY <1>2, <2>1 DEF Create, Put
      <3>2. HalfPreparedInHand'
        BY <3>1, <1>2 DEF Create
      <3>3. SetUpOnce' /\ PreparedInOrder' /\ AgentInPrepared'
        BY <3>1
      <3>4. QED
        BY <3>2, <3>3
    <2>2. CASE dir[at] # "none"
      BY <1>2, <2>2 DEF Create, histories
    <2>3. QED
      BY <2>1, <2>2
  <1>3. CASE CannotWork
    BY <1>3 DEF CannotWork, MayWork, FollowFailure, End, GoOn, Undo, FailReused, histories
  <1>4. CASE StepFails
    BY <1>4 DEF StepFails, FollowFailure, End, GoOn, Undo, FailReused
  <1>5. CASE MarkStartedFails
    BY <1>5 DEF MarkStartedFails, End, histories
  <1>6. CASE AnswerLost
    BY <1>6 DEF AnswerLost, FollowFailure, End, GoOn, Undo, FailReused
  <1>7. CASE TimeOut
    BY <1>7 DEF TimeOut, FollowFailure, End, GoOn, Undo, FailReused, histories
  <1>8. CASE AgentEnds
    BY <1>8 DEF AgentEnds, histories
  <1>9. CASE Step
    BY <1>9 DEF Step, MayWork, Does, Put, Follow, SetsUp, End, GoOn
  <1>10. QED
    BY <1>1, <1>2, <1>3, <1>4, <1>5, <1>6, <1>7, <1>8, <1>9

\* The steps of the service, of commands left over and of people.
LEMMA ServicePreserves ==
  ASSUME IInv, Hang \/ Abort \/ AbortStalled \/ Crash \/ LeftoverEnds \/ CancelTerminal
               \/ HandleTerminal \/ Restart \/ KeeperHookEnds \/ KeeperRemoves \/ PeopleMove
  PROVE  AgentInPrepared' /\ SetUpOnce' /\ HalfPreparedInHand' /\ PreparedInOrder'
  <1> USE DEF IInv, TypeOK, AgentInPrepared, SetUpOnce, HalfPreparedInHand, PreparedInOrder,
              Places, Stages, Steps, Hooks
  <1>1. CASE Hang
    BY <1>1 DEF Hang, run, histories
  <1>2. CASE Abort
    BY <1>2 DEF Abort, Abortable, Drop, End, CutsShort
  <1>3. CASE AbortStalled
    BY <1>3 DEF AbortStalled, Drop, End, CutsShort
  <1>4. CASE Crash
    BY <1>4 DEF Crash, Put, End, CutsShort
  <1>5. CASE LeftoverEnds
    BY <1>5 DEF LeftoverEnds, Does, Put, run, histories
  <1>6. CASE CancelTerminal
    BY <1>6 DEF CancelTerminal, Abortable, Drop, End, CutsShort
  <1>7. CASE HandleTerminal
    BY <1>7 DEF HandleTerminal, histories
  <1>8. CASE Restart
    BY <1>8 DEF Restart, run, histories
  <1>9. CASE KeeperHookEnds
    BY <1>9 DEF KeeperHookEnds, run, histories
  <1>10. CASE KeeperRemoves
    BY <1>10 DEF KeeperRemoves, Does, Put, run, histories
  <1>11. CASE PeopleMove
    BY <1>11 DEF PeopleMove, run, histories
  <1>12. QED
    BY <1>1, <1>2, <1>3, <1>4, <1>5, <1>6, <1>7, <1>8, <1>9, <1>10, <1>11

LEMMA StutterPreserves == ASSUME IInv, UNCHANGED vars PROVE IInv'
  <1>1. UNCHANGED <<dir, stage, at, created, outcome, keeper, hung, leftover, issue, up,
                    setups, cut, disturbances>>
    BY DEF vars, run, histories
  <1>2. TypeOK'
    BY <1>1 DEF IInv, TypeOK
  <1>3. AgentInPrepared' /\ SetUpOnce'
    BY <1>1 DEF IInv, AgentInPrepared, SetUpOnce
  <1>4. HalfPreparedInHand' /\ PreparedInOrder'
    BY <1>1 DEF IInv, HalfPreparedInHand, PreparedInOrder
  <1>5. QED
    BY <1>2, <1>3, <1>4 DEF IInv

LEMMA NextPreserves == IInv /\ [Next]_vars => IInv'
  <1> SUFFICES ASSUME IInv, [Next]_vars PROVE IInv'
    OBVIOUS
  <1>1. CASE Next
    <2>1. CASE \/ BeginRun \/ Create \/ CannotWork \/ StepFails \/ MarkStartedFails \/ AnswerLost
               \/ TimeOut \/ AgentEnds \/ Step
      BY <2>1, TypeOfRun, RunPreserves DEF IInv
    <2>2. CASE \/ Hang \/ Abort \/ AbortStalled \/ Crash \/ LeftoverEnds \/ CancelTerminal
               \/ HandleTerminal \/ Restart \/ KeeperHookEnds \/ KeeperRemoves \/ PeopleMove
      BY <2>2, TypeOfService, ServicePreserves DEF IInv
    <2>3. CASE Rest
      BY <2>3, StutterPreserves DEF Rest
    <2>4. QED
      BY <1>1, <2>1, <2>2, <2>3 DEF Next, Progress
  <1>2. CASE UNCHANGED vars
    BY <1>2, StutterPreserves
  <1>3. QED
    BY <1>1, <1>2

LEMMA Inductive == Spec => []IInv
  BY InitEstablishes, NextPreserves, PTL DEF Spec

\* Every variable keeps its type (src/workspace.rs, src/agent/runner.rs, src/service.rs).
THEOREM TypeCorrect == Spec => []TypeOK
  <1>1. IInv => TypeOK
    BY DEF IInv
  <1>2. QED
    BY <1>1, Inductive, PTL

\* An agent only works in a directory that was populated and set up, unless its
\* preparation or removal was cut short (create_for_target and its clean-up).
THEOREM AgentInPreparedAlways == Spec => []AgentInPrepared
  <1>1. IInv => AgentInPrepared
    BY DEF IInv
  <1>2. QED
    BY <1>1, Inductive, PTL

\* after_create runs at most once in the life of a directory, whatever is repeated,
\* aborted or lost (create_local_for_source_identifier).
THEOREM SetUpOnceAlways == Spec => []SetUpOnce
  <1>1. IInv => SetUpOnce
    BY DEF IInv
  <1>2. QED
    BY <1>1, Inductive, PTL

\* No step of a run removes a directory that it reuses (create_local_for_source_identifier).
LEMMA NextKeepsReused ==
  ASSUME IInv, [Next]_vars, NEW t \in Places, dir[t] # "none", dir'[t] = "none"
  PROVE  \/ keeper.at = t /\ keeper.step = "remove"
         \/ [step |-> "remove", at |-> t] \in leftover
         \/ at = t /\ (created \/ outcome # "failed")
  <1> USE DEF IInv, TypeOK, PreparedInOrder, Places
  <1>1. CASE Create
    BY <1>1 DEF Create, Put
  <1>2. CASE Step
    BY <1>2 DEF Step, Does, Put
  <1>3. CASE Crash
    BY <1>3 DEF Crash, Put
  <1>4. CASE LeftoverEnds
    BY <1>4 DEF LeftoverEnds, Does, Put
  <1>5. CASE KeeperRemoves
    BY <1>5 DEF KeeperRemoves, Does, Put
  <1>6. CASE UNCHANGED dir
    BY <1>6
  <1>7. QED
    BY <1>1, <1>2, <1>3, <1>4, <1>5, <1>6
    DEF Next, Progress, Rest, vars, BeginRun, CannotWork, StepFails, MarkStartedFails,
        AnswerLost, TimeOut, AgentEnds, Hang, Abort, AbortStalled, CancelTerminal,
        HandleTerminal, Restart, KeeperHookEnds, PeopleMove

\* For every bound and every set of targets, a workspace that is reused survives its
\* runs (SPEC.md:921).
THEOREM ReusedKeptAlways == Spec => ReusedKept
  <1>1. IInv /\ [Next]_vars =>
          [\A t \in Places : dir[t] # "none" /\ dir'[t] = "none" =>
             \/ keeper.at = t /\ keeper.step = "remove"
             \/ [step |-> "remove", at |-> t] \in leftover
             \/ at = t /\ (created \/ outcome # "failed")]_vars
    BY NextKeepsReused
  <1>2. QED
    BY <1>1, Inductive, PTL DEF Spec, ReusedKept

-----------------------------------------------------------------------------
(* The local machine. *)

\* A local run finds its directory until its last hook, and no command it left behind
\* removes one: local removals do not await anything.
LocalKept ==
    /\ at = Local /\ keeper.at = Local /\ leftover \subseteq [step: {"populate"}, at: {Local}]
    /\ stage \in {"populate", "after_create", "before_run", "agent"} => dir[Local] # "none"

LEMMA LocalStays ==
  ASSUME Targets \subseteq {Local}, TypeOK, LocalKept, [Next]_vars
  PROVE  LocalKept'
  <1> USE DEF LocalKept, TypeOK
  <1>1. Places = {Local}
    BY DEF Places
  <1>2. CASE BeginRun
    BY <1>2 DEF BeginRun
  <1>3. CASE Create
    BY <1>1, <1>3 DEF Create, Put
  <1>4. CASE Step
    BY <1>1, <1>4 DEF Step, MayWork, Does, Put, LeftAfter, Follow, GoOn, End
  <1>5. CASE CannotWork \/ StepFails \/ TimeOut
    BY <1>5 DEF CannotWork, StepFails, TimeOut, FollowFailure, GoOn, End, Undo, FailReused
  <1>6. CASE MarkStartedFails \/ AnswerLost \/ AgentEnds
    BY <1>6 DEF MarkStartedFails, AnswerLost, AgentEnds, End
  <1>7. CASE Hang \/ PeopleMove \/ Restart \/ KeeperHookEnds \/ HandleTerminal
    BY <1>7 DEF Hang, PeopleMove, Restart, KeeperHookEnds, HandleTerminal, BeginRemoval, run, NoRemoval
  <1>8. CASE Abort \/ AbortStalled \/ CancelTerminal
    BY <1>8 DEF Abort, AbortStalled, CancelTerminal, Drop, End, Outlives, BeginRemoval
  <1>9. CASE Crash
    BY <1>9 DEF Crash, End, Outlives, NoRemoval
  <1>10. CASE LeftoverEnds
    BY <1>1, <1>10 DEF LeftoverEnds, Does, Put, LeftAfter, run
  <1>11. CASE KeeperRemoves
    BY <1>11 DEF KeeperRemoves, Does, Put, LeftAfter, run, NoRemoval
  <1>12. CASE Rest \/ UNCHANGED vars
    BY <1>12 DEF Rest, vars, run
  <1>13. QED
    BY <1>2, <1>3, <1>4, <1>5, <1>6, <1>7, <1>8, <1>9, <1>10, <1>11, <1>12 DEF Next, Progress

\* On the local machine the directory of an agent stays while it works, whatever was aborted,
\* failed or crashed before: over ssh the removal of an aborted run may still go on.
THEOREM AgentUndisturbedLocally == Targets \subseteq {Local} => (Spec => []AgentUndisturbed)
  <1> SUFFICES ASSUME Targets \subseteq {Local} PROVE Spec => []AgentUndisturbed
    OBVIOUS
  <1>1. Init => LocalKept
    BY DEF Init, LocalKept, NoRemoval
  <1>2. TypeOK /\ LocalKept /\ [Next]_vars => LocalKept'
    BY LocalStays
  <1>3. LocalKept => AgentUndisturbed
    BY DEF LocalKept, AgentUndisturbed
  <1>4. QED
    BY <1>1, <1>2, <1>3, TypeCorrect, PTL DEF Spec

-----------------------------------------------------------------------------
(* The processes of a hook: the theorems about HookRun. *)

CONSTANTS Descendants, Stubborn

VARIABLES hook_stage, alive, dying, asked, writers, code, finished, result

Hook == INSTANCE HookRun WITH stage <- hook_stage

HookParameters == Hook!Leader \notin Descendants /\ Stubborn \subseteq Hook!Processes

\* The steps after the wait follow a wait that ended, or one that was given up.
WaitedFor ==
    /\ hook_stage \in {"draining", "returned"} => finished \/ result = "timeout_uncleaned"
    /\ hook_stage \in {"waiting", "grace", "killing"} => ~finished /\ result = "none"

\* Once the task of a hook is aborted before its shell has ended, every process left in
\* the group has been killed, and none is left that could start another.
AbortedGroupDying == hook_stage = "dropped" /\ ~finished => alive = {}

HInv == Hook!TypeOK /\ WaitedFor /\ AbortedGroupDying

LEMMA HookInit == HookParameters /\ Hook!Init => HInv
  BY DEF HookParameters, Hook!Init, HInv, Hook!TypeOK, WaitedFor, AbortedGroupDying,
     Hook!Running, Hook!Processes, Hook!Leader

\* A process that starts or ends, whatever the hook is at.
LEMMA ProcessSteps ==
  ASSUME HookParameters, HInv, NEW p \in Hook!Processes,
         Hook!Fork(p) \/ Hook!Exit(p) \/ Hook!DieOfTerm(p) \/ Hook!DieOfKill(p)
  PROVE  HInv'
  <1>1. Hook!TypeOK /\ WaitedFor /\ AbortedGroupDying
    BY DEF HInv
  <1>2. CASE Hook!Fork(p)
    <2>1. p # Hook!Leader
      BY <1>2 DEF Hook!Fork, HookParameters
    <2>2. Hook!TypeOK'
      BY <1>1, <1>2, <2>1 DEF Hook!Fork, Hook!TypeOK, Hook!Running
    <2>3. QED
      BY <1>1, <1>2, <2>2 DEF Hook!Fork, HInv, WaitedFor, AbortedGroupDying
  <1>3. ASSUME NEW c \in {"success", "failure"}, Hook!Leaves(p, c), p \in Hook!Running
        PROVE  HInv'
    <2>1. Hook!TypeOK'
      BY <1>1, <1>3 DEF Hook!Leaves, Hook!TypeOK, Hook!Running
    <2>2. QED
      BY <1>1, <1>3, <2>1 DEF Hook!Leaves, HInv, WaitedFor, AbortedGroupDying
  <1>4. CASE Hook!Exit(p) \/ Hook!DieOfTerm(p) \/ Hook!DieOfKill(p)
    <2>1. p \in Hook!Running /\ \E c \in {"success", "failure"} : Hook!Leaves(p, c)
      BY <1>1, <1>4 DEF Hook!Exit, Hook!DieOfTerm, Hook!DieOfKill, Hook!Running, Hook!TypeOK
    <2>2. QED
      BY <1>3, <2>1
  <1>5. QED
    BY <1>2, <1>4

\* A step of run_hook, or the end of the task that runs it.
LEMMA HookSteps ==
  ASSUME HookParameters, HInv, Hook!Hook \/ Hook!Abort
  PROVE  HInv'
  <1>1. Hook!TypeOK /\ WaitedFor /\ AbortedGroupDying
    BY DEF HInv
  <1>2. CASE Hook!Reap
    <2>1. Hook!TypeOK'
      BY <1>1, <1>2 DEF Hook!Reap, Hook!TypeOK, Hook!Running, Hook!processes
    <2>2. QED
      BY <1>1, <1>2, <2>1 DEF Hook!Reap, HInv, WaitedFor, AbortedGroupDying, Hook!processes
  <1>3. CASE Hook!TimeOut
    <2>1. Hook!TypeOK'
      BY <1>1, <1>3 DEF Hook!TimeOut, Hook!Signal, Hook!TypeOK, Hook!Running
    <2>2. QED
      BY <1>1, <1>3, <2>1 DEF Hook!TimeOut, HInv, WaitedFor, AbortedGroupDying
  <1>4. CASE Hook!GraceExpires
    <2>1. Hook!TypeOK'
      BY <1>1, <1>4 DEF Hook!GraceExpires, Hook!KillGroup, Hook!TypeOK, Hook!Running
    <2>2. QED
      BY <1>1, <1>4, <2>1 DEF Hook!GraceExpires, HInv, WaitedFor, AbortedGroupDying
  <1>5. CASE Hook!ReapExpires
    <2>1. Hook!TypeOK'
      BY <1>1, <1>5 DEF Hook!ReapExpires, Hook!TypeOK, Hook!Running, Hook!processes
    <2>2. QED
      BY <1>1, <1>5, <2>1 DEF Hook!ReapExpires, HInv, WaitedFor, AbortedGroupDying, Hook!processes
  <1>6. CASE Hook!Drain \/ Hook!Abort
    <2>1. CASE UNCHANGED Hook!processes /\ finished
      <3>1. Hook!TypeOK'
        BY <1>1, <1>6, <2>1
        DEF Hook!Drain, Hook!Abort, Hook!Drop, Hook!TypeOK, Hook!Running, Hook!processes
      <3>2. QED
        BY <1>1, <1>6, <2>1, <3>1 DEF Hook!Drain, Hook!Abort, HInv, WaitedFor, AbortedGroupDying
    <2>2. CASE Hook!KillGroup /\ ~finished
      <3>1. Hook!TypeOK'
        BY <1>1, <1>6, <2>2 DEF Hook!Drain, Hook!Abort, Hook!KillGroup, Hook!TypeOK, Hook!Running
      <3>2. QED
        BY <1>1, <1>6, <2>2, <3>1
        DEF Hook!Drain, Hook!Abort, Hook!KillGroup, HInv, WaitedFor, AbortedGroupDying
    <2>3. QED
      BY <1>1, <1>6, <2>1, <2>2 DEF Hook!Drain, Hook!Abort, Hook!Drop, Hook!TypeOK
  <1>7. QED
    BY <1>2, <1>3, <1>4, <1>5, <1>6 DEF Hook!Hook

LEMMA HookInductive ==
  ASSUME HookParameters
  PROVE  Hook!Spec => []HInv
  <1>1. ASSUME HInv, [Hook!Next]_(Hook!vars) PROVE HInv'
    <2>1. CASE UNCHANGED Hook!vars
      BY <1>1, <2>1 DEF Hook!vars, Hook!processes, HInv, Hook!TypeOK, Hook!Running, WaitedFor,
         AbortedGroupDying
    <2>2. QED
      BY <1>1, <2>1, ProcessSteps, HookSteps DEF Hook!Next
  <1>2. HInv /\ [Hook!Next]_(Hook!vars) => HInv'
    BY <1>1
  <1>3. Hook!Init => HInv
    BY HookInit
  <1>4. QED
    BY <1>2, <1>3, PTL DEF Hook!Spec

\* When a hook returns its shell is gone, or the result says that it is not, whatever the
\* shell starts and whatever of it ignores SIGTERM (run_hook).
THEOREM LeaderGoneAlways == HookParameters => (Hook!Spec => []Hook!LeaderGone)
  <1> SUFFICES ASSUME HookParameters PROVE Hook!Spec => []Hook!LeaderGone
    OBVIOUS
  <1>1. HInv => Hook!LeaderGone
    BY DEF HInv, WaitedFor, Hook!TypeOK, Hook!LeaderGone
  <1>2. QED
    BY <1>1, HookInductive, PTL

\* Once the task of a hook is aborted before its shell has ended, the whole group has been
\* killed and nothing can start in it any more (ManagedChild::drop): what AbortEndsTree
\* still needs is that the kernel delivers the signal.
THEOREM AbortKillsGroup == HookParameters => (Hook!Spec => []AbortedGroupDying)
  <1> SUFFICES ASSUME HookParameters PROVE Hook!Spec => []AbortedGroupDying
    OBVIOUS
  <1>1. HInv => AbortedGroupDying
    BY DEF HInv
  <1>2. QED
    BY <1>1, HookInductive, PTL

\* A hook succeeds only if its shell was waited for and returned success before the timeout
\* (run_hook).
THEOREM SuccessOnlyInTime == Hook!Spec => Hook!SuccessInTime
  <1>1. [Hook!Next]_(Hook!vars) =>
          [result' = "ok" /\ result # "ok" => hook_stage = "waiting" /\ code = "success"]_(Hook!vars)
    BY DEF Hook!Next, Hook!Fork, Hook!Exit, Hook!DieOfTerm, Hook!DieOfKill, Hook!Leaves, Hook!Hook,
           Hook!Reap, Hook!TimeOut, Hook!GraceExpires, Hook!ReapExpires, Hook!Drain, Hook!Abort
  <1>2. QED
    BY <1>1, PTL DEF Hook!Spec, Hook!SuccessInTime

=============================================================================

------------------------------ MODULE HookRun -------------------------------
(***************************************************************************)
(* One local hook (run_hook, src/hooks.rs): the shell it starts as the     *)
(* leader of a process group (ManagedChild, src/process.rs), what the      *)
(* shell leaves in the background, the timers that end them and the        *)
(* readers of their output.                                                *)
(*                                                                         *)
(* Waiting for the child ends with the leader: the descendants are         *)
(* children of others, and under tini (Dockerfile) never of the service.   *)
(* What a hook prints and how it is redacted is left out.                  *)
(***************************************************************************)
EXTENDS Integers, FiniteSets

CONSTANTS
    Descendants,  \* processes the shell may start in its group
    Stubborn      \* processes that ignore SIGTERM

Leader == "sh"
Processes == Descendants \cup {Leader}

ASSUME HookAssumption == Leader \notin Descendants /\ Stubborn \subseteq Processes

VARIABLES
    stage,      \* where run_hook is
    alive,      \* processes of the group that run
    dying,      \* processes that were sent SIGKILL
    asked,      \* processes that were sent SIGTERM
    writers,    \* processes that hold the output pipes
    code,       \* how the leader exited
    finished,   \* the leader has been waited for
    result      \* what the hook returns

processes == <<alive, dying, asked, writers, code>>
vars == <<stage, processes, finished, result>>

Running == alive \cup dying
Ended == stage \in {"returned", "dropped"}

TypeOK ==
    /\ stage \in {"waiting", "grace", "killing", "draining", "returned", "dropped"}
    /\ alive \subseteq Processes /\ dying \subseteq Processes /\ alive \cap dying = {}
    /\ asked \subseteq alive
    /\ writers \subseteq Running
    /\ code \in {"none", "success", "failure"} /\ (code = "none") = (Leader \in Running)
    /\ finished \in BOOLEAN /\ (finished => Leader \notin Running)
    /\ result \in {"none", "ok", "failed", "timeout", "timeout_uncleaned"}

Init ==
    /\ stage = "waiting"
    /\ alive = {Leader} /\ dying = {} /\ asked = {} /\ writers = {Leader}
    /\ code = "none" /\ finished = FALSE /\ result = "none"

-----------------------------------------------------------------------------
(* Processes. *)

Fork(p) ==
    /\ p \in Descendants \ Running /\ alive # {}
    /\ alive' = alive \cup {p}
    /\ writers' \in {writers, writers \cup {p}}
    /\ UNCHANGED <<stage, dying, asked, code, finished, result>>

Leaves(p, c) ==
    /\ alive' = alive \ {p} /\ dying' = dying \ {p} /\ asked' = asked \ {p}
    /\ writers' = writers \ {p}
    /\ code' = IF p = Leader THEN c ELSE code
    /\ UNCHANGED <<stage, finished, result>>

Exit(p) == p \in alive /\ \E c \in {"success", "failure"} : Leaves(p, c)

\* A shell that handles SIGTERM may still exit with success.
DieOfTerm(p) == p \in asked \ Stubborn /\ \E c \in {"success", "failure"} : Leaves(p, c)

DieOfKill(p) == p \in dying /\ Leaves(p, "failure")

Signal == asked' = alive /\ UNCHANGED <<alive, dying, writers, code>>

KillGroup ==
    /\ dying' = Running /\ alive' = {} /\ asked' = {}
    /\ UNCHANGED <<writers, code>>

-----------------------------------------------------------------------------
(* run_hook. *)

\* The leader is waited for: what it returned counts only before the timeout.
Reap ==
    /\ stage \in {"waiting", "grace", "killing"} /\ Leader \notin Running
    /\ stage' = "draining"
    /\ finished' = TRUE
    /\ result' = IF stage # "waiting" THEN "timeout"
                 ELSE IF code = "success" THEN "ok" ELSE "failed"
    /\ UNCHANGED processes

TimeOut ==
    /\ stage = "waiting" /\ Leader \in Running
    /\ stage' = "grace"
    /\ Signal
    /\ UNCHANGED <<finished, result>>

GraceExpires ==
    /\ stage = "grace" /\ Leader \in Running
    /\ stage' = "killing"
    /\ KillGroup
    /\ UNCHANGED <<finished, result>>

\* A leader that cannot be reaped in time is reported with the timeout.
ReapExpires ==
    /\ stage = "killing" /\ Leader \in Running
    /\ stage' = "draining" /\ result' = "timeout_uncleaned"
    /\ UNCHANGED <<processes, finished>>

\* Mutant: only the leader is killed.
DropKillsLeader ==
    IF finished THEN UNCHANGED processes
    ELSE /\ dying' = dying \cup (alive \cap {Leader}) /\ alive' = alive \ {Leader}
         /\ asked' = asked \ {Leader} /\ UNCHANGED <<writers, code>>

\* A child that was waited for is left alone with all its descendants.
Drop == IF finished THEN UNCHANGED processes ELSE KillGroup

\* Mutant: waits for the output for ever.
DrainToEnd ==
    /\ stage = "draining" /\ writers = {}
    /\ stage' = "returned"
    /\ Drop /\ UNCHANGED <<finished, result>>

\* The readers end with the last writer, or are aborted a little later.
Drain ==
    /\ stage = "draining"
    /\ stage' = "returned"
    /\ Drop /\ UNCHANGED <<finished, result>>

\* The task that runs the hook is aborted: whatever it awaits is dropped.
Abort ==
    /\ ~Ended
    /\ stage' = "dropped"
    /\ Drop /\ UNCHANGED <<finished, result>>

Hook == Reap \/ TimeOut \/ GraceExpires \/ ReapExpires \/ Drain

Next ==
    \/ \E p \in Processes : Fork(p) \/ Exit(p) \/ DieOfTerm(p) \/ DieOfKill(p)
    \/ Hook \/ Abort

Spec == Init /\ [][Next]_vars

\* Timers fire, and the kernel delivers signals. Nothing else is promised of
\* the processes: a hook may run for ever.
FairSpec ==
    /\ Spec
    /\ WF_vars(Hook)
    /\ \A p \in Processes : WF_vars(DieOfTerm(p)) /\ WF_vars(DieOfKill(p))

-----------------------------------------------------------------------------
(* Properties. *)

\* A hook succeeds only if its shell returned success in time: a shell that
\* answers SIGTERM with success has still failed.
SuccessInTime ==
    [][result' = "ok" /\ result # "ok" => stage = "waiting" /\ code = "success"]_vars

\* When a hook returns, its shell is gone, or the result says that it is not.
LeaderGone ==
    stage = "returned" /\ result # "timeout_uncleaned" => Leader \notin Running

\* A hook returns, although its shell may hang or ignore SIGTERM and what it
\* has started may hold on to its output.
HookEnds == <>Ended

\* When the task of a hook is aborted before its shell has ended, every process
\* of the group goes.
AbortEndsTree == stage = "dropped" /\ ~finished ~> Running = {}

\* A hook that timed out leaves no process behind (terminate_tree: "Gracefully
\* end the tree, then forcibly terminate it if the bounded grace wait expires").
TimeoutEndsTree == stage = "returned" /\ result = "timeout" ~> Running = {}
=============================================================================

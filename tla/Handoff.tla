------------------------------ MODULE Handoff ------------------------------
(***************************************************************************)
(* What the direct commit promises of one issue's work, without git,       *)
(* stages, work tree, failures or commands left behind: the base branch    *)
(* only grows, what a workspace holds comes from its own work or from the  *)
(* base branch, and it is handed off, or given up, once the base branch    *)
(* has all of it.  Delivery implements this specification.                 *)
(***************************************************************************)
CONSTANTS
    Own,    \* changes made in the workspace
    Others  \* changes other people push

VARIABLES
    held,  \* changes committed in the workspace
    base,  \* changes on the base branch
    issue  \* what the tracker says of the issue

vars == <<held, base, issue>>

Init == held = {} /\ base = {} /\ issue = "active"

\* The agent and the completion commit, clone or rebase: nothing committed is lost.
Work ==
    /\ held \subseteq held' /\ held' \subseteq held \cup Own \cup base
    /\ UNCHANGED <<base, issue>>

\* Something held that has all of the base branch becomes the base branch.
Deliver ==
    /\ base \subseteq base' /\ base' \subseteq held
    /\ UNCHANGED <<held, issue>>

HandOff ==
    /\ held \subseteq base
    /\ issue' = "handoff"
    /\ UNCHANGED <<held, base>>

\* The workspace goes once its work is delivered, or with an issue found closed.
GiveUp ==
    /\ held \subseteq base \/ issue = "closed"
    /\ held' = {}
    /\ UNCHANGED <<base, issue>>

OthersPush ==
    /\ \E c \in Others : base' = base \cup {c}
    /\ UNCHANGED <<held, issue>>

PeopleMove ==
    /\ issue # "handoff" /\ issue' \in {"active", "closed"}
    /\ UNCHANGED <<held, base>>

Next == Work \/ Deliver \/ HandOff \/ GiveUp \/ OthersPush \/ PeopleMove

Spec == Init /\ [][Next]_vars

=============================================================================

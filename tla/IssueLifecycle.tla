-------------------------- MODULE IssueLifecycle --------------------------
(***************************************************************************)
(* What the orchestrator promises of every issue, without tracker, polls,  *)
(* generations, channels or limits: an issue is unclaimed, running or      *)
(* queued for retry; while it is not unclaimed it alone holds its tracker  *)
(* id and its workspace; and its claim outlives its agent.  Service        *)
(* implements this specification.                                          *)
(***************************************************************************)
CONSTANTS Sources, IssueIds, Names, None

VARIABLES
    life,       \* where each issue is in its life cycle
    workspace,  \* the workspace it holds, or None
    agents      \* issues whose agent task is alive

Key == Sources \X IssueIds
vars == <<life, workspace, agents>>

Init ==
    /\ life = [k \in Key |-> "unclaimed"]
    /\ workspace = [k \in Key |-> None]
    /\ agents = {}

\* Nobody else holds the id or the workspace.
Free(k, w) ==
    \A l \in Key \ {k} : life[l] # "unclaimed" => l[2] # k[2] /\ workspace[l] # w

\* A fresh dispatch or a retry; without `spawned` its preparation failed.
Claim(k, n, spawned) ==
    /\ life[k] # "running" /\ k \notin agents
    /\ Free(k, <<k[1], n>>)
    /\ life' = [life EXCEPT ![k] = IF spawned THEN "running" ELSE "retry"]
    /\ workspace' = [workspace EXCEPT ![k] = <<k[1], n>>]
    /\ agents' = IF spawned THEN agents \cup {k} ELSE agents

AgentEnds(k) ==
    /\ agents' = agents \ {k}
    /\ UNCHANGED <<life, workspace>>

\* The run is over, its agent gone: the issue waits for its retry.
EndRun(k) ==
    /\ life[k] = "running"
    /\ life' = [life EXCEPT ![k] = "retry"]
    /\ agents' = agents \ {k}
    /\ UNCHANGED workspace

Release(k) ==
    /\ life[k] # "unclaimed"
    /\ life' = [life EXCEPT ![k] = "unclaimed"]
    /\ workspace' = [workspace EXCEPT ![k] = None]
    /\ agents' = agents \ {k}

\* The process gives up waiting for its agents.
KillAgents == agents' = {} /\ UNCHANGED <<life, workspace>>

Next ==
    \/ \E k \in Key : \/ \E n \in Names, spawned \in BOOLEAN : Claim(k, n, spawned)
                      \/ AgentEnds(k) \/ EndRun(k) \/ Release(k)
    \/ KillAgents

Spec == Init /\ [][Next]_vars

=============================================================================

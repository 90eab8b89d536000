-------------------------- MODULE ServiceProofs --------------------------
(***************************************************************************)
(* For every configuration, every number of sources, issues and hosts and  *)
(* every bound.  First the operations of the orchestrator's record: claims *)
(* are what running entries and retries own, and no two owners share an    *)
(* issue id or a workspace.  Then the service's variables keep their       *)
(* types.  Then its workers: each live agent is the one registered task of *)
(* a running entry and works in that entry's workspace, each task is alive *)
(* or has its outcome in the channel, agents never share an issue or a     *)
(* directory, limits are respected, attempts never fall, nothing starts    *)
(* while draining, nothing outlives the process, and the service           *)
(* implements IssueLifecycle.  Last, the directory of a live agent stays,  *)
(* as long as a rename gives an issue a name of its own.                   *)
(***************************************************************************)
EXTENDS ServiceProperties, FiniteSetTheorems, TLAPS

-----------------------------------------------------------------------------
(* The record. *)

Consistent(s) == s \in StateType /\ ClaimsMatchOwners(s) /\ OwnersDisjoint(s)

\* The start-up record is consistent.
LEMMA InitStateConsistent == Consistent(InitState)
  BY DEF Consistent, InitState, StateType, ClaimsMatchOwners, OwnersDisjoint,
         Owners, RunningKeys, RetryKeys

\* A key that is neither running nor queued holds no workspace.
LEMMA NoWorkspaceWithoutOwner ==
  ASSUME NEW s, NEW k \in Key, k \notin Owners(s)
  PROVE  WorkspacesOf(s, k) = {}
  BY DEF WorkspacesOf, Owners

\* An issue none of whose names is claimed owns nothing, and nobody owns what it needs.
LEMMA UnclaimedIsFree ==
  ASSUME NEW s, Consistent(s), NEW k \in Key, NEW issue \in Issue, ~IsClaimed(s, k, issue)
  PROVE  /\ k \notin Owners(s)
         /\ \A l \in Owners(s) : l[2] # k[2] /\ <<k[1], issue.name>> \notin WorkspacesOf(s, l)
  <1>1. k[2] \in IssueIds /\ <<k[1], issue.name>> \in WorkspaceKey
    BY DEF Key, WorkspaceKey, Issue
  <1>2. QED
    BY <1>1 DEF Consistent, ClaimsMatchOwners, IsClaimed

\* A record of the right type in which k has just become an owner, of a workspace no
\* other owner holds, is consistent when k's claims were added to a consistent one.
LEMMA NewOwnerConsistent ==
  ASSUME NEW s, NEW t, Consistent(s), t \in StateType, NEW k \in Key, NEW w \in WorkspaceKey,
         k \notin Owners(s),
         \A l \in Owners(s) : l[2] # k[2] /\ w \notin WorkspacesOf(s, l),
         Owners(t) = Owners(s) \cup {k},
         RunningKeys(t) \cap RetryKeys(t) = {},
         \A l \in Owners(s) : WorkspacesOf(t, l) = WorkspacesOf(s, l),
         WorkspacesOf(t, k) = {w},
         t.claimed = s.claimed \cup {k},
         t.claimed_issue_ids = s.claimed_issue_ids \cup {k[2]},
         t.claimed_workspace_keys = s.claimed_workspace_keys \cup {w}
  PROVE  Consistent(t)
  <1>1. ClaimsMatchOwners(t)
    BY DEF Consistent, ClaimsMatchOwners
  <1>2. OwnersDisjoint(t)
    BY DEF Consistent, OwnersDisjoint
  <1>3. QED
    BY <1>1, <1>2 DEF Consistent

\* claim_running of an issue nothing of which is claimed.
LEMMA ClaimRunningConsistent ==
  ASSUME NEW s, Consistent(s), NEW k \in Key, NEW issue \in Issue, NEW attempt \in Nat,
         NEW target \in Targets, ~IsClaimed(s, k, issue)
  PROVE  /\ Consistent(ClaimRunning(s, k, issue, attempt, target))
         /\ k \in RunningKeys(ClaimRunning(s, k, issue, attempt, target))
  <1> DEFINE w == <<k[1], issue.name>>
             entry == [issue |-> issue, workspace_key |-> w, target |-> target,
                       retry_attempt |-> attempt, generation |-> 0]
             t == [s EXCEPT !.claimed = @ \cup {k},
                            !.claimed_issue_ids = @ \cup {k[2]},
                            !.claimed_workspace_keys = @ \cup {w},
                            !.retry_attempts[k] = None,
                            !.running[k] = entry]
  <1>1. k[1] \in Sources /\ k[2] \in IssueIds /\ w \in WorkspaceKey
    BY DEF Key, WorkspaceKey, Issue
  <1>2. entry \in RunningEntry /\ entry # None
    BY <1>1, NoneAssumption DEF RunningEntry
  <1>3. /\ k \notin Owners(s)
        /\ \A l \in Owners(s) : l[2] # k[2] /\ w \notin WorkspacesOf(s, l)
    BY UnclaimedIsFree
  <1>4. s \in StateType
    BY DEF Consistent
  <1>5. s.running[k] = None /\ s.retry_attempts[k] = None
    BY <1>3 DEF Owners, RunningKeys, RetryKeys
  <1> HIDE DEF w, entry
  <1>6. /\ t \in StateType
        /\ t.claimed = s.claimed \cup {k}
        /\ t.claimed_issue_ids = s.claimed_issue_ids \cup {k[2]}
        /\ t.claimed_workspace_keys = s.claimed_workspace_keys \cup {w}
        /\ t.running = [s.running EXCEPT ![k] = entry]
        /\ t.retry_attempts = s.retry_attempts
    BY <1>1, <1>2, <1>4, <1>5 DEF StateType
  <1> HIDE DEF t
  <1>7. /\ RunningKeys(t) = RunningKeys(s) \cup {k}
        /\ RetryKeys(t) = RetryKeys(s)
    BY <1>2, <1>4, <1>6 DEF RunningKeys, RetryKeys, StateType
  <1>8. Owners(t) = Owners(s) \cup {k}
    BY <1>7 DEF Owners
  <1>9. \A l \in Owners(s) : WorkspacesOf(t, l) = WorkspacesOf(s, l)
    <2> SUFFICES ASSUME NEW l \in Owners(s) PROVE WorkspacesOf(t, l) = WorkspacesOf(s, l)
      OBVIOUS
    <2>1. l # k /\ l \in Key
      BY <1>3 DEF Owners, RunningKeys, RetryKeys
    <2>2. t.running[l] = s.running[l] /\ t.retry_attempts[l] = s.retry_attempts[l]
      BY <2>1, <1>4, <1>6 DEF StateType
    <2>3. QED
      BY <2>1, <2>2, <1>7 DEF WorkspacesOf
  <1>10. WorkspacesOf(t, k) = {w}
    <2>1. t.running[k].workspace_key = w
      BY <1>4, <1>6 DEF StateType, entry
    <2>2. k \in RunningKeys(t) /\ k \notin RetryKeys(t)
      BY <1>3, <1>7 DEF Owners
    <2>3. QED
      BY <2>1, <2>2 DEF WorkspacesOf
  <1>11. Consistent(t)
    <2>1. RunningKeys(t) \cap RetryKeys(t) = {}
      BY <1>3, <1>7 DEF Owners, Consistent, OwnersDisjoint
    <2>2. QED
      BY <1>1, <1>3, <1>6, <1>8, <1>9, <1>10, <2>1, NewOwnerConsistent
  <1>12. WorkspacesOf(s, k) = {}
    BY <1>3, NoWorkspaceWithoutOwner
  <1>13. ReleaseWorkspaceKeysIfUnowned(t, {}) = t
    BY <1>6 DEF ReleaseWorkspaceKeysIfUnowned, StateType
  <1>14. OwnsId(t, k[2])
    BY <1>7 DEF OwnsId
  <1>15. ClaimRunning(s, k, issue, attempt, target) = t
    BY <1>12, <1>13, <1>14 DEF ClaimRunning, ReleaseTrackerIssueIdIfUnowned, t, w, entry
  <1>16. QED
    BY <1>7, <1>11, <1>15

\* A record with the same owners, workspaces and claims is as consistent as before.
LEMMA SameOwnershipConsistent ==
  ASSUME NEW s, NEW t, Consistent(s), t \in StateType,
         Owners(t) = Owners(s),
         RunningKeys(t) \cap RetryKeys(t) = {},
         \A l \in Owners(s) : WorkspacesOf(t, l) = WorkspacesOf(s, l),
         t.claimed = s.claimed,
         t.claimed_issue_ids = s.claimed_issue_ids,
         t.claimed_workspace_keys = s.claimed_workspace_keys
  PROVE  Consistent(t)
  BY DEF Consistent, ClaimsMatchOwners, OwnersDisjoint

\* Changes to the entry of a running issue that keep its workspace key.
LEMMA RunningUpdateConsistent ==
  ASSUME NEW s, NEW t, Consistent(s), t \in StateType, NEW k \in RunningKeys(s),
         NEW entry \in RunningEntry, entry.workspace_key = s.running[k].workspace_key,
         t = [s EXCEPT !.running[k] = entry]
  PROVE  Consistent(t)
  <1>1. s \in StateType /\ k \in Key /\ entry # None
    BY NoneAssumption DEF Consistent, RunningKeys
  <1>2. /\ t.running = [s.running EXCEPT ![k] = entry]
        /\ t.retry_attempts = s.retry_attempts /\ t.claimed = s.claimed
        /\ t.claimed_issue_ids = s.claimed_issue_ids
        /\ t.claimed_workspace_keys = s.claimed_workspace_keys
    BY <1>1 DEF StateType
  <1>3. RunningKeys(t) = RunningKeys(s) /\ RetryKeys(t) = RetryKeys(s)
    BY <1>1, <1>2 DEF RunningKeys, RetryKeys, StateType
  <1>4. \A l \in Owners(s) : WorkspacesOf(t, l) = WorkspacesOf(s, l)
    <2> SUFFICES ASSUME NEW l \in Owners(s) PROVE WorkspacesOf(t, l) = WorkspacesOf(s, l)
      OBVIOUS
    <2>1. l \in Key
      BY DEF Owners, RunningKeys, RetryKeys
    <2>2. /\ t.retry_attempts[l] = s.retry_attempts[l]
          /\ t.running[l].workspace_key = s.running[l].workspace_key
      BY <1>1, <1>2, <2>1 DEF StateType
    <2>3. QED
      BY <2>2, <1>3 DEF WorkspacesOf
  <1>5. Owners(t) = Owners(s) /\ RunningKeys(t) \cap RetryKeys(t) = {}
    BY <1>3 DEF Owners, Consistent, OwnersDisjoint
  <1>6. QED
    BY ONLY Consistent(s), t \in StateType, <1>2, <1>4, <1>5, SameOwnershipConsistent, Zenon

\* set_running_generation.
LEMMA SetRunningGenerationConsistent ==
  ASSUME NEW s, Consistent(s), NEW k \in Key, NEW g \in Nat
  PROVE  Consistent(SetRunningGeneration(s, k, g))
  <1>1. CASE s.running[k] = None
    BY <1>1 DEF SetRunningGeneration
  <1>2. CASE s.running[k] # None
    <2> DEFINE entry == [s.running[k] EXCEPT !.generation = g]
               t == [s EXCEPT !.running[k] = entry]
    <2>1. s \in StateType /\ k \in RunningKeys(s)
      BY <1>2 DEF Consistent, RunningKeys
    <2>2. entry \in RunningEntry /\ entry.workspace_key = s.running[k].workspace_key
      BY <1>2, <2>1 DEF StateType, RunningEntry
    <2>3. t \in StateType
      BY <2>1, <2>2 DEF StateType
    <2>4. Consistent(t)
      <3> HIDE DEF entry
      <3>1. QED
        BY <2>1, <2>2, <2>3, RunningUpdateConsistent
    <2>5. QED
      BY <1>2, <2>4 DEF SetRunningGeneration
  <1>3. QED
    BY <1>1, <1>2

\* The refresh of a running issue by reconciliation.
LEMMA RefreshIssueConsistent ==
  ASSUME NEW s, Consistent(s), NEW k \in RunningKeys(s), NEW issue \in Issue
  PROVE  /\ Consistent(RefreshIssue(s, k, issue))
         /\ k \in RunningKeys(RefreshIssue(s, k, issue))
  <1> DEFINE entry == [s.running[k] EXCEPT !.issue = issue]
             t == [s EXCEPT !.running[k] = entry]
  <1>1. s \in StateType /\ k \in Key /\ s.running[k] \in RunningEntry
    BY DEF Consistent, RunningKeys, StateType
  <1>2. entry \in RunningEntry /\ entry.workspace_key = s.running[k].workspace_key
    BY <1>1 DEF RunningEntry
  <1>3. t \in StateType
    BY <1>1, <1>2 DEF StateType
  <1>4. t = RefreshIssue(s, k, issue)
    BY DEF RefreshIssue
  <1>5. t.running[k] = entry /\ entry # None
    BY <1>1, <1>2, NoneAssumption DEF StateType
  <1>6. Consistent(t)
    <2> HIDE DEF entry
    <2>1. QED
      BY <1>2, <1>3, RunningUpdateConsistent
  <1>7. QED
    BY <1>1, <1>4, <1>5, <1>6 DEF RunningKeys

\* Changes to queued retries that keep their workspace keys.
LEMMA RetryUpdateConsistent ==
  ASSUME NEW s, NEW t, Consistent(s), t \in StateType,
         t.running = s.running, t.claimed = s.claimed,
         t.claimed_issue_ids = s.claimed_issue_ids,
         t.claimed_workspace_keys = s.claimed_workspace_keys,
         RetryKeys(t) = RetryKeys(s),
         \A l \in RetryKeys(s) :
            t.retry_attempts[l].workspace_key = s.retry_attempts[l].workspace_key
  PROVE  Consistent(t)
  <1>1. RunningKeys(t) = RunningKeys(s)
    BY DEF RunningKeys
  <1>2. \A l \in Owners(s) : WorkspacesOf(t, l) = WorkspacesOf(s, l)
    BY <1>1 DEF WorkspacesOf
  <1>3. QED
    BY <1>1, <1>2, SameOwnershipConsistent DEF Owners, Consistent, OwnersDisjoint

\* Due retries put off after a failed candidate fetch.
LEMMA RescheduleConsistent ==
  ASSUME NEW s, Consistent(s), NEW source \in Sources
  PROVE  Consistent(RescheduleAfterPollError(s, source))
  <1> DEFINE later(k) == PutOff(s.retry_attempts[k])
             retries == [k \in Key |-> IF k \in DueRetryKeys(s, source) THEN later(k)
                                       ELSE s.retry_attempts[k]]
             t == [s EXCEPT !.retry_attempts = retries]
  <1>1. s \in StateType
    BY DEF Consistent
  <1>2. ASSUME NEW k \in RetryKeys(s)
        PROVE  /\ k \in Key /\ later(k) \in RetryEntry /\ later(k) # None
               /\ later(k).workspace_key = s.retry_attempts[k].workspace_key
    <2>1. k \in Key /\ s.retry_attempts[k] \in RetryEntry
      BY <1>1 DEF RetryKeys, StateType
    <2>2. "poll" \in RetryErrors
      BY DEF RetryErrors
    <2>3. later(k) \in RetryEntry /\ later(k).workspace_key = s.retry_attempts[k].workspace_key
      <3>1. \A r \in RetryEntry : PutOff(r) \in RetryEntry /\ PutOff(r).workspace_key = r.workspace_key
        <4> SUFFICES ASSUME NEW r \in RetryEntry
                     PROVE  PutOff(r) \in RetryEntry /\ PutOff(r).workspace_key = r.workspace_key
          OBVIOUS
        <4> DEFINE a == [r EXCEPT !.attempt = r.attempt + 1]
                   b == [a EXCEPT !.error = "poll"]
        <4>1. a \in RetryEntry /\ a.workspace_key = r.workspace_key
          BY DEF RetryEntry
        <4>2. b \in RetryEntry /\ b.workspace_key = r.workspace_key
          <5> HIDE DEF a
          <5>1. QED
            BY <2>2, <4>1 DEF RetryEntry
        <4>3. QED
          <5> HIDE DEF b
          <5>1. [b EXCEPT !.due = FALSE] \in RetryEntry /\ [b EXCEPT !.due = FALSE].workspace_key = r.workspace_key
            BY <4>2 DEF RetryEntry
          <5>2. QED
            BY <5>1 DEF PutOff, a, b
      <3>2. QED
        BY <2>1, <3>1
    <2>4. QED
      BY <2>1, <2>3, NoneAssumption
  <1>3. DueRetryKeys(s, source) \subseteq RetryKeys(s)
    BY DEF DueRetryKeys
  <1> HIDE DEF later
  <1>4. retries \in [Key -> RetryEntry \cup {None}]
    BY <1>1, <1>2, <1>3 DEF StateType
  <1>5. \A k \in Key : retries[k] # None <=> s.retry_attempts[k] # None
    BY <1>2, <1>3 DEF RetryKeys
  <1>6. \A k \in RetryKeys(s) : retries[k].workspace_key = s.retry_attempts[k].workspace_key
    BY <1>2, <1>3 DEF RetryKeys
  <1>7. t = RescheduleAfterPollError(s, source)
    BY DEF RescheduleAfterPollError, later
  <1> HIDE DEF retries
  <1>8. /\ t \in StateType /\ t.retry_attempts = retries /\ t.running = s.running
        /\ t.claimed = s.claimed /\ t.claimed_issue_ids = s.claimed_issue_ids
        /\ t.claimed_workspace_keys = s.claimed_workspace_keys
    BY <1>1, <1>4 DEF StateType
  <1> HIDE DEF t
  <1>9. RetryKeys(t) = RetryKeys(s)
    BY <1>5, <1>8 DEF RetryKeys
  <1>10. Consistent(t)
    BY <1>6, <1>8, <1>9, RetryUpdateConsistent
  <1>11. QED
    BY <1>7, <1>10

\* A retry falls due, by time or by promotion.
LEMMA SetRetryDueConsistent ==
  ASSUME NEW s, Consistent(s), NEW k \in RetryKeys(s)
  PROVE  Consistent(SetRetryDue(s, k))
  <1> DEFINE entry == [s.retry_attempts[k] EXCEPT !.due = TRUE]
             t == [s EXCEPT !.retry_attempts[k] = entry]
  <1>1. s \in StateType /\ k \in Key /\ s.retry_attempts[k] \in RetryEntry
    BY DEF Consistent, RetryKeys, StateType
  <1>2. /\ entry \in RetryEntry /\ entry # None
        /\ entry.workspace_key = s.retry_attempts[k].workspace_key
    BY <1>1, NoneAssumption DEF RetryEntry
  <1>3. t = SetRetryDue(s, k)
    BY DEF SetRetryDue
  <1> HIDE DEF entry
  <1>4. /\ t \in StateType /\ t.retry_attempts = [s.retry_attempts EXCEPT ![k] = entry]
        /\ t.running = s.running
        /\ t.claimed = s.claimed /\ t.claimed_issue_ids = s.claimed_issue_ids
        /\ t.claimed_workspace_keys = s.claimed_workspace_keys
    BY <1>1, <1>2 DEF StateType
  <1> HIDE DEF t
  <1>5. RetryKeys(t) = RetryKeys(s)
    BY <1>1, <1>2, <1>4 DEF RetryKeys, StateType
  <1>6. \A l \in RetryKeys(s) :
           t.retry_attempts[l].workspace_key = s.retry_attempts[l].workspace_key
    BY <1>1, <1>2, <1>4 DEF RetryKeys, StateType
  <1>7. QED
    BY <1>3, <1>4, <1>5, <1>6, RetryUpdateConsistent

\* Draining is no part of ownership.
LEMMA SetDrainingConsistent ==
  ASSUME NEW s, Consistent(s), NEW b \in BOOLEAN
  PROVE  Consistent([s EXCEPT !.draining = b])
  <1> DEFINE t == [s EXCEPT !.draining = b]
  <1>1. /\ t \in StateType /\ t.running = s.running /\ t.retry_attempts = s.retry_attempts
        /\ t.claimed = s.claimed /\ t.claimed_issue_ids = s.claimed_issue_ids
        /\ t.claimed_workspace_keys = s.claimed_workspace_keys
    BY DEF Consistent, StateType
  <1> HIDE DEF t
  <1>2. RetryKeys(t) = RetryKeys(s)
    BY <1>1 DEF RetryKeys
  <1>3. Consistent(t)
    BY <1>1, <1>2, RetryUpdateConsistent
  <1>4. QED
    BY <1>3 DEF t

\* What a worker leaves behind is a retry of its workspace.
LEMMA RetryAfterExitType ==
  ASSUME NEW entry \in RunningEntry, NEW reason \in Reasons
  PROVE  /\ RetryAfterExit(entry, reason) \in RetryEntry
         /\ RetryAfterExit(entry, reason).workspace_key = entry.workspace_key
  <1>1. ErrorMessage(reason) \in RetryErrors \cup {None}
    BY DEF ErrorMessage, RetryErrors
  <1>2. QED
    BY <1>1 DEF RetryAfterExit, RunningEntry, RetryEntry

\* worker_exit: the claims of the running entry pass to its retry.
LEMMA WorkerExitConsistent ==
  ASSUME NEW s, Consistent(s), NEW k \in Key, NEW reason \in Reasons
  PROVE  Consistent(WorkerExit(s, k, reason))
  <1>1. CASE s.running[k] = None
    BY <1>1 DEF WorkerExit
  <1>2. CASE s.running[k] # None
    <2> DEFINE retry == RetryAfterExit(s.running[k], reason)
               t == RequeueRetry([s EXCEPT !.running[k] = None], k, retry)
    <2>1. s \in StateType /\ k \in RunningKeys(s) /\ s.running[k] \in RunningEntry
      BY <1>2 DEF Consistent, RunningKeys, StateType
    <2>2. /\ retry \in RetryEntry /\ retry # None
          /\ retry.workspace_key = s.running[k].workspace_key
      BY <2>1, RetryAfterExitType, NoneAssumption
    <2>3. /\ k[2] \in IssueIds /\ retry.workspace_key \in WorkspaceKey
      BY <2>2 DEF Key, RetryEntry
    <2> HIDE DEF retry
    <2>4. /\ t \in StateType
          /\ t.running = [s.running EXCEPT ![k] = None]
          /\ t.retry_attempts = [s.retry_attempts EXCEPT ![k] = retry]
          /\ t.claimed = s.claimed \cup {k}
          /\ t.claimed_issue_ids = s.claimed_issue_ids \cup {k[2]}
          /\ t.claimed_workspace_keys = s.claimed_workspace_keys \cup {retry.workspace_key}
      BY <2>1, <2>2, <2>3 DEF StateType, RequeueRetry
    <2>5. t = WorkerExit(s, k, reason)
      BY <1>2 DEF WorkerExit, retry
    <2> HIDE DEF t
    <2>6. k \in Owners(s) /\ k \notin RetryKeys(s)
      BY <2>1 DEF Owners, Consistent, OwnersDisjoint
    <2>7. /\ RunningKeys(t) = RunningKeys(s) \ {k}
          /\ RetryKeys(t) = RetryKeys(s) \cup {k}
      BY <2>1, <2>2, <2>4 DEF RunningKeys, RetryKeys, StateType
    <2>8. Owners(t) = Owners(s) /\ RunningKeys(t) \cap RetryKeys(t) = {}
      BY <2>6, <2>7 DEF Owners, Consistent, OwnersDisjoint
    <2>9. WorkspacesOf(s, k) = {retry.workspace_key}
      BY <2>1, <2>2, <2>6 DEF WorkspacesOf
    <2>10. WorkspacesOf(t, k) = {retry.workspace_key}
      BY <2>1, <2>4, <2>7 DEF WorkspacesOf, StateType
    <2>11. \A l \in Owners(s) : WorkspacesOf(t, l) = WorkspacesOf(s, l)
      <3> SUFFICES ASSUME NEW l \in Owners(s), l # k
                   PROVE  WorkspacesOf(t, l) = WorkspacesOf(s, l)
        BY <2>9, <2>10
      <3>1. l \in Key
        BY DEF Owners, RunningKeys, RetryKeys
      <3>2. t.running[l] = s.running[l] /\ t.retry_attempts[l] = s.retry_attempts[l]
        BY <2>1, <2>4, <3>1 DEF StateType
      <3>3. QED
        BY <2>7, <3>2 DEF WorkspacesOf
    <2>12. /\ k \in s.claimed /\ k[2] \in s.claimed_issue_ids
           /\ retry.workspace_key \in s.claimed_workspace_keys
      BY <2>3, <2>6, <2>9 DEF Consistent, ClaimsMatchOwners
    <2>13. /\ t.claimed = s.claimed /\ t.claimed_issue_ids = s.claimed_issue_ids
           /\ t.claimed_workspace_keys = s.claimed_workspace_keys
      BY <2>4, <2>12
    <2>14. Consistent(t)
      BY <2>4, <2>8, <2>11, <2>13, SameOwnershipConsistent
    <2>15. QED
      BY <2>5, <2>14
  <1>3. QED
    BY <1>1, <1>2

\* A record from which an owner has gone together with its claims.
LEMMA OwnerGoneConsistent ==
  ASSUME NEW s, NEW t, Consistent(s), t \in StateType, NEW k \in Owners(s),
         Owners(t) = Owners(s) \ {k},
         RunningKeys(t) \cap RetryKeys(t) = {},
         \A l \in Owners(t) : WorkspacesOf(t, l) = WorkspacesOf(s, l),
         t.claimed = s.claimed \ {k},
         t.claimed_issue_ids = s.claimed_issue_ids \ {k[2]},
         t.claimed_workspace_keys = s.claimed_workspace_keys \ WorkspacesOf(s, k)
  PROVE  Consistent(t)
  <1>1. ClaimsMatchOwners(t)
    <2>1. t.claimed = Owners(t)
      BY DEF Consistent, ClaimsMatchOwners
    <2>2. ASSUME NEW i \in IssueIds
          PROVE  i \in t.claimed_issue_ids <=> \E l \in Owners(t) : l[2] = i
      BY DEF Consistent, ClaimsMatchOwners, OwnersDisjoint
    <2>3. ASSUME NEW w \in WorkspaceKey
          PROVE  w \in t.claimed_workspace_keys <=> \E l \in Owners(t) : w \in WorkspacesOf(t, l)
      BY DEF Consistent, ClaimsMatchOwners, OwnersDisjoint
    <2>4. QED
      BY <2>1, <2>2, <2>3 DEF ClaimsMatchOwners
  <1>2. OwnersDisjoint(t)
    BY DEF Consistent, OwnersDisjoint
  <1>3. QED
    BY <1>1, <1>2 DEF Consistent

\* Owning a workspace is being an owner that holds it.
LEMMA OwnsWorkspaceByOwner ==
  ASSUME NEW s, NEW w
  PROVE  OwnsWorkspace(s, w) <=> \E l \in Owners(s) : w \in WorkspacesOf(s, l)
  BY DEF OwnsWorkspace, Owners, WorkspacesOf

\* The two releases after k's entries and its key have been taken out of s.
LEMMA ReleasesAfterRemoval ==
  ASSUME NEW s, NEW removed, Consistent(s), NEW k \in Owners(s), removed \in StateType,
         Owners(removed) = Owners(s) \ {k},
         RunningKeys(removed) \cap RetryKeys(removed) = {},
         \A l \in Owners(removed) : WorkspacesOf(removed, l) = WorkspacesOf(s, l),
         removed.claimed = s.claimed \ {k},
         removed.claimed_issue_ids = s.claimed_issue_ids,
         removed.claimed_workspace_keys = s.claimed_workspace_keys
  PROVE  LET t == ReleaseWorkspaceKeysIfUnowned(
                    ReleaseTrackerIssueIdIfUnowned(removed, k[2]), WorkspacesOf(s, k))
         IN  /\ Consistent(t)
             /\ t.running = removed.running /\ t.retry_attempts = removed.retry_attempts
  <1> DEFINE u == [removed EXCEPT !.claimed_issue_ids = @ \ {k[2]}]
             t == [u EXCEPT !.claimed_workspace_keys = @ \ WorkspacesOf(s, k)]
  <1>1. ~OwnsId(removed, k[2])
    BY DEF OwnsId, Consistent, OwnersDisjoint, Owners
  <1>2. u = ReleaseTrackerIssueIdIfUnowned(removed, k[2])
    BY <1>1 DEF ReleaseTrackerIssueIdIfUnowned
  <1>3. /\ u \in StateType
        /\ u.running = removed.running /\ u.retry_attempts = removed.retry_attempts
        /\ u.claimed = removed.claimed
        /\ u.claimed_issue_ids = s.claimed_issue_ids \ {k[2]}
        /\ u.claimed_workspace_keys = s.claimed_workspace_keys
    BY DEF StateType
  <1> HIDE DEF u
  <1>4. /\ RunningKeys(u) = RunningKeys(removed) /\ RetryKeys(u) = RetryKeys(removed)
        /\ Owners(u) = Owners(removed)
        /\ \A l : WorkspacesOf(u, l) = WorkspacesOf(removed, l)
    BY <1>3 DEF RunningKeys, RetryKeys, Owners, WorkspacesOf
  <1>5. \A w \in WorkspacesOf(s, k) : ~OwnsWorkspace(u, w)
    <2> SUFFICES ASSUME NEW w \in WorkspacesOf(s, k), NEW l \in Owners(u), w \in WorkspacesOf(u, l)
                 PROVE  FALSE
      BY OwnsWorkspaceByOwner
    <2>1. QED
      BY <1>4 DEF Consistent, OwnersDisjoint
  <1>6. t = ReleaseWorkspaceKeysIfUnowned(u, WorkspacesOf(s, k))
    <2>1. {w \in u.claimed_workspace_keys : w \in WorkspacesOf(s, k) => OwnsWorkspace(u, w)}
            = u.claimed_workspace_keys \ WorkspacesOf(s, k)
      BY <1>5
    <2>2. QED
      BY <2>1 DEF ReleaseWorkspaceKeysIfUnowned
  <1>7. /\ t \in StateType
        /\ t.running = u.running /\ t.retry_attempts = u.retry_attempts
        /\ t.claimed = u.claimed /\ t.claimed_issue_ids = u.claimed_issue_ids
        /\ t.claimed_workspace_keys = s.claimed_workspace_keys \ WorkspacesOf(s, k)
    BY <1>3 DEF StateType
  <1> HIDE DEF t
  <1>8. /\ RunningKeys(t) = RunningKeys(u) /\ RetryKeys(t) = RetryKeys(u)
        /\ Owners(t) = Owners(u)
        /\ \A l : WorkspacesOf(t, l) = WorkspacesOf(u, l)
    BY <1>7 DEF RunningKeys, RetryKeys, Owners, WorkspacesOf
  <1>9. Consistent(t)
    BY <1>3, <1>4, <1>7, <1>8, OwnerGoneConsistent
  <1>10. QED
    BY <1>2, <1>3, <1>6, <1>7, <1>9

\* release_for_source of a running issue.
LEMMA ReleaseIssueConsistent ==
  ASSUME NEW s, Consistent(s), NEW k \in RunningKeys(s)
  PROVE  /\ Consistent(ReleaseIssue(s, k))
         /\ k \notin Owners(ReleaseIssue(s, k))
  <1> DEFINE removed == [s EXCEPT !.running[k] = None, !.retry_attempts[k] = None,
                                  !.claimed = @ \ {k}]
             t == ReleaseWorkspaceKeysIfUnowned(
                     ReleaseTrackerIssueIdIfUnowned(removed, k[2]), WorkspacesOf(s, k))
  <1>1. s \in StateType /\ k \in Key /\ k \in Owners(s)
    BY DEF Consistent, RunningKeys, Owners
  <1>2. /\ removed \in StateType
        /\ removed.running = [s.running EXCEPT ![k] = None]
        /\ removed.retry_attempts = [s.retry_attempts EXCEPT ![k] = None]
        /\ removed.claimed = s.claimed \ {k}
        /\ removed.claimed_issue_ids = s.claimed_issue_ids
        /\ removed.claimed_workspace_keys = s.claimed_workspace_keys
    BY <1>1 DEF StateType
  <1>3. t = ReleaseIssue(s, k)
    BY DEF ReleaseIssue
  <1> HIDE DEF removed
  <1>4. /\ RunningKeys(removed) = RunningKeys(s) \ {k}
        /\ RetryKeys(removed) = RetryKeys(s) \ {k}
    BY <1>1, <1>2 DEF RunningKeys, RetryKeys, StateType
  <1>5. /\ Owners(removed) = Owners(s) \ {k}
        /\ RunningKeys(removed) \cap RetryKeys(removed) = {}
    BY <1>4 DEF Owners, Consistent, OwnersDisjoint
  <1>6. \A l \in Owners(removed) : WorkspacesOf(removed, l) = WorkspacesOf(s, l)
    <2> SUFFICES ASSUME NEW l \in Owners(removed)
                 PROVE  WorkspacesOf(removed, l) = WorkspacesOf(s, l)
      OBVIOUS
    <2>1. l \in Key /\ l # k
      BY <1>5 DEF Owners, RunningKeys, RetryKeys
    <2>2. removed.running[l] = s.running[l] /\ removed.retry_attempts[l] = s.retry_attempts[l]
      BY <1>1, <1>2, <2>1 DEF StateType
    <2>3. QED
      BY <1>4, <2>1, <2>2 DEF WorkspacesOf
  <1>7. /\ Consistent(t)
        /\ t.running = removed.running /\ t.retry_attempts = removed.retry_attempts
    BY <1>1, <1>2, <1>5, <1>6, ReleasesAfterRemoval
  <1> HIDE DEF t
  <1>8. Owners(t) = Owners(removed)
    BY <1>7 DEF Owners, RunningKeys, RetryKeys
  <1>9. QED
    BY <1>3, <1>5, <1>7, <1>8

\* A due retry taken off the queue: consistent, with the workspace free again.
LEMMA TakeRetryConsistent ==
  ASSUME NEW s, Consistent(s), NEW k \in RetryKeys(s)
  PROVE  LET t == TakeRetry(s, k)
         IN  /\ Consistent(t)
             /\ Owners(t) = Owners(s) \ {k}
             /\ \A l \in Owners(t) : WorkspacesOf(t, l) = WorkspacesOf(s, l)
             /\ t.running = s.running
             /\ t.retry_attempts = [s.retry_attempts EXCEPT ![k] = None]
  <1> DEFINE popped == [s EXCEPT !.retry_attempts[k] = None]
             removed == [popped EXCEPT !.claimed = @ \ {k}]
             t == ReleaseWorkspaceKeysIfUnowned(
                     ReleaseTrackerIssueIdIfUnowned(removed, k[2]), WorkspacesOf(s, k))
  <1>1. s \in StateType /\ k \in Key /\ k \in Owners(s) /\ k \notin RunningKeys(s)
    BY DEF Consistent, RetryKeys, Owners, OwnersDisjoint
  <1>2. /\ removed \in StateType
        /\ removed.running = s.running
        /\ removed.retry_attempts = [s.retry_attempts EXCEPT ![k] = None]
        /\ removed.claimed = s.claimed \ {k}
        /\ removed.claimed_issue_ids = s.claimed_issue_ids
        /\ removed.claimed_workspace_keys = s.claimed_workspace_keys
    BY <1>1 DEF StateType
  <1>3. WorkspacesOf(s, k) = {s.retry_attempts[k].workspace_key}
    BY <1>1 DEF WorkspacesOf
  <1>4. t = TakeRetry(s, k)
    BY <1>3 DEF TakeRetry, ReleaseRetryClaim
  <1> HIDE DEF removed
  <1>5. /\ RunningKeys(removed) = RunningKeys(s)
        /\ RetryKeys(removed) = RetryKeys(s) \ {k}
    BY <1>1, <1>2 DEF RunningKeys, RetryKeys, StateType
  <1>6. /\ Owners(removed) = Owners(s) \ {k}
        /\ RunningKeys(removed) \cap RetryKeys(removed) = {}
    BY <1>1, <1>5 DEF Owners, Consistent, OwnersDisjoint
  <1>7. \A l \in Owners(removed) : WorkspacesOf(removed, l) = WorkspacesOf(s, l)
    <2> SUFFICES ASSUME NEW l \in Owners(removed)
                 PROVE  WorkspacesOf(removed, l) = WorkspacesOf(s, l)
      OBVIOUS
    <2>1. l \in Key /\ l # k
      BY <1>6 DEF Owners, RunningKeys, RetryKeys
    <2>2. removed.running[l] = s.running[l] /\ removed.retry_attempts[l] = s.retry_attempts[l]
      BY <1>1, <1>2, <2>1 DEF StateType
    <2>3. QED
      BY <1>5, <2>1, <2>2 DEF WorkspacesOf
  <1>8. /\ Consistent(t)
        /\ t.running = removed.running /\ t.retry_attempts = removed.retry_attempts
    BY <1>1, <1>2, <1>6, <1>7, ReleasesAfterRemoval
  <1> HIDE DEF t
  <1>9. /\ RunningKeys(t) = RunningKeys(removed) /\ RetryKeys(t) = RetryKeys(removed)
        /\ Owners(t) = Owners(removed)
        /\ \A l : WorkspacesOf(t, l) = WorkspacesOf(removed, l)
    BY <1>8 DEF Owners, RunningKeys, RetryKeys, WorkspacesOf
  <1>10. QED
    BY <1>2, <1>4, <1>6, <1>7, <1>8, <1>9

\* A retry taken and put back.
LEMMA PutBackConsistent ==
  ASSUME NEW s, Consistent(s), NEW k \in RetryKeys(s)
  PROVE  Consistent(RequeueRetry(TakeRetry(s, k), k, s.retry_attempts[k]))
  <1> DEFINE b == TakeRetry(s, k)
             retry == s.retry_attempts[k]
             t == RequeueRetry(b, k, retry)
  <1>1. /\ Consistent(b) /\ b \in StateType /\ Owners(b) = Owners(s) \ {k}
        /\ \A l \in Owners(b) : WorkspacesOf(b, l) = WorkspacesOf(s, l)
        /\ b.running = s.running
        /\ b.retry_attempts = [s.retry_attempts EXCEPT ![k] = None]
    BY TakeRetryConsistent DEF Consistent
  <1> HIDE DEF b
  <1>2. s \in StateType /\ k \in Key /\ retry \in RetryEntry /\ retry # None
    BY DEF Consistent, RetryKeys, StateType
  <1>3. k[2] \in IssueIds /\ retry.workspace_key \in WorkspaceKey
    BY <1>2 DEF Key, RetryEntry
  <1>4. k \in Owners(s) /\ k \notin RunningKeys(s)
    BY DEF Consistent, Owners, OwnersDisjoint
  <1>5. WorkspacesOf(s, k) = {retry.workspace_key}
    BY <1>4 DEF WorkspacesOf
  <1> HIDE DEF retry
  <1>6. /\ t \in StateType
        /\ t.running = b.running
        /\ t.retry_attempts = [b.retry_attempts EXCEPT ![k] = retry]
        /\ t.claimed = b.claimed \cup {k}
        /\ t.claimed_issue_ids = b.claimed_issue_ids \cup {k[2]}
        /\ t.claimed_workspace_keys = b.claimed_workspace_keys \cup {retry.workspace_key}
    BY <1>1, <1>2, <1>3 DEF StateType, RequeueRetry
  <1> HIDE DEF t
  <1>7. /\ RunningKeys(t) = RunningKeys(b)
        /\ RetryKeys(t) = RetryKeys(b) \cup {k}
    BY <1>1, <1>2, <1>6 DEF RunningKeys, RetryKeys, StateType
  <1>8. RunningKeys(b) = RunningKeys(s)
    BY <1>1 DEF RunningKeys
  <1>9. /\ Owners(t) = Owners(b) \cup {k} /\ k \notin Owners(b)
        /\ RunningKeys(t) \cap RetryKeys(t) = {}
    BY <1>1, <1>4, <1>7, <1>8 DEF Owners, Consistent, OwnersDisjoint
  <1>10. \A l \in Owners(b) : WorkspacesOf(t, l) = WorkspacesOf(b, l)
    <2> SUFFICES ASSUME NEW l \in Owners(b) PROVE WorkspacesOf(t, l) = WorkspacesOf(b, l)
      OBVIOUS
    <2>1. l \in Key /\ l # k
      BY <1>9 DEF Owners, RunningKeys, RetryKeys
    <2>2. t.running[l] = b.running[l] /\ t.retry_attempts[l] = b.retry_attempts[l]
      BY <1>1, <1>2, <1>6, <2>1 DEF StateType
    <2>3. QED
      BY <1>7, <2>1, <2>2 DEF WorkspacesOf
  <1>11. WorkspacesOf(t, k) = {retry.workspace_key}
    <2>1. t.retry_attempts[k] = retry
      BY <1>1, <1>2, <1>6 DEF StateType
    <2>2. QED
      BY <1>4, <1>7, <1>8, <2>1 DEF WorkspacesOf
  <1>12. \A l \in Owners(b) : l[2] # k[2] /\ retry.workspace_key \notin WorkspacesOf(b, l)
    BY <1>1, <1>4, <1>5, <1>9 DEF Consistent, OwnersDisjoint
  <1>13. Consistent(t)
    BY <1>1, <1>2, <1>3, <1>6, <1>9, <1>10, <1>11, <1>12, NewOwnerConsistent
  <1>14. QED
    BY <1>13 DEF t, b, retry

-----------------------------------------------------------------------------
(* The loop. *)

\* The candidates still to dispatch are issues the tracker returned in this tick.
CandidatesFetched == phase = "dispatch" => todo.keys \subseteq Candidates

IInv == TypeOK /\ Consistent(st) /\ CandidatesFetched

LEMMA InitEstablishes == Init => IInv
  <1> SUFFICES ASSUME Init PROVE IInv
    OBVIOUS
  <1>1. Consistent(st)
    BY InitStateConsistent DEF Init
  <1>2. poll \in [Sources -> [ids: SUBSET IssueIds, recon: Answer, cand: Answer]]
    BY DEF Init, NoPoll, Unasked, Nothing, Answer
  <1>3. TypeOK
    BY <1>1, <1>2, RunnerAssumption
    DEF Init, TypeOK, Consistent, Phases
  <1>4. QED
    BY <1>1, <1>3 DEF IInv, CandidatesFetched, Init

\* dispatch_issue of an issue nothing of which is claimed in `base`.
LEMMA DispatchIssueConsistent ==
  ASSUME NEW base, Consistent(base), NEW k \in Key, NEW issue \in Issue,
         NEW attempt \in Nat, NEW target \in Targets, ~IsClaimed(base, k, issue),
         TypeOK, DispatchIssue(base, k, issue, attempt, target)
  PROVE  /\ Consistent(st')
         /\ workers' \in [Key -> [generation: Nat, target: Targets] \cup {None}]
         /\ next_generation' \in Nat
         /\ alive' \subseteq Task
         /\ disturbances' \in 0..MaxDisturbances
  <1> DEFINE g == next_generation + 1
             t == ClaimRunning(base, k, issue, attempt, target)
  <1>1. Consistent(t)
    BY ClaimRunningConsistent
  <1> HIDE DEF t
  <1>2. g \in Nat
    BY DEF TypeOK
  <1>3. CASE StartWorker(base, k, issue, attempt, target)
    <2>1. Consistent(st')
      BY <1>1, <1>2, <1>3, SetRunningGenerationConsistent DEF StartWorker, t
    <2>2. [key |-> k, generation |-> g, name |-> issue.name, target |-> target,
           marks_started |-> MarksStarted(k[1], issue), terminal |-> FALSE,
           stage |-> "spawned"] \in Task
      BY <1>2 DEF Task, Issue, MarksStarted
    <2>3. QED
      BY <1>2, <1>3, <2>1, <2>2 DEF StartWorker, TypeOK
  <1>4. CASE FailPreparation(base, k, issue, attempt, target)
    <2>1. Consistent(st')
      BY <1>1, <1>4, WorkerExitConsistent DEF FailPreparation, t, Reasons
    <2>2. QED
      BY <1>4, <2>1, RunnerAssumption DEF FailPreparation, TypeOK, Disturb
  <1>5. QED
    BY <1>3, <1>4 DEF DispatchIssue

\* Every target a dispatch may choose is a target.
LEMMA TargetsAreTargets ==
  ASSUME TypeOK
  PROVE  /\ \A s \in Sources : SelectExecutionTarget(s) \subseteq Targets
         /\ \A k \in RetryKeys(st) : RetryTarget(k) \subseteq Targets
  BY DEF SelectExecutionTarget, RetryTarget, Targets, TypeOK, StateType, RetryEntry, RetryKeys, Key

\* A fetched candidate is an issue, and a retry in hand is one.
LEMMA CandidateIsIssue ==
  ASSUME TypeOK, NEW k \in Candidates
  PROVE  k \in Key /\ Candidate(k) \in Issue
  BY DEF TypeOK, Candidates, Candidate, Answer, Key

\* Ending a task, whatever the reason, keeps the registry and the tasks well typed.
LEMMA AbortWorkerType ==
  ASSUME TypeOK, NEW k \in Key, AbortWorker(k)
  PROVE  /\ workers' \in [Key -> [generation: Nat, target: Targets] \cup {None}]
         /\ alive' \subseteq Task
  BY DEF TypeOK, AbortWorker

LEMMA DisturbType ==
  ASSUME TypeOK, Disturb \/ UNCHANGED disturbances
  PROVE  disturbances' \in 0..MaxDisturbances
  BY RunnerAssumption DEF TypeOK, Disturb

LEMMA RemoveDirType ==
  ASSUME TypeOK, NEW d, RemoveDir(d)
  PROVE  dirs' \subseteq Dirs /\ disturbances' \in 0..MaxDisturbances
  BY RunnerAssumption DEF TypeOK, RemoveDir, Disturb

LEMMA LeaveTickType ==
  ASSUME TypeOK, LeaveTick
  PROVE  /\ phase' \in {"prune", "select"}
         /\ todo' \in [sources: SUBSET Sources, keys: SUBSET Key]
         /\ poll' \in [Sources -> [ids: SUBSET IssueIds, recon: Answer, cand: Answer]]
         /\ runs' \subseteq Sources
  BY DEF LeaveTick, TypeOK, NoPoll, Unasked, Nothing, Answer

\* One answer of one source arrives: the others stay as they were.
LEMMA AnswerRecorded ==
  ASSUME TypeOK, NEW s \in Sources, NEW a \in Answer,
         \/ poll' = [poll EXCEPT ![s].recon = a]
         \/ poll' = [poll EXCEPT ![s].cand = a]
  PROVE  poll' \in [Sources -> [ids: SUBSET IssueIds, recon: Answer, cand: Answer]]
  <1> DEFINE Polled == [ids: SUBSET IssueIds, recon: Answer, cand: Answer]
  <1>1. poll \in [Sources -> Polled]
    BY DEF TypeOK
  <1>2. /\ [poll[s] EXCEPT !.recon = a] \in Polled
        /\ [poll[s] EXCEPT !.cand = a] \in Polled
    BY <1>1
  <1> HIDE DEF Polled
  <1>3. poll' \in [Sources -> Polled]
    BY <1>1, <1>2
  <1>4. QED
    BY <1>3 DEF Polled

\* A failed answer is an answer.
LEMMA FailedAnswerType ==
  ASSUME TypeOK, NEW s \in Sources
  PROVE  /\ [poll[s].recon EXCEPT !.status = "failed"] \in Answer
         /\ [poll[s].cand EXCEPT !.status = "failed"] \in Answer
  BY DEF TypeOK, Answer

\* The tick up to its answers changes no claim.
LEMMA PollSteps ==
  ASSUME IInv,
         \/ \E s \in Sources :
               StartupCleanup(s) \/ FetchReconciliation(s) \/ FetchCandidates(s)
         \/ FirstTick \/ PlanPolls \/ EndPoll
  PROVE  IInv'
  <1>1. ASSUME NEW s \in Sources, StartupCleanup(s) PROVE IInv'
    <2>1. dirs' \subseteq Dirs /\ disturbances' \in 0..MaxDisturbances
      BY RunnerAssumption, <1>1 DEF IInv, StartupCleanup, TypeOK, Disturb
    <2>2. todo' \in [sources: SUBSET Sources, keys: SUBSET Key]
      BY <1>1 DEF IInv, StartupCleanup, TypeOK
    <2>3. UNCHANGED <<st, workers, next_generation, alive, outcomes, phase, poll, runs,
                      retention_pending, tracker, name>>
      BY <1>1 DEF StartupCleanup
    <2>4. TypeOK'
      BY <2>1, <2>2, <2>3 DEF IInv, TypeOK
    <2>5. Consistent(st)'
      BY <2>3 DEF IInv
    <2>6. phase' # "dispatch"
      BY <1>1 DEF StartupCleanup
    <2>7. QED
      BY <2>4, <2>5, <2>6 DEF IInv, CandidatesFetched
  <1> USE RunnerAssumption DEF IInv
  <1>2. CASE FirstTick
    BY <1>2 DEF FirstTick, TypeOK, Phases, world, CandidatesFetched
  <1>3. CASE PlanPolls
    <2>1. poll' \in [Sources -> [ids: SUBSET IssueIds, recon: Answer, cand: Answer]]
      <3> USE DEF Unasked, Nothing, Answer
      <3>1. QED
        BY <1>3 DEF PlanPolls
    <2>2. disturbances' \in 0..MaxDisturbances
      BY <1>3 DEF PlanPolls, TypeOK, Disturb
    <2>3. QED
      BY <1>3, <2>1, <2>2 DEF PlanPolls, TypeOK, Phases, world, CandidatesFetched
  <1>4. ASSUME NEW s \in Sources, FetchReconciliation(s) PROVE IInv'
    <2>1. SeenByIds(s) \in [IssueIds -> Issue \cup {None}]
      BY DEF SeenByIds, TypeOK, IssueSeen, Issue, Key
    <2>2. \E a \in Answer : poll' = [poll EXCEPT ![s].recon = a]
      <3>1. CASE poll' = [poll EXCEPT ![s].recon = [status |-> "ok", seen |-> SeenByIds(s)]]
        BY <2>1, <3>1 DEF Answer
      <3>2. CASE poll' = [poll EXCEPT ![s].recon.status = "failed"]
        BY <3>2, FailedAnswerType DEF TypeOK
      <3>3. QED
        BY <1>4, <3>1, <3>2 DEF FetchReconciliation
    <2>3. poll' \in [Sources -> [ids: SUBSET IssueIds, recon: Answer, cand: Answer]]
      BY <2>2, AnswerRecorded
    <2>4. QED
      BY <1>4, <2>3 DEF FetchReconciliation, TypeOK, Disturb, world, CandidatesFetched
  <1>5. ASSUME NEW s \in Sources, FetchCandidates(s) PROVE IInv'
    <2>1. SeenActive(s) \in [IssueIds -> Issue \cup {None}]
      BY ConfigAssumption DEF SeenActive, TypeOK, IssueSeen, Issue, Key
    <2>2. \E a \in Answer : poll' = [poll EXCEPT ![s].cand = a]
      <3>1. CASE poll' = [poll EXCEPT ![s].cand = [status |-> "ok", seen |-> SeenActive(s)]]
        BY <2>1, <3>1 DEF Answer
      <3>2. CASE poll' = [poll EXCEPT ![s].cand.status = "failed"]
        BY <3>2, FailedAnswerType DEF TypeOK
      <3>3. QED
        BY <1>5, <3>1, <3>2 DEF FetchCandidates
    <2>3. poll' \in [Sources -> [ids: SUBSET IssueIds, recon: Answer, cand: Answer]]
      BY <2>2, AnswerRecorded
    <2>4. QED
      BY <1>5, <2>3 DEF FetchCandidates, TypeOK, Disturb, world, CandidatesFetched
  <1>6. CASE EndPoll
    BY <1>6 DEF EndPoll, TypeOK, Phases, world, CandidatesFetched
  <1>7. QED
    BY <1>1, <1>2, <1>3, <1>4, <1>5, <1>6

\* A stalled worker is aborted and its issue queued.
LEMMA ReconcileStalledStep ==
  ASSUME IInv, NEW k \in Key, ReconcileStalled(k)
  PROVE  IInv'
  <1> USE RunnerAssumption DEF IInv
  <1>1. Consistent(st')
    BY WorkerExitConsistent DEF ReconcileStalled, Reasons
  <1>2. TypeOK'
    BY <1>1, AbortWorkerType
    DEF ReconcileStalled, Consistent, TypeOK, loop, world, Disturb
  <1>3. QED
    BY <1>1, <1>2 DEF ReconcileStalled, CandidatesFetched, loop

\* Reconciliation releases only what it stops.
LEMMA ReconcileIssueStep ==
  ASSUME IInv, NEW k \in Key, ReconcileIssue(k)
  PROVE  IInv'
  <1> USE RunnerAssumption DEF IInv
  <1> DEFINE latest == poll[k[1]].recon.seen[k[2]]
             decision == ReconcileDecision(st, k, latest)
  <1>1. latest \in Issue \cup {None}
    BY DEF TypeOK, Answer, Key
  <1>2. /\ decision # "NoRunningEntry" => k \in RunningKeys(st)
        /\ decision \in {"CancelTerminal", "RefreshedActive"} => latest \in Issue
    BY <1>1 DEF ReconcileDecision, RunningKeys
  <1>3. CASE decision = "CancelTerminal"
    <2>1. Consistent(st')
      <3>1. k \in RunningKeys(st) /\ latest \in Issue /\ Consistent(st)
        BY <1>2, <1>3
      <3>2. Consistent(RefreshIssue(st, k, latest)) /\ k \in RunningKeys(RefreshIssue(st, k, latest))
        BY <3>1, RefreshIssueConsistent
      <3>3. st' = ReleaseIssue(RefreshIssue(st, k, latest), k)
        BY <1>3 DEF ReconcileIssue
      <3>4. QED
        BY <3>2, <3>3, ReleaseIssueConsistent
    <2>2. QED
      BY <1>3, <2>1, AbortWorkerType, RemoveDirType
      DEF ReconcileIssue, Consistent, TypeOK, CandidatesFetched
  <1>4. CASE decision \in {"CancelNonActive", "MissingFromTracker"}
    <2>1. Consistent(st')
      <3>1. k \in RunningKeys(st) /\ Consistent(st)
        BY <1>2, <1>4
      <3>2. st' = ReleaseIssue(st, k)
        BY <1>4 DEF ReconcileIssue
      <3>3. QED
        BY <3>1, <3>2, ReleaseIssueConsistent
    <2>2. QED
      BY <1>4, <2>1, AbortWorkerType
      DEF ReconcileIssue, Consistent, TypeOK, CandidatesFetched
  <1>5. CASE decision \in {"NoRunningEntry", "RefreshedActive"}
    <2>1. Consistent(st')
      <3>1. CASE decision = "RefreshedActive"
        <4>1. k \in RunningKeys(st) /\ latest \in Issue /\ Consistent(st)
          BY <1>2, <3>1
        <4>2. st' = RefreshIssue(st, k, latest)
          BY <3>1 DEF ReconcileIssue
        <4>3. QED
          BY <4>1, <4>2, RefreshIssueConsistent
      <3>2. CASE decision = "NoRunningEntry"
        BY <3>2 DEF ReconcileIssue
      <3>3. QED
        BY <1>5, <3>1, <3>2
    <2>2. QED
      BY <1>5, <2>1 DEF ReconcileIssue, Consistent, TypeOK, CandidatesFetched
  <1>6. QED
    BY <1>3, <1>4, <1>5 DEF ReconcileIssue

\* Candidates taken over, dispatch begun, retries begun, the tick left.
LEMMA DispatchLoopSteps ==
  ASSUME IInv,
         \/ \E s \in Sources : ApplyCandidates(s) \/ StartRetries(s) \/ PruneOrphans(s)
         \/ BeginDispatch \/ BeginRetries \/ EndTick \/ EndPrune
  PROVE  IInv'
  <1> USE RunnerAssumption DEF IInv
  <1>1. ASSUME NEW s \in Sources, ApplyCandidates(s) PROVE IInv'
    <2>1. Consistent(st')
      BY <1>1, RescheduleConsistent DEF ApplyCandidates
    <2>2. QED
      BY <1>1, <2>1 DEF ApplyCandidates, Consistent, TypeOK, world, CandidatesFetched
  <1>2. CASE BeginDispatch
    <2>1. CASE MayDispatch
      <3>1. Candidates \subseteq Key /\ Candidates' = Candidates
        BY <1>2, <2>1 DEF BeginDispatch, Candidates
      <3>2. QED
        BY <1>2, <2>1, <3>1 DEF BeginDispatch, TypeOK, Phases, world, CandidatesFetched
    <2>2. CASE ~MayDispatch
      BY <1>2, <2>2, LeaveTickType DEF BeginDispatch, TypeOK, Phases, world, CandidatesFetched
    <2>3. QED
      BY <2>1, <2>2
  <1>3. CASE BeginRetries
    BY <1>3 DEF BeginRetries, TypeOK, Phases, world, CandidatesFetched
  <1>4. ASSUME NEW s \in Sources, StartRetries(s) PROVE IInv'
    <2>1. DueRetryKeys(st, s) \subseteq Key
      BY DEF DueRetryKeys, RetryKeys
    <2>2. QED
      BY <1>4, <2>1 DEF StartRetries, TypeOK, world, CandidatesFetched
  <1>5. CASE EndTick
    BY <1>5, LeaveTickType DEF EndTick, TypeOK, Phases, world, CandidatesFetched
  <1>6. ASSUME NEW s \in Sources, PruneOrphans(s) PROVE IInv'
    BY <1>6 DEF PruneOrphans, TypeOK, CandidatesFetched
  <1>7. CASE EndPrune
    BY <1>7 DEF EndPrune, TypeOK, Phases, world, CandidatesFetched
  <1>8. QED
    BY <1>1, <1>2, <1>3, <1>4, <1>5, <1>6, <1>7

\* A candidate is dispatched only when nothing of it is claimed.
LEMMA DispatchCandidateStep ==
  ASSUME IInv, NEW k \in Key, DispatchCandidate(k)
  PROVE  IInv'
  <1> USE DEF IInv
  <1>1. /\ todo' \in [sources: SUBSET Sources, keys: SUBSET Key]
        /\ CandidatesFetched'
    BY DEF DispatchCandidate, TypeOK, CandidatesFetched, Candidates
  <1>2. CASE UNCHANGED <<st, workers, next_generation, alive, disturbances>>
    BY <1>1, <1>2 DEF DispatchCandidate, TypeOK, world
  <1>3. CASE /\ Eligible(st, k, Candidate(k))
             /\ \E target \in SelectExecutionTarget(k[1]) :
                   DispatchIssue(st, k, Candidate(k), 0, target)
    <2>1. PICK target \in SelectExecutionTarget(k[1]) :
             DispatchIssue(st, k, Candidate(k), 0, target)
      BY <1>3
    <2>2. Candidate(k) \in Issue /\ target \in Targets /\ 0 \in Nat
      BY CandidateIsIssue, TargetsAreTargets DEF DispatchCandidate, CandidatesFetched, Key
    <2>3. ~IsClaimed(st, k, Candidate(k))
      BY <1>3 DEF Eligible
    <2>4. /\ Consistent(st')
          /\ workers' \in [Key -> [generation: Nat, target: Targets] \cup {None}]
          /\ next_generation' \in Nat /\ alive' \subseteq Task
          /\ disturbances' \in 0..MaxDisturbances
      BY <2>1, <2>2, <2>3, DispatchIssueConsistent
    <2>5. QED
      BY <1>1, <2>4 DEF DispatchCandidate, Consistent, TypeOK, world
  <1>4. QED
    BY <1>2, <1>3 DEF DispatchCandidate

\* A due retry is forgotten, put back as it was or dispatched from a free workspace.
LEMMA RetryIssueStep ==
  ASSUME IInv, NEW k \in Key, RetryIssue(k)
  PROVE  IInv'
  <1> USE DEF IInv
  <1> DEFINE base == TakeRetry(st, k)
             retry == st.retry_attempts[k]
  <1>1. /\ todo' \in [sources: SUBSET Sources, keys: SUBSET Key]
        /\ phase' = "retry"
    BY DEF RetryIssue, TypeOK
  <1>2. k \in RetryKeys(st)
    BY DEF RetryIssue, Takeable, RetryKeys
  <1>3. Consistent(base)
    BY <1>2, TakeRetryConsistent
  <1>4. retry \in RetryEntry
    BY <1>2 DEF TypeOK, StateType, RetryKeys
  <1> HIDE DEF base, retry
  <1>5. CASE /\ st' \in {base, RequeueRetry(base, k, retry)}
             /\ UNCHANGED <<workers, next_generation, alive, disturbances>>
    <2>1. Consistent(st')
      BY <1>2, <1>3, <1>5, PutBackConsistent DEF base, retry
    <2>2. QED
      BY <1>1, <1>5, <2>1 DEF RetryIssue, Consistent, TypeOK, world, CandidatesFetched
  <1>6. CASE /\ k \in Candidates
             /\ Eligible(base, k, Candidate(k))
             /\ \E target \in RetryTarget(k) :
                   DispatchIssue(base, k, Candidate(k), retry.attempt, target)
    <2>1. PICK target \in RetryTarget(k) :
             DispatchIssue(base, k, Candidate(k), retry.attempt, target)
      BY <1>6
    <2>2. Candidate(k) \in Issue /\ target \in Targets /\ retry.attempt \in Nat
      BY <1>2, <1>4, <1>6, CandidateIsIssue, TargetsAreTargets DEF RetryEntry
    <2>3. ~IsClaimed(base, k, Candidate(k))
      BY <1>6 DEF Eligible
    <2>4. /\ Consistent(st')
          /\ workers' \in [Key -> [generation: Nat, target: Targets] \cup {None}]
          /\ next_generation' \in Nat /\ alive' \subseteq Task
          /\ disturbances' \in 0..MaxDisturbances
      BY <1>3, <2>1, <2>2, <2>3, DispatchIssueConsistent
    <2>5. QED
      BY <1>1, <2>4 DEF RetryIssue, Consistent, TypeOK, world, CandidatesFetched
  <1>7. QED
    BY <1>5, <1>6 DEF RetryIssue, base, retry

\* An outcome ends the running entry of the worker it came from, or nothing.
LEMMA ApplyOutcomePreserves ==
  ASSUME IInv, ApplyWorkerOutcome
  PROVE  /\ Consistent(st')
         /\ workers' \in [Key -> [generation: Nat, target: Targets] \cup {None}]
         /\ outcomes' \in Seq(Outcome)
         /\ dirs' \subseteq Dirs
         /\ disturbances' \in 0..MaxDisturbances
  <1> USE RunnerAssumption DEF IInv
  <1> DEFINE o == Head(outcomes)
             entry == st.running[o.key]
             current == MatchesTask(o)
  <1>1. o \in Outcome /\ outcomes' \in Seq(Outcome)
    <2>1. outcomes \in Seq(Outcome) /\ outcomes # <<>> /\ outcomes' = Tail(outcomes)
      BY DEF ApplyWorkerOutcome, TypeOK
    <2>2. QED
      BY <2>1
  <1>2. o.key \in Key /\ o.reason \in Reasons
    BY <1>1 DEF Outcome
  <1> HIDE DEF o
  <1>3. CASE ~current /\ UNCHANGED <<st, workers, dirs, disturbances>>
    BY <1>1, <1>3 DEF TypeOK
  <1>4. CASE /\ current /\ entry # None
             /\ workers' = [workers EXCEPT ![o.key] = None]
             /\ st' = ReleaseIssue(st, o.key)
             /\ RemoveDir(WorkspaceDir(entry.target, o.key, entry.issue.name))
    <2>1. Consistent(st')
      BY <1>2, <1>4, ReleaseIssueConsistent DEF RunningKeys
    <2>2. QED
      BY <1>1, <1>2, <1>4, <2>1, RemoveDirType DEF TypeOK
  <1>5. CASE /\ current
             /\ workers' = [workers EXCEPT ![o.key] = None]
             /\ st' = WorkerExit(st, o.key, o.reason)
             /\ UNCHANGED <<dirs, disturbances>>
    <2>1. Consistent(st')
      BY <1>2, <1>5, WorkerExitConsistent
    <2>2. QED
      BY <1>1, <1>2, <1>5, <2>1 DEF TypeOK
  <1>6. QED
    BY <1>3, <1>4, <1>5 DEF ApplyWorkerOutcome, o

\* Whatever the select takes: an outcome, a timer, an operator's command, the end.
LEMMA SelectSteps ==
  ASSUME IInv,
         \/ ReceiveOutcome \/ Wake \/ Drain \/ Resume \/ Shutdown
         \/ \E k \in Key : PromoteRetry(k)
         \/ \E k \in Key, g \in Nat : AbortByOperator(k, g)
         \/ ReceiveWhileStopping \/ StopTimeout \/ Stop
  PROVE  IInv'
  <1> USE RunnerAssumption DEF IInv
  <1>1. CASE ReceiveOutcome
    BY <1>1, ApplyOutcomePreserves
    DEF ReceiveOutcome, Consistent, TypeOK, Phases, CandidatesFetched
  <1>2. CASE Wake
    BY <1>2 DEF Wake, TypeOK, Phases, world, CandidatesFetched
  <1>3. CASE Drain
    <2>1. Consistent(st') /\ disturbances' \in 0..MaxDisturbances
      BY <1>3, SetDrainingConsistent, DisturbType DEF Drain
    <2>2. QED
      BY <1>3, <2>1 DEF Drain, Consistent, TypeOK, Phases, world, CandidatesFetched
  <1>4. CASE Resume
    BY <1>4, SetDrainingConsistent
    DEF Resume, Consistent, TypeOK, Phases, world, CandidatesFetched
  <1>5. CASE Shutdown
    BY <1>5, SetDrainingConsistent
    DEF Shutdown, Consistent, TypeOK, Phases, world, CandidatesFetched
  <1>6. ASSUME NEW k \in Key, PromoteRetry(k) PROVE IInv'
    <2>1. Consistent(st')
      BY <1>6, SetRetryDueConsistent DEF PromoteRetry, RetryKeys
    <2>2. QED
      BY <1>6, <2>1 DEF PromoteRetry, Consistent, TypeOK, Phases, world, CandidatesFetched
  <1>7. ASSUME NEW k \in Key, NEW g \in Nat, AbortByOperator(k, g) PROVE IInv'
    <2>1. Consistent(st') /\ disturbances' \in 0..MaxDisturbances
      BY <1>7, WorkerExitConsistent DEF AbortByOperator, Reasons, TypeOK, Disturb
    <2>2. /\ workers' \in [Key -> [generation: Nat, target: Targets] \cup {None}]
          /\ alive' \subseteq Task
      BY <1>7, AbortWorkerType DEF AbortByOperator, TypeOK
    <2>3. QED
      BY <1>7, <2>1, <2>2
      DEF AbortByOperator, Consistent, TypeOK, Phases, world, CandidatesFetched
  <1>8. CASE ReceiveWhileStopping
    BY <1>8, ApplyOutcomePreserves
    DEF ReceiveWhileStopping, Consistent, TypeOK, loop, CandidatesFetched
  <1>9. CASE StopTimeout
    BY <1>9 DEF StopTimeout, TypeOK, loop, world, CandidatesFetched
  <1>10. CASE Stop
    BY <1>10 DEF Stop, TypeOK, Phases, world, CandidatesFetched
  <1>11. QED
    BY <1>1, <1>2, <1>3, <1>4, <1>5, <1>6, <1>7, <1>8, <1>9, <1>10

\* A task that ends reports an outcome; one that goes on stays a task.
LEMMA FinishType ==
  ASSUME TypeOK, NEW w \in alive, NEW reason \in Reasons, NEW terminal \in BOOLEAN,
         Finish(w, reason, terminal)
  PROVE  alive' \subseteq Task /\ outcomes' \in Seq(Outcome)
  <1>1. [key |-> w.key, generation |-> w.generation,
         reason |-> reason, terminal |-> terminal] \in Outcome
    BY DEF TypeOK, Task, Outcome
  <1>2. QED
    BY <1>1 DEF Finish, TypeOK

LEMMA AdvanceType ==
  ASSUME TypeOK, NEW w \in alive, NEW stage \in {"prepared", "working"},
         stage = "prepared" => w.marks_started, Advance(w, stage)
  PROVE  alive' \subseteq Task /\ outcomes' \in Seq(Outcome)
  <1>1. [w EXCEPT !.stage = stage] \in Task
    BY DEF TypeOK, Task
  <1>2. QED
    BY <1>1 DEF Advance, TypeOK

\* A worker task touches neither the claims nor the registry.
LEMMA WorkerSteps ==
  ASSUME IInv, NEW w \in alive, WorkerStep(w)
  PROVE  IInv'
  <1> USE RunnerAssumption DEF IInv
  <1>1. w \in Task
    BY DEF TypeOK
  <1>2. UNCHANGED service => (CandidatesFetched' /\ Consistent(st)')
    BY DEF service, loop, CandidatesFetched, Candidates
  <1>3. CASE PrepareWorkspace(w)
    <2>1. WorkspaceDir(w.target, w.key, w.name) \in Dirs
      BY <1>1 DEF WorkspaceDir, Dirs, Task, Key, WorkspaceKey
    <2>2. QED
      BY <1>2, <1>3, <2>1, AdvanceType DEF PrepareWorkspace, TypeOK, service, loop
  <1>4. CASE MarkStarted(w)
    <2>1. StartedState[w.key[1]] \in States \cup {None}
      BY <1>1 DEF Task, Key
    <2>2. tracker' \in [Key -> States \cup {Absent}]
      BY <1>1, <1>4, <2>1 DEF MarkStarted, TypeOK, Task
    <2>3. QED
      BY <1>2, <1>4, <2>2, AdvanceType DEF MarkStarted, TypeOK, service, loop
  <1>5. CASE AgentResolves(w)
    <2>1. tracker' \in [Key -> States \cup {Absent}]
      BY <1>1, <1>5, ConfigAssumption DEF AgentResolves, TypeOK, Task, Key
    <2>2. QED
      BY <1>2, <1>5, <2>1 DEF AgentResolves, TypeOK, service, loop
  <1>6. CASE EndOfTurns(w)
    <2> DEFINE done == tracker[w.key] \in TerminalStates[w.key[1]]
               completing == [w EXCEPT !.stage = "completing", !.terminal = done]
    <2>1. done \in BOOLEAN
      OBVIOUS
    <2>2. completing \in Task
      <3> HIDE DEF done
      <3>1. [w EXCEPT !.terminal = done] \in Task
        BY <1>1, <1>6, <2>1 DEF Task
      <3>2. QED
        BY <1>1, <1>6, <3>1 DEF Task, EndOfTurns
    <2>3. \/ \E reason \in Reasons, terminal \in BOOLEAN : Finish(w, reason, terminal)
          \/ alive' = (alive \ {w}) \cup {completing} /\ UNCHANGED outcomes
      BY <1>6 DEF EndOfTurns, Reasons
    <2>4. alive' \subseteq Task /\ outcomes' \in Seq(Outcome)
      BY <2>2, <2>3, FinishType DEF TypeOK
    <2>5. disturbances' \in 0..MaxDisturbances
      BY <1>6, DisturbType DEF EndOfTurns
    <2>6. QED
      BY <1>2, <1>6, <2>4, <2>5 DEF EndOfTurns, TypeOK, service, loop, world
  <1>7. CASE CompleteIssue(w)
    <2>1. alive' \subseteq Task /\ outcomes' \in Seq(Outcome)
      <3>1. w.terminal \in BOOLEAN /\ {"failed", "normal"} \subseteq Reasons
        BY <1>1 DEF Task, Reasons
      <3>2. \E reason \in Reasons, terminal \in BOOLEAN : Finish(w, reason, terminal)
        BY <1>7, <3>1 DEF CompleteIssue
      <3>3. QED
        BY <3>2, FinishType
    <2>2. HandoffState[w.key] \in States
      BY <1>1 DEF Task
    <2>3. tracker' \in [Key -> States \cup {Absent}]
      BY <1>1, <1>7, <2>2 DEF CompleteIssue, TypeOK
    <2>4. dirs' \subseteq Dirs /\ disturbances' \in 0..MaxDisturbances
      BY <1>7, RemoveDirType, DisturbType DEF CompleteIssue, TypeOK
    <2>6. QED
      BY <1>2, <1>7, <2>1, <2>3, <2>4 DEF CompleteIssue, TypeOK, service, loop
  <1>8. CASE FailWorker(w)
    <2>1. alive' \subseteq Task /\ outcomes' \in Seq(Outcome)
      BY <1>8, FinishType DEF FailWorker, Reasons
    <2>2. QED
      BY <1>2, <1>8, <2>1 DEF FailWorker, TypeOK, service, loop, world, Disturb
  <1>9. QED
    BY <1>3, <1>4, <1>5, <1>6, <1>7, <1>8 DEF WorkerStep

\* Users move and rename issues and retries fall due.
LEMMA EnvironmentSteps ==
  ASSUME IInv, Environment
  PROVE  IInv'
  <1> USE RunnerAssumption DEF IInv
  <1>1. ASSUME NEW k \in Key, TrackerMove(k) PROVE IInv'
    <2>1. tracker' \in [Key -> States \cup {Absent}] /\ disturbances' \in 0..MaxDisturbances
      BY <1>1, DisturbType DEF TrackerMove, TypeOK
    <2>2. UNCHANGED <<st, workers, next_generation, phase, todo, poll, runs, retention_pending,
                      alive, outcomes, name, dirs>>
      BY <1>1 DEF TrackerMove, service, loop
    <2>3. TypeOK'
      BY <2>1, <2>2 DEF TypeOK
    <2>4. QED
      BY <2>2, <2>3 DEF CandidatesFetched, Candidates
  <1>2. ASSUME NEW i \in IssueIds, Rename(i) PROVE IInv'
    <2>1. name' \in [IssueIds -> Names] /\ disturbances' \in 0..MaxDisturbances
      BY <1>2, DisturbType DEF Rename, TypeOK
    <2>2. UNCHANGED <<st, workers, next_generation, phase, todo, poll, runs, retention_pending,
                      alive, outcomes, tracker, dirs>>
      BY <1>2 DEF Rename, service, loop
    <2>3. TypeOK'
      BY <2>1, <2>2 DEF TypeOK
    <2>4. QED
      BY <2>2, <2>3 DEF CandidatesFetched, Candidates
  <1>3. ASSUME NEW k \in Key, BecomeDue(k) PROVE IInv'
    <2>1. Consistent(st')
      BY <1>3, SetRetryDueConsistent DEF BecomeDue, RetryKeys
    <2>2. QED
      BY <1>3, <2>1
      DEF BecomeDue, Consistent, TypeOK, loop, world, CandidatesFetched, Candidates
  <1>4. QED
    BY <1>1, <1>2, <1>3 DEF Environment

LEMMA NextPreserves == IInv /\ [Next]_vars => IInv'
  <1> SUFFICES ASSUME IInv, [Next]_vars PROVE IInv'
    OBVIOUS
  <1>1. CASE TickStep
    <2>1. ASSUME NEW s \in Sources,
                 \/ StartupCleanup(s) \/ FetchReconciliation(s)
                 \/ FetchCandidates(s) \/ ApplyCandidates(s)
                 \/ StartRetries(s) \/ PruneOrphans(s)
          PROVE  IInv'
      BY <2>1, PollSteps, DispatchLoopSteps
    <2>2. CASE FirstTick \/ PlanPolls \/ EndPoll \/ BeginDispatch \/ BeginRetries
               \/ EndTick \/ EndPrune
      BY <2>2, PollSteps, DispatchLoopSteps
    <2>3. ASSUME NEW k \in Key, ReconcileIssue(k) \/ DispatchCandidate(k) \/ RetryIssue(k)
          PROVE  IInv'
      BY <2>3, ReconcileIssueStep, DispatchCandidateStep, RetryIssueStep
    <2>4. QED
      BY <1>1, <2>1, <2>2, <2>3 DEF TickStep
  <1>2. ASSUME NEW k \in Key, ReconcileStalled(k) PROVE IInv'
    BY <1>2, ReconcileStalledStep
  <1>3. CASE OperatorStep
    <2>1. next_generation \in Nat
      BY DEF IInv, TypeOK
    <2>2. QED
      BY <1>3, <2>1, SelectSteps DEF OperatorStep
  <1>4. CASE ReceiveOutcome \/ Wake \/ StopStep
    BY <1>4, SelectSteps DEF StopStep
  <1>5. ASSUME NEW w \in alive, WorkerStep(w) PROVE IInv'
    BY <1>5, WorkerSteps
  <1>6. CASE Environment
    BY <1>6, EnvironmentSteps
  <1>7. CASE UNCHANGED vars
    BY <1>7 DEF vars, loop, world, IInv, TypeOK, Consistent, CandidatesFetched, Candidates
  <1>8. QED
    BY <1>1, <1>2, <1>3, <1>4, <1>5, <1>6, <1>7 DEF Next, Stopped

LEMMA Inductive == Spec => []IInv
  BY InitEstablishes, NextPreserves, PTL DEF Spec

\* Every variable of the service keeps its type in every reachable state.
THEOREM TypeCorrect == Spec => []TypeOK
  <1>1. IInv => TypeOK
    BY DEF IInv
  <1>2. QED
    BY <1>1, Inductive, PTL

\* Whatever workers, operators, trackers and clocks do, the claims of the orchestrator
\* are exactly those of its running entries and queued retries: none leaks, none is missing.
THEOREM ClaimsExactAlways == Spec => []ClaimsExact
  <1>1. IInv => ClaimsExact
    BY DEF IInv, Consistent, ClaimsExact
  <1>2. QED
    BY <1>1, Inductive, PTL

\* No two running or queued issues ever share an issue id or a workspace, over any
\* number of sources, and none is running and queued at once.
THEOREM ExclusiveOwnershipAlways == Spec => []ExclusiveOwnership
  <1>1. IInv => ExclusiveOwnership
    BY DEF IInv, Consistent, ExclusiveOwnership
  <1>2. QED
    BY <1>1, Inductive, PTL

-----------------------------------------------------------------------------
(* The workers. *)

\* A live agent is the registered task of its key, on the registered target, and works
\* where the entry says.
Registered(w) ==
    /\ workers[w.key] # None
    /\ workers[w.key].generation = w.generation
    /\ workers[w.key].target = w.target
    /\ st.running[w.key].workspace_key = <<w.key[1], w.name>>

AliveRegistered ==
    /\ \A w \in alive : Registered(w)
    /\ \A v, w \in alive : v.key = w.key => v = w

\* No task and no outcome carries a number that is still to be given.
Numbered ==
    /\ \A k \in Key : workers[k] # None => workers[k].generation <= next_generation
    /\ \A n \in DOMAIN outcomes : outcomes[n].generation <= next_generation

TasksRunning ==
    \A k \in Key : workers[k] # None =>
        /\ st.running[k] # None
        /\ st.running[k].generation = workers[k].generation
        /\ st.running[k].target = workers[k].target

\* The n-th outcome of the channel comes from the registered task of k.
AnswerAt(n, k) ==
    /\ n \in DOMAIN outcomes
    /\ outcomes[n].key = k /\ outcomes[n].generation = workers[k].generation

AnswersOnce ==
    \A k \in Key : workers[k] # None =>
        \/ (\E w \in alive : w.key = k) /\ (\A n : ~AnswerAt(n, k))
        \/ /\ \A w \in alive : w.key # k
           /\ \E n : AnswerAt(n, k) /\ \A m : AnswerAt(m, k) => m = n

Books == AliveRegistered /\ Numbered /\ TasksRunning /\ AnswersOnce

\* Until shutdown every running entry has its task; at the end there is none; the tick
\* dispatches only when it is not draining.
RunningTasked == phase \notin {"stopping", "stopped"} =>
                    \A k \in Key : st.running[k] # None => workers[k] # None
StoppedTaskless == phase = "stopped" => NoTasks
DispatchUndrained == phase \in {"dispatch", "retry"} => ~st.draining

WInv == IInv /\ Books /\ RunningTasked /\ StoppedTaskless /\ DispatchUndrained

-----------------------------------------------------------------------------
(* What the operations of the record do to its entries. *)

\* Releasing an id or workspaces touches the claims, never an entry.
LEMMA ReleasesKeepEntries ==
  ASSUME NEW s \in StateType, NEW i, NEW W
  PROVE  /\ ReleaseTrackerIssueIdIfUnowned(s, i) \in StateType
         /\ ReleaseTrackerIssueIdIfUnowned(s, i).running = s.running
         /\ ReleaseTrackerIssueIdIfUnowned(s, i).retry_attempts = s.retry_attempts
         /\ ReleaseTrackerIssueIdIfUnowned(s, i).draining = s.draining
         /\ ReleaseWorkspaceKeysIfUnowned(s, W) \in StateType
         /\ ReleaseWorkspaceKeysIfUnowned(s, W).running = s.running
         /\ ReleaseWorkspaceKeysIfUnowned(s, W).retry_attempts = s.retry_attempts
         /\ ReleaseWorkspaceKeysIfUnowned(s, W).draining = s.draining
  <1>1. /\ ReleaseTrackerIssueIdIfUnowned(s, i) \in StateType
        /\ ReleaseTrackerIssueIdIfUnowned(s, i).running = s.running
        /\ ReleaseTrackerIssueIdIfUnowned(s, i).retry_attempts = s.retry_attempts
        /\ ReleaseTrackerIssueIdIfUnowned(s, i).draining = s.draining
    BY DEF ReleaseTrackerIssueIdIfUnowned, StateType
  <1> DEFINE kept == {w \in s.claimed_workspace_keys : w \in W => OwnsWorkspace(s, w)}
  <1>2. kept \in SUBSET WorkspaceKey
    BY DEF StateType
  <1>3. ReleaseWorkspaceKeysIfUnowned(s, W) = [s EXCEPT !.claimed_workspace_keys = kept]
    BY DEF ReleaseWorkspaceKeysIfUnowned
  <1> HIDE DEF kept
  <1>4. QED
    BY <1>1, <1>2, <1>3 DEF StateType

\* claim_running: k runs, with this workspace, and no longer waits.
LEMMA ClaimRunningEntries ==
  ASSUME NEW s \in StateType, NEW k \in Key, NEW issue \in Issue, NEW attempt \in Nat,
         NEW target \in Targets
  PROVE  LET t == ClaimRunning(s, k, issue, attempt, target)
         IN  /\ t \in StateType
             /\ t.running = [s.running EXCEPT ![k] =
                   [issue |-> issue, workspace_key |-> <<k[1], issue.name>>,
                    target |-> target, retry_attempt |-> attempt, generation |-> 0]]
             /\ t.retry_attempts = [s.retry_attempts EXCEPT ![k] = None]
             /\ t.draining = s.draining
  <1> DEFINE entry == [issue |-> issue, workspace_key |-> <<k[1], issue.name>>,
                       target |-> target, retry_attempt |-> attempt, generation |-> 0]
             inserted ==
               [s EXCEPT !.claimed = @ \cup {k},
                         !.claimed_issue_ids = @ \cup {k[2]},
                         !.claimed_workspace_keys = @ \cup {<<k[1], issue.name>>},
                         !.retry_attempts[k] = None,
                         !.running[k] = entry]
  <1>1. /\ entry \in RunningEntry /\ <<k[1], issue.name>> \in WorkspaceKey
        /\ k[2] \in IssueIds
    BY DEF RunningEntry, WorkspaceKey, Key, Issue
  <1>2. ClaimRunning(s, k, issue, attempt, target) =
          ReleaseTrackerIssueIdIfUnowned(
            ReleaseWorkspaceKeysIfUnowned(inserted, WorkspacesOf(s, k)), k[2])
    BY DEF ClaimRunning
  <1> HIDE DEF entry
  <1>3. /\ inserted \in StateType
        /\ inserted.running = [s.running EXCEPT ![k] = entry]
        /\ inserted.retry_attempts = [s.retry_attempts EXCEPT ![k] = None]
        /\ inserted.draining = s.draining
    BY <1>1 DEF StateType
  <1> HIDE DEF inserted
  <1>4. QED
    BY <1>2, <1>3, ReleasesKeepEntries DEF entry

\* The entry gets its number and keeps the rest.
LEMMA SetRunningGenerationEntries ==
  ASSUME NEW s \in StateType, NEW k \in Key, NEW g \in Nat, s.running[k] # None
  PROVE  LET t == SetRunningGeneration(s, k, g)
         IN  /\ t \in StateType
             /\ t.running = [s.running EXCEPT ![k] = [s.running[k] EXCEPT !.generation = g]]
             /\ t.retry_attempts = s.retry_attempts
             /\ t.draining = s.draining
  <1>1. s.running[k] \in RunningEntry
    BY DEF StateType
  <1>2. [s.running[k] EXCEPT !.generation = g] \in RunningEntry
    BY <1>1 DEF RunningEntry
  <1>3. QED
    BY <1>2 DEF SetRunningGeneration, StateType

\* worker_exit: k stops running and waits, holding the same workspace.
LEMMA WorkerExitEntries ==
  ASSUME NEW s \in StateType, NEW k \in Key, NEW reason \in Reasons, s.running[k] # None
  PROVE  /\ WorkerExit(s, k, reason).running = [s.running EXCEPT ![k] = None]
         /\ \E retry \in RetryEntry :
               /\ retry.workspace_key = s.running[k].workspace_key
               /\ WorkerExit(s, k, reason).retry_attempts =
                     [s.retry_attempts EXCEPT ![k] = retry]
         /\ WorkerExit(s, k, reason).draining = s.draining
  <1> DEFINE retry == RetryAfterExit(s.running[k], reason)
             t == WorkerExit(s, k, reason)
  <1>1. s.running[k] \in RunningEntry
    BY DEF StateType
  <1>2. retry \in RetryEntry /\ retry.workspace_key = s.running[k].workspace_key
    BY <1>1, RetryAfterExitType
  <1>3. t = RequeueRetry([s EXCEPT !.running[k] = None], k, retry)
    BY DEF WorkerExit
  <1> HIDE DEF retry, t
  <1>4. /\ t.running = [s.running EXCEPT ![k] = None]
        /\ t.retry_attempts = [s.retry_attempts EXCEPT ![k] = retry]
        /\ t.draining = s.draining
    BY <1>3 DEF RequeueRetry, StateType
  <1>5. QED
    BY <1>2, <1>4 DEF t

\* release_issue: k neither runs nor waits.
LEMMA ReleaseIssueEntries ==
  ASSUME NEW s \in StateType, NEW k \in Key
  PROVE  LET t == ReleaseIssue(s, k)
         IN  /\ t.running = [s.running EXCEPT ![k] = None]
             /\ t.retry_attempts = [s.retry_attempts EXCEPT ![k] = None]
             /\ t.draining = s.draining
  <1> DEFINE removed == [s EXCEPT !.running[k] = None, !.retry_attempts[k] = None,
                                  !.claimed = @ \ {k}]
  <1>1. ReleaseIssue(s, k) = ReleaseWorkspaceKeysIfUnowned(
                                ReleaseTrackerIssueIdIfUnowned(removed, k[2]), WorkspacesOf(s, k))
    BY DEF ReleaseIssue
  <1>2. /\ removed \in StateType
        /\ removed.running = [s.running EXCEPT ![k] = None]
        /\ removed.retry_attempts = [s.retry_attempts EXCEPT ![k] = None]
        /\ removed.draining = s.draining
    BY DEF StateType
  <1> HIDE DEF removed
  <1>3. QED
    BY <1>1, <1>2, ReleasesKeepEntries

\* The entry takes the issue and keeps the rest.
LEMMA RefreshIssueEntries ==
  ASSUME NEW s \in StateType, NEW k \in Key, NEW issue \in Issue, s.running[k] # None
  PROVE  LET t == RefreshIssue(s, k, issue)
         IN  /\ t \in StateType
             /\ t.running = [s.running EXCEPT ![k] = [s.running[k] EXCEPT !.issue = issue]]
             /\ t.retry_attempts = s.retry_attempts
             /\ t.draining = s.draining
  <1>1. s.running[k] \in RunningEntry
    BY DEF StateType
  <1>2. [s.running[k] EXCEPT !.issue = issue] \in RunningEntry
    BY <1>1 DEF RunningEntry
  <1>3. QED
    BY <1>2 DEF RefreshIssue, StateType

\* The same issues run, each with the same task, host and workspace.
SameRunning(s, t) ==
    \A k \in Key :
        /\ t.running[k] = None <=> s.running[k] = None
        /\ s.running[k] # None => /\ t.running[k].generation = s.running[k].generation
                                  /\ t.running[k].target = s.running[k].target
                                  /\ t.running[k].workspace_key = s.running[k].workspace_key

\* The same issues wait for a retry, each with its workspace.
SameWaiting(s, t) ==
    \A k \in Key :
        /\ t.retry_attempts[k] = None <=> s.retry_attempts[k] = None
        /\ s.retry_attempts[k] # None =>
             t.retry_attempts[k].workspace_key = s.retry_attempts[k].workspace_key

SameHolders(s, t) == SameRunning(s, t) /\ SameWaiting(s, t) /\ t.draining = s.draining

\* A refresh changes no holder.
LEMMA RefreshIssueHolders ==
  ASSUME NEW s \in StateType, NEW k \in Key, NEW issue \in Issue, s.running[k] # None
  PROVE  SameHolders(s, RefreshIssue(s, k, issue))
  <1> DEFINE entry == [s.running[k] EXCEPT !.issue = issue]
             t == RefreshIssue(s, k, issue)
  <1>1. s.running[k] \in RunningEntry /\ s.running \in [Key -> RunningEntry \cup {None}]
    BY DEF StateType
  <1>2. /\ entry \in RunningEntry /\ entry # None
        /\ entry.generation = s.running[k].generation
        /\ entry.target = s.running[k].target
        /\ entry.workspace_key = s.running[k].workspace_key
    BY <1>1, NoneAssumption DEF RunningEntry
  <1>3. /\ t.running = [s.running EXCEPT ![k] = entry]
        /\ t.retry_attempts = s.retry_attempts /\ t.draining = s.draining
    BY RefreshIssueEntries
  <1> HIDE DEF entry, t
  <1>4. QED
    BY <1>1, <1>2, <1>3 DEF SameHolders, SameRunning, SameWaiting, t

\* Neither does a change of retries that keeps who waits and with which workspace:
LEMMA RetriesHolders ==
  ASSUME NEW s \in StateType, NEW t,
         t.running = s.running, t.draining = s.draining,
         \A k \in Key :
            /\ t.retry_attempts[k] = None <=> s.retry_attempts[k] = None
            /\ s.retry_attempts[k] # None =>
                 t.retry_attempts[k].workspace_key = s.retry_attempts[k].workspace_key
  PROVE  SameHolders(s, t)
  BY DEF SameHolders, SameRunning, SameWaiting

\* putting due retries off after a failed poll,
LEMMA RescheduleHolders ==
  ASSUME NEW s \in StateType, NEW source \in Sources
  PROVE  SameHolders(s, RescheduleAfterPollError(s, source))
  <1> DEFINE t == RescheduleAfterPollError(s, source)
             later(k) == PutOff(s.retry_attempts[k])
             retries == [k \in Key |-> IF k \in DueRetryKeys(s, source) THEN later(k)
                                       ELSE s.retry_attempts[k]]
  <1>1. ASSUME NEW k \in Key, s.retry_attempts[k] # None
        PROVE  later(k) # None /\ later(k).workspace_key = s.retry_attempts[k].workspace_key
    <2>1. s.retry_attempts[k] \in RetryEntry
      BY <1>1 DEF StateType
    <2>2. "poll" \in RetryErrors /\ s.retry_attempts[k].attempt + 1 \in Nat
      BY <2>1 DEF RetryErrors, RetryEntry
    <2>3. later(k) \in RetryEntry
      BY <2>1, <2>2 DEF PutOff, RetryEntry
    <2>4. QED
      BY <2>1, <2>3, NoneAssumption DEF PutOff, RetryEntry
  <1>2. t = [s EXCEPT !.retry_attempts = retries]
    BY DEF RescheduleAfterPollError
  <1>3. \A k \in DueRetryKeys(s, source) : s.retry_attempts[k] # None
    BY DEF DueRetryKeys, RetryKeys
  <1>4. \A k \in Key : retries[k] = IF k \in DueRetryKeys(s, source) THEN later(k)
                                    ELSE s.retry_attempts[k]
    OBVIOUS
  <1> HIDE DEF later, retries, t
  <1>5. t.running = s.running /\ t.draining = s.draining /\ t.retry_attempts = retries
    BY <1>2 DEF StateType
  <1>6. QED
    BY <1>1, <1>3, <1>4, <1>5, RetriesHolders DEF t

\* a retry that falls due or is promoted,
LEMMA SetRetryDueHolders ==
  ASSUME NEW s \in StateType, NEW k \in Key, s.retry_attempts[k] # None
  PROVE  SameHolders(s, SetRetryDue(s, k))
  <1> DEFINE entry == [s.retry_attempts[k] EXCEPT !.due = TRUE]
             t == SetRetryDue(s, k)
  <1>1. s.retry_attempts[k] \in RetryEntry
    BY DEF StateType
  <1>2. entry # None /\ entry.workspace_key = s.retry_attempts[k].workspace_key
    <2>1. entry \in RetryEntry /\ entry.workspace_key = s.retry_attempts[k].workspace_key
      BY <1>1 DEF RetryEntry
    <2>2. QED
      BY <2>1, NoneAssumption
  <1>3. t = [s EXCEPT !.retry_attempts[k] = entry]
    BY DEF SetRetryDue
  <1> HIDE DEF entry, t
  <1>4. /\ t.running = s.running /\ t.draining = s.draining
        /\ t.retry_attempts = [s.retry_attempts EXCEPT ![k] = entry]
    BY <1>3 DEF StateType
  <1>5. s.retry_attempts \in [Key -> RetryEntry \cup {None}]
    BY DEF StateType
  <1>6. QED
    BY <1>2, <1>4, <1>5, RetriesHolders DEF t

\* A due retry is taken off the queue: k no longer waits.
LEMMA TakeRetryEntries ==
  ASSUME NEW s \in StateType, NEW k \in Key
  PROVE  LET t == TakeRetry(s, k)
         IN  /\ t \in StateType
             /\ t.running = s.running
             /\ t.retry_attempts = [s.retry_attempts EXCEPT ![k] = None]
             /\ t.draining = s.draining
  <1> DEFINE removed == [[s EXCEPT !.retry_attempts[k] = None] EXCEPT !.claimed = @ \ {k}]
  <1>1. TakeRetry(s, k) = ReleaseWorkspaceKeysIfUnowned(
                             ReleaseTrackerIssueIdIfUnowned(removed, k[2]),
                             {s.retry_attempts[k].workspace_key})
    BY DEF TakeRetry, ReleaseRetryClaim
  <1>2. /\ removed \in StateType
        /\ removed.running = s.running
        /\ removed.retry_attempts = [s.retry_attempts EXCEPT ![k] = None]
        /\ removed.draining = s.draining
    BY DEF StateType
  <1> HIDE DEF removed
  <1>3. QED
    BY <1>1, <1>2, ReleasesKeepEntries

\* A retry taken and put back waits as before.
LEMMA PutBackHolders ==
  ASSUME NEW s \in StateType, NEW k \in Key, s.retry_attempts[k] # None
  PROVE  SameHolders(s, RequeueRetry(TakeRetry(s, k), k, s.retry_attempts[k]))
  <1> DEFINE b == TakeRetry(s, k)
             t == RequeueRetry(b, k, s.retry_attempts[k])
  <1>1. /\ b \in StateType /\ b.running = s.running /\ b.draining = s.draining
        /\ b.retry_attempts = [s.retry_attempts EXCEPT ![k] = None]
    BY TakeRetryEntries
  <1> HIDE DEF b
  <1>2. /\ t.running = s.running /\ t.draining = s.draining
        /\ t.retry_attempts = [b.retry_attempts EXCEPT ![k] = s.retry_attempts[k]]
    BY <1>1 DEF RequeueRetry, StateType
  <1>3. t.retry_attempts = s.retry_attempts
    BY <1>1, <1>2 DEF StateType
  <1> HIDE DEF t
  <1>4. SameHolders(s, t)
    BY <1>2, <1>3, RetriesHolders
  <1>5. QED
    BY <1>4 DEF t, b

-----------------------------------------------------------------------------
(* What a step does to the tasks, whichever action takes it. *)

\* No task, no outcome and no running entry changes.
Quiet ==
    /\ SameRunning(st, st')
    /\ UNCHANGED <<workers, next_generation, alive, outcomes>>

Idle == Quiet /\ SameWaiting(st, st')

\* Nobody but k holds its id or the workspace of the name n, and k has no task.
FreeFor(k, n) ==
    /\ st.running[k] = None /\ workers[k] = None
    /\ \A l \in Owners(st) \ {k} : l[2] # k[2] /\ <<k[1], n>> \notin WorkspacesOf(st, l)

\* k waits, holding the workspace w.
Queued(k, w) ==
    \E retry \in RetryEntry : /\ retry.workspace_key = w
                              /\ st'.retry_attempts = [st.retry_attempts EXCEPT ![k] = retry]

Unqueued(k) == st'.retry_attempts = [st.retry_attempts EXCEPT ![k] = None]

\* A dispatch whose preparation failed.
Refused(k, n) ==
    /\ FreeFor(k, n) /\ Queued(k, <<k[1], n>>)
    /\ st'.running = st.running
    /\ UNCHANGED <<workers, next_generation, alive, outcomes>>

\* A due retry that is given up.
Forgotten(k) ==
    /\ st.retry_attempts[k] # None /\ workers[k] = None /\ Unqueued(k)
    /\ st'.running = st.running
    /\ UNCHANGED <<workers, next_generation, alive, outcomes>>

\* An unclaimed issue, or one that waits, gets a task of the next generation.
Started(k, n, target) ==
    LET g == next_generation + 1
    IN  /\ st.running[k] = None /\ workers[k] = None
        /\ next_generation' = g
        /\ workers' = [workers EXCEPT ![k] = [generation |-> g, target |-> target]]
        /\ \E w \in Task : /\ w.key = k /\ w.generation = g
                           /\ w.name = n /\ w.target = target
                           /\ alive' = alive \cup {w}
        /\ \E entry \in RunningEntry :
              /\ entry.workspace_key = <<k[1], n>>
              /\ entry.generation = g /\ entry.target = target
              /\ st'.running = [st.running EXCEPT ![k] = entry]
        /\ UNCHANGED outcomes

\* The limits of the source of k leave room for one more agent on the target.
Room(k, target) ==
    /\ Cardinality(RunningKeys(st)) < MaxAgents[k[1]]
    /\ target # Local => HasCapacity(k[1], target)

Launched(k, n, target) ==
    FreeFor(k, n) /\ Room(k, target) /\ Unqueued(k) /\ Started(k, n, target)

\* The run of k is over: k is released, or waits with its workspace.
RunOver(k) ==
    /\ st'.running = [st.running EXCEPT ![k] = None]
    /\ Unqueued(k) \/ Queued(k, st.running[k].workspace_key)

\* The task of k is aborted and awaited, its running entry gone.
Aborted(k) ==
    /\ st.running[k] # None
    /\ AbortWorker(k) /\ RunOver(k)
    /\ UNCHANGED <<next_generation, outcomes>>

\* The oldest outcome is taken; a current one ends its entry.
OutcomeTaken ==
    LET o == Head(outcomes)
    IN  /\ outcomes # <<>> /\ outcomes' = Tail(outcomes)
        /\ UNCHANGED <<next_generation, alive>>
        /\ \/ ~MatchesTask(o) /\ UNCHANGED <<st, workers>>
           \/ /\ MatchesTask(o)
              /\ workers' = [workers EXCEPT ![o.key] = None]
              /\ RunOver(o.key)

\* A task goes on as itself, or ends with an outcome.
TaskMoved(w) ==
    /\ UNCHANGED <<st, workers, next_generation>>
    /\ \/ /\ UNCHANGED outcomes
          /\ \E v \in Task : /\ v.key = w.key /\ v.generation = w.generation
                             /\ v.name = w.name /\ v.target = w.target
                             /\ alive' = (alive \ {w}) \cup {v}
       \/ \E reason \in Reasons, terminal \in BOOLEAN : Finish(w, reason, terminal)

AllAborted ==
    /\ workers' = [k \in Key |-> None]
    /\ alive' = alive \ UNION {TaskOf(k) : k \in Key}
    /\ UNCHANGED <<st, next_generation, outcomes>>

\* Where no task, outcome or running entry changes the books stay right.
LEMMA QuietKeepsBooks ==
  ASSUME IInv, Books, Quiet
  PROVE  Books'
  <1>1. \A w \in alive : w.key \in Key
    BY DEF IInv, TypeOK, Task
  <1>2. AliveRegistered'
    BY <1>1 DEF Books, AliveRegistered, Registered, TasksRunning, Quiet, SameRunning
  <1>3. Numbered'
    BY DEF Books, Numbered, Quiet
  <1>4. TasksRunning'
    BY DEF Books, TasksRunning, Quiet, SameRunning
  <1>5. AnswersOnce'
    BY DEF Books, AnswersOnce, AnswerAt, Quiet
  <1>6. QED
    BY <1>2, <1>3, <1>4, <1>5 DEF Books

\* A new task has a new number, so no old outcome answers for it.
LEMMA StartedKeepsBooks ==
  ASSUME IInv, Books, NEW k \in Key, NEW n \in Names, NEW target \in Targets,
         Started(k, n, target)
  PROVE  Books'
  <1> DEFINE g == next_generation + 1
             task == [generation |-> g, target |-> target]
  <1>1. PICK w \in Task : /\ w.key = k /\ w.generation = g
                          /\ w.name = n /\ w.target = target
                          /\ alive' = alive \cup {w}
    BY DEF Started
  <1>2. PICK entry \in RunningEntry :
           /\ entry.workspace_key = <<k[1], n>> /\ entry.generation = g /\ entry.target = target
           /\ st'.running = [st.running EXCEPT ![k] = entry]
    BY DEF Started
  <1>3. /\ workers \in [Key -> [generation: Nat, target: Targets] \cup {None}]
        /\ st.running \in [Key -> RunningEntry \cup {None}]
        /\ next_generation \in Nat /\ outcomes \in Seq(Outcome)
        /\ \A v \in alive : v.key \in Key
    BY DEF IInv, TypeOK, StateType, Task
  <1>4. /\ workers[k] = None /\ next_generation' = g /\ outcomes' = outcomes
        /\ workers' = [workers EXCEPT ![k] = task]
    BY DEF Started
  <1>5. task \in [generation: Nat, target: Targets] /\ task # None
    BY <1>3, RunnerAssumption
  <1>6. entry # None
    BY NoneAssumption
  <1>7. \A v \in alive : v.key # k
    BY <1>4 DEF Books, AliveRegistered, Registered
  <1> HIDE DEF task
  <1>8. workers'[k] = task /\ \A l \in Key \ {k} : workers'[l] = workers[l]
    BY <1>3, <1>4
  <1>9. st'.running[k] = entry /\ \A l \in Key \ {k} : st'.running[l] = st.running[l]
    BY <1>2, <1>3
  <1>10. task.generation = g /\ task.target = target
    BY DEF task
  <1>11. AliveRegistered'
    <2>1. Registered(w)'
      BY <1>1, <1>2, <1>5, <1>8, <1>9, <1>10 DEF Registered
    <2>2. \A v \in alive : Registered(v)'
      BY <1>3, <1>7, <1>8, <1>9 DEF Books, AliveRegistered, Registered
    <2>3. QED
      BY <1>1, <1>7, <2>1, <2>2 DEF Books, AliveRegistered
  <1>12. Numbered'
    <2>1. \A m \in DOMAIN outcomes : outcomes[m].generation \in Nat
      <3>1. \A m \in DOMAIN outcomes : outcomes[m] \in Outcome
        BY <1>3
      <3>2. QED
        BY <3>1 DEF Outcome
    <2>2. \A l \in Key : workers[l] # None => workers[l].generation \in Nat
      BY <1>3
    <2>3. QED
      BY <1>3, <1>4, <1>8, <1>10, <2>1, <2>2 DEF Books, Numbered
  <1>13. TasksRunning'
    BY <1>2, <1>6, <1>8, <1>9, <1>10 DEF Books, TasksRunning
  <1>14. AnswersOnce'
    <2>1. \A m \in DOMAIN outcomes : outcomes[m].generation # g
      BY <1>3 DEF Books, Numbered, Outcome
    <2>2. \A m : ~AnswerAt(m, k)'
      BY <1>4, <1>8, <1>10, <2>1 DEF AnswerAt
    <2>3. \A l \in Key \ {k} : \A m : AnswerAt(m, l)' <=> AnswerAt(m, l)
      BY <1>4, <1>8 DEF AnswerAt
    <2>4. \A l \in Key \ {k} : (\E v \in alive' : v.key = l) <=> (\E v \in alive : v.key = l)
      BY <1>1
    <2>5. ASSUME NEW l \in Key, workers'[l] # None
          PROVE  \/ (\E v \in alive' : v.key = l) /\ (\A m : ~AnswerAt(m, l)')
                 \/ /\ \A v \in alive' : v.key # l
                    /\ \E m : AnswerAt(m, l)' /\ \A p : AnswerAt(p, l)' => p = m
      <3>1. CASE l = k
        BY <1>1, <2>2, <3>1
      <3>2. CASE l # k
        BY <1>8, <2>3, <2>4, <2>5, <3>2 DEF Books, AnswersOnce
      <3>3. QED
        BY <3>1, <3>2
    <2>6. QED
      BY <2>5 DEF AnswersOnce
  <1>15. QED
    BY <1>11, <1>12, <1>13, <1>14 DEF Books

\* An abort takes the task, its registration and its entry away together.
LEMMA AbortedKeepsBooks ==
  ASSUME IInv, Books, NEW k \in Key, workers[k] # None, Aborted(k)
  PROVE  Books'
  <1>1. /\ workers \in [Key -> [generation: Nat, target: Targets] \cup {None}]
        /\ st.running \in [Key -> RunningEntry \cup {None}]
        /\ \A v \in alive : v.key \in Key
    BY DEF IInv, TypeOK, StateType, Task
  <1>2. /\ outcomes' = outcomes /\ next_generation' = next_generation
        /\ workers'[k] = None /\ \A l \in Key \ {k} : workers'[l] = workers[l]
        /\ st'.running[k] = None /\ \A l \in Key \ {k} : st'.running[l] = st.running[l]
    BY <1>1 DEF Aborted, AbortWorker, RunOver
  <1>3. alive' = {v \in alive : v.key # k}
    <2>1. TaskOf(k) = {v \in alive : v.key = k}
      BY DEF TaskOf, Books, AliveRegistered, Registered
    <2>2. QED
      BY <2>1 DEF Aborted, AbortWorker
  <1>4. AliveRegistered'
    BY <1>1, <1>2, <1>3 DEF Books, AliveRegistered, Registered
  <1>5. Numbered'
    BY <1>2 DEF Books, Numbered
  <1>6. TasksRunning'
    BY <1>2 DEF Books, TasksRunning
  <1>7. AnswersOnce'
    <2>1. ASSUME NEW l \in Key, workers'[l] # None
          PROVE  /\ l # k /\ workers'[l] = workers[l]
                 /\ \A m : AnswerAt(m, l)' <=> AnswerAt(m, l)
                 /\ (\E v \in alive' : v.key = l) <=> (\E v \in alive : v.key = l)
      BY <1>2, <1>3, <2>1 DEF AnswerAt
    <2>2. QED
      BY <2>1 DEF Books, AnswersOnce
  <1>8. QED
    BY <1>4, <1>5, <1>6, <1>7 DEF Books

\* A current outcome ends the one entry it answers for; a stale one ends nothing.
LEMMA OutcomeTakenKeepsBooks ==
  ASSUME IInv, Books, OutcomeTaken
  PROVE  Books'
  <1> DEFINE o == Head(outcomes)
  <1>1. /\ workers \in [Key -> [generation: Nat, target: Targets] \cup {None}]
        /\ st.running \in [Key -> RunningEntry \cup {None}]
        /\ outcomes \in Seq(Outcome) /\ outcomes # <<>>
        /\ \A v \in alive : v.key \in Key
    BY DEF IInv, TypeOK, StateType, Task, OutcomeTaken
  <1>2. /\ o = outcomes[1] /\ o \in Outcome /\ 1 \in DOMAIN outcomes
        /\ outcomes' \in Seq(Outcome) /\ Len(outcomes') = Len(outcomes) - 1
        /\ \A m \in DOMAIN outcomes' : m + 1 \in DOMAIN outcomes /\ outcomes'[m] = outcomes[m + 1]
        /\ \A m \in DOMAIN outcomes : m # 1 => m - 1 \in DOMAIN outcomes'
    BY <1>1 DEF OutcomeTaken
  <1>3. o.key \in Key
    BY <1>2 DEF Outcome
  <1> HIDE DEF o
  <1>4. /\ next_generation' = next_generation /\ alive' = alive
        /\ \A l \in Key : \/ workers'[l] = workers[l] /\ st'.running[l] = st.running[l]
                          \/ AnswerAt(1, l) /\ workers'[l] = None /\ st'.running[l] = None
        /\ \A l \in Key : AnswerAt(1, l) /\ workers[l] # None => workers'[l] = None
    <2>1. CASE ~MatchesTask(o) /\ UNCHANGED <<st, workers>>
      BY <1>2, <1>3, <2>1 DEF OutcomeTaken, MatchesTask, AnswerAt, o
    <2>2. CASE /\ MatchesTask(o)
               /\ workers' = [workers EXCEPT ![o.key] = None]
               /\ RunOver(o.key)
      <3>1. AnswerAt(1, o.key)
        BY <1>2, <2>2 DEF MatchesTask, AnswerAt
      <3>2. QED
        BY <1>1, <1>2, <1>3, <2>2, <3>1 DEF OutcomeTaken, AnswerAt, RunOver
    <2>3. QED
      BY <2>1, <2>2 DEF OutcomeTaken, o
  <1>5. \A v \in alive : ~AnswerAt(1, v.key)
    BY <1>1 DEF Books, AliveRegistered, Registered, AnswersOnce
  <1>6. AliveRegistered'
    BY <1>1, <1>4, <1>5 DEF Books, AliveRegistered, Registered
  <1>7. Numbered'
    <2>1. \A m \in DOMAIN outcomes' : outcomes'[m].generation <= next_generation
      BY <1>2 DEF Books, Numbered
    <2>2. QED
      BY <1>4, <2>1 DEF Books, Numbered
  <1>8. TasksRunning'
    BY <1>4 DEF Books, TasksRunning
  <1>9. AnswersOnce'
    <2> SUFFICES ASSUME NEW l \in Key, workers'[l] # None
                 PROVE  \/ (\E w \in alive' : w.key = l) /\ (\A n : ~AnswerAt(n, l)')
                        \/ /\ \A w \in alive' : w.key # l
                           /\ \E n : AnswerAt(n, l)' /\ \A m : AnswerAt(m, l)' => m = n
      BY DEF AnswersOnce
    <2>1. workers'[l] = workers[l] /\ ~AnswerAt(1, l)
      BY <1>4
    <2>2. \A m : AnswerAt(m, l)' => AnswerAt(m + 1, l) /\ m \in Nat
      BY <1>2, <2>1 DEF AnswerAt
    <2>3. \A m : AnswerAt(m, l) => AnswerAt(m - 1, l)' /\ m \in Nat
      <3> SUFFICES ASSUME NEW m, AnswerAt(m, l) PROVE AnswerAt(m - 1, l)' /\ m \in Nat
        OBVIOUS
      <3>1. m # 1 /\ m \in DOMAIN outcomes /\ m \in Nat
        BY <1>1, <2>1 DEF AnswerAt
      <3>2. m - 1 \in DOMAIN outcomes' /\ outcomes'[m - 1] = outcomes[(m - 1) + 1]
        BY <1>2, <3>1
      <3>3. outcomes'[m - 1] = outcomes[m]
        BY <3>1, <3>2
      <3>4. QED
        BY <2>1, <3>1, <3>2, <3>3 DEF AnswerAt
    <2>4. CASE (\E w \in alive : w.key = l) /\ (\A n : ~AnswerAt(n, l))
      BY <1>4, <2>2, <2>4
    <2>5. CASE /\ \A w \in alive : w.key # l
               /\ \E n : AnswerAt(n, l) /\ \A m : AnswerAt(m, l) => m = n
      <3>1. PICK n : AnswerAt(n, l) /\ \A m : AnswerAt(m, l) => m = n
        BY <2>5
      <3>2. AnswerAt(n - 1, l)' /\ n \in Nat
        BY <2>3, <3>1
      <3>3. ASSUME NEW m, AnswerAt(m, l)' PROVE m = n - 1
        <4>1. m + 1 = n /\ m \in Nat
          BY <2>2, <3>1, <3>3
        <4>2. QED
          BY <3>2, <4>1
      <3>4. QED
        BY <1>4, <2>5, <3>2, <3>3
    <2>6. QED
      BY <2>1, <2>4, <2>5 DEF Books, AnswersOnce
  <1>10. QED
    BY <1>6, <1>7, <1>8, <1>9 DEF Books

\* A task that ends leaves exactly one outcome behind.
LEMMA TaskMovedKeepsBooks ==
  ASSUME IInv, Books, NEW w \in alive, TaskMoved(w)
  PROVE  Books'
  <1>1. /\ outcomes \in Seq(Outcome) /\ w \in Task /\ w.key \in Key
        /\ \A v \in alive : v.key \in Key
    BY DEF IInv, TypeOK, Task
  <1>2. UNCHANGED <<st, workers, next_generation>>
    BY DEF TaskMoved
  <1>3. \A v \in alive : v # w => v.key # w.key
    BY DEF Books, AliveRegistered
  <1>4. TasksRunning'
    BY <1>2 DEF Books, TasksRunning
  <1>5. ASSUME UNCHANGED outcomes, NEW v \in Task, v.key = w.key, v.generation = w.generation,
               v.name = w.name, v.target = w.target, alive' = (alive \ {w}) \cup {v}
        PROVE  Books'
    <2>1. AliveRegistered'
      BY <1>2, <1>3, <1>5 DEF Books, AliveRegistered, Registered
    <2>2. Numbered'
      BY <1>2, <1>5 DEF Books, Numbered
    <2>3. AnswersOnce'
      <3>1. \A l : (\E x \in alive' : x.key = l) <=> (\E x \in alive : x.key = l)
        BY <1>5
      <3>2. \A l, n : AnswerAt(n, l)' <=> AnswerAt(n, l)
        BY <1>2, <1>5 DEF AnswerAt
      <3>3. QED
        BY <1>2, <3>1, <3>2 DEF Books, AnswersOnce
    <2>4. QED
      BY <1>4, <2>1, <2>2, <2>3 DEF Books
  <1>6. ASSUME NEW reason \in Reasons, NEW terminal \in BOOLEAN, Finish(w, reason, terminal)
        PROVE  Books'
    <2> DEFINE o == [key |-> w.key, generation |-> w.generation,
                     reason |-> reason, terminal |-> terminal]
               last == Len(outcomes) + 1
    <2>1. alive' = alive \ {w} /\ outcomes' = Append(outcomes, o)
      BY <1>6 DEF Finish
    <2>2. o \in Outcome /\ o.key = w.key /\ o.generation = w.generation
      BY <1>1 DEF Outcome, Task
    <2> HIDE DEF o
    <2>3. /\ DOMAIN outcomes' = DOMAIN outcomes \cup {last}
          /\ outcomes'[last] = o /\ last \notin DOMAIN outcomes
          /\ \A m \in DOMAIN outcomes : outcomes'[m] = outcomes[m]
      BY <1>1, <2>1, <2>2
    <2> HIDE DEF last
    <2>4. /\ workers[w.key] # None /\ workers[w.key].generation = w.generation
          /\ w.generation <= next_generation
      BY <1>1 DEF Books, AliveRegistered, Registered, Numbered
    <2>5. AliveRegistered'
      BY <1>2, <2>1 DEF Books, AliveRegistered, Registered
    <2>6. Numbered'
      BY <1>2, <2>2, <2>3, <2>4 DEF Books, Numbered
    <2>7. \A l \in Key \ {w.key} :
             /\ \A m : AnswerAt(m, l)' <=> AnswerAt(m, l)
             /\ (\E x \in alive' : x.key = l) <=> (\E x \in alive : x.key = l)
      BY <1>2, <2>1, <2>2, <2>3 DEF AnswerAt
    <2>8. /\ \A x \in alive' : x.key # w.key
          /\ \A m : ~AnswerAt(m, w.key)
          /\ \A m : AnswerAt(m, w.key)' <=> m = last
      <3>1. \A x \in alive' : x.key # w.key
        BY <1>3, <2>1
      <3>2. \A m : ~AnswerAt(m, w.key)
        BY <1>1, <2>4 DEF Books, AnswersOnce
      <3>3. \A m : AnswerAt(m, w.key)' <=> m = last
        BY <1>2, <2>2, <2>3, <2>4, <3>2 DEF AnswerAt
      <3>4. QED
        BY <3>1, <3>2, <3>3
    <2>9. AnswersOnce'
      <3> SUFFICES ASSUME NEW l \in Key, workers'[l] # None
                   PROVE  \/ (\E x \in alive' : x.key = l) /\ (\A n : ~AnswerAt(n, l)')
                          \/ /\ \A x \in alive' : x.key # l
                             /\ \E n : AnswerAt(n, l)' /\ \A m : AnswerAt(m, l)' => m = n
        BY DEF AnswersOnce
      <3>1. CASE l = w.key
        BY <2>8, <3>1
      <3>2. CASE l # w.key
        BY <1>2, <2>7, <3>2 DEF Books, AnswersOnce
      <3>3. QED
        BY <3>1, <3>2
    <2>10. QED
      BY <1>4, <2>5, <2>6, <2>9 DEF Books
  <1>7. QED
    BY <1>5, <1>6 DEF TaskMoved

\* The drain timeout leaves no task and no registration.
LEMMA AllAbortedKeepsBooks ==
  ASSUME IInv, Books, AllAborted
  PROVE  Books' /\ alive' = {} /\ NoTasks'
  <1>1. \A w \in alive : w.key \in Key
    BY DEF IInv, TypeOK, Task
  <1>2. \A w \in alive : w \in TaskOf(w.key)
    BY DEF TaskOf, Books, AliveRegistered, Registered
  <1>3. alive' = {}
    BY <1>1, <1>2 DEF AllAborted
  <1>4. \A k \in Key : workers'[k] = None
    BY DEF AllAborted
  <1>5. QED
    BY <1>3, <1>4
    DEF AllAborted, Books, AliveRegistered, Numbered, TasksRunning, AnswersOnce, NoTasks

-----------------------------------------------------------------------------
(* Which action does what. *)

\* dispatch_issue, from the record itself or from the record without k's retry.
LEMMA DispatchKind ==
  ASSUME IInv, NEW base, Consistent(base), NEW k \in Key, NEW issue \in Issue,
         NEW attempt \in Nat, NEW target \in Targets,
         base.running = st.running, workers[k] = None,
         \A l \in Key \ {k} : base.retry_attempts[l] = st.retry_attempts[l],
         \A l \in Owners(st) \ {k} :
            l \in Owners(base) /\ WorkspacesOf(base, l) = WorkspacesOf(st, l),
         ~IsClaimed(base, k, issue), Room(k, target), UNCHANGED outcomes,
         DispatchIssue(base, k, issue, attempt, target)
  PROVE  /\ Launched(k, issue.name, target) \/ Refused(k, issue.name)
         /\ st'.draining = base.draining
  <1> DEFINE t == ClaimRunning(base, k, issue, attempt, target)
             wkey == <<k[1], issue.name>>
             entry == [issue |-> issue, workspace_key |-> wkey, target |-> target,
                       retry_attempt |-> attempt, generation |-> 0]
             g == next_generation + 1
  <1>1. /\ base \in StateType /\ st \in StateType /\ g \in Nat
        /\ base.retry_attempts \in [Key -> RetryEntry \cup {None}]
        /\ st.retry_attempts \in [Key -> RetryEntry \cup {None}]
        /\ st.running \in [Key -> RunningEntry \cup {None}]
    BY DEF Consistent, IInv, TypeOK, StateType
  <1>2. /\ t \in StateType /\ t.draining = base.draining
        /\ t.running = [st.running EXCEPT ![k] = entry]
        /\ t.retry_attempts = [base.retry_attempts EXCEPT ![k] = None]
    BY <1>1, ClaimRunningEntries
  <1>3. entry \in RunningEntry /\ entry # None /\ entry.workspace_key = wkey
    <2>1. entry \in RunningEntry
      BY DEF RunningEntry, WorkspaceKey, Key, Issue
    <2>2. QED
      BY <2>1, NoneAssumption
  <1>4. FreeFor(k, issue.name)
    <2>1. /\ k \notin Owners(base)
          /\ \A l \in Owners(base) : l[2] # k[2] /\ wkey \notin WorkspacesOf(base, l)
      BY UnclaimedIsFree
    <2>2. st.running[k] = None
      BY <2>1 DEF Owners, RunningKeys
    <2>3. QED
      BY <2>1, <2>2 DEF FreeFor
  <1>5. \A x : [base.retry_attempts EXCEPT ![k] = x] = [st.retry_attempts EXCEPT ![k] = x]
    BY <1>1
  <1>6. st.running[k] = None
    BY <1>4 DEF FreeFor
  <1>7. CASE StartWorker(base, k, issue, attempt, target)
    <2> DEFINE w == [key |-> k, generation |-> g, name |-> issue.name, target |-> target,
                     marks_started |-> MarksStarted(k[1], issue), terminal |-> FALSE,
                     stage |-> "spawned"]
               named == [entry EXCEPT !.generation = g]
    <2>1. w \in Task
      BY <1>1 DEF Task, Issue, MarksStarted
    <2>2. /\ w.key = k /\ w.generation = g /\ w.name = issue.name /\ w.target = target
      OBVIOUS
    <2>3. /\ named \in RunningEntry /\ named.workspace_key = wkey
          /\ named.generation = g /\ named.target = target
      BY <1>1, <1>3 DEF RunningEntry
    <2>4. st' = SetRunningGeneration(t, k, g)
      BY <1>7 DEF StartWorker
    <2>5. t.running[k] = entry
      BY <1>1, <1>2
    <2> HIDE DEF entry, t, w
    <2>6. /\ st'.running = [t.running EXCEPT ![k] = named]
          /\ st'.retry_attempts = t.retry_attempts /\ st'.draining = t.draining
      BY <1>1, <1>2, <1>3, <2>4, <2>5, SetRunningGenerationEntries
    <2> HIDE DEF named
    <2>7. /\ st'.running = [st.running EXCEPT ![k] = named]
          /\ Unqueued(k)
      BY <1>2, <1>5, <2>6 DEF Unqueued
    <2>8. /\ next_generation' = g
          /\ workers' = [workers EXCEPT ![k] = [generation |-> g, target |-> target]]
          /\ alive' = alive \cup {w}
      BY <1>7 DEF StartWorker, w
    <2>9. Started(k, issue.name, target)
      BY <1>6, <2>1, <2>2, <2>3, <2>7, <2>8 DEF Started, w
    <2>10. QED
      BY <1>2, <1>4, <2>6, <2>7, <2>9 DEF Launched
  <1>8. CASE FailPreparation(base, k, issue, attempt, target)
    <2>1. st' = WorkerExit(t, k, "failed") /\ UNCHANGED <<workers, next_generation, alive>>
      BY <1>8 DEF FailPreparation
    <2>2. t.running[k] = entry
      BY <1>1, <1>2
    <2> HIDE DEF entry, t
    <2>3. "failed" \in Reasons /\ t.running[k] # None
      BY <1>3, <2>2 DEF Reasons
    <2> DEFINE u == WorkerExit(t, k, "failed")
    <2>10. /\ u.running = [t.running EXCEPT ![k] = None] /\ u.draining = t.draining
           /\ \E retry \in RetryEntry :
                 /\ retry.workspace_key = t.running[k].workspace_key
                 /\ u.retry_attempts = [t.retry_attempts EXCEPT ![k] = retry]
      <3>1. t \in StateType /\ t.running[k] # None /\ "failed" \in Reasons
        BY <1>2, <2>3
      <3>2. QED
        BY <3>1, WorkerExitEntries
    <2> HIDE DEF u
    <2>11. st' = u
      BY <2>1 DEF u
    <2>4. PICK retry \in RetryEntry :
             /\ retry.workspace_key = wkey
             /\ st'.retry_attempts = [t.retry_attempts EXCEPT ![k] = retry]
      BY <1>3, <2>2, <2>10, <2>11
    <2>5. st'.running = [t.running EXCEPT ![k] = None] /\ st'.draining = t.draining
      BY <2>10, <2>11
    <2>6. st'.running = st.running
      BY <1>1, <1>2, <1>6, <2>5
    <2>7. st'.retry_attempts = [st.retry_attempts EXCEPT ![k] = retry]
      BY <1>1, <1>2, <1>5, <2>4
    <2>8. Queued(k, wkey)
      BY <2>4, <2>7 DEF Queued
    <2>9. QED
      BY <1>2, <1>4, <2>1, <2>5, <2>6, <2>8 DEF Refused
  <1>9. QED
    BY <1>7, <1>8 DEF DispatchIssue

Kind ==
    \/ Idle
    \/ \E k \in Key, n \in Names :
          Refused(k, n) \/ \E target \in Targets : Launched(k, n, target)
    \/ \E k \in Key : Forgotten(k) \/ (workers[k] # None /\ Aborted(k))
    \/ OutcomeTaken
    \/ \E w \in alive : TaskMoved(w)
    \/ phase = "stopping" /\ phase' = "stopping" /\ AllAborted

\* Shutdown is final, the process ends without tasks, and only a tick that is not
\* draining dispatches.
PhaseMove ==
    /\ phase \in {"stopping", "stopped"} => phase' \in {"stopping", "stopped"}
    /\ phase' = "stopped" => UNCHANGED workers /\ (phase = "stopped" \/ NoTasks)
    /\ phase' \in {"dispatch", "retry"} => ~st'.draining
    /\ next_generation' # next_generation => phase \in {"dispatch", "retry"}

\* Steps that leave these five variables alone.
LEMMA SameIsIdle ==
  ASSUME UNCHANGED <<st, workers, next_generation, alive, outcomes>>
  PROVE  Idle
  BY DEF Idle, Quiet, SameRunning, SameWaiting

\* Steps that leave the tasks and the holders alone.
LEMMA HoldersIdle ==
  ASSUME SameHolders(st, st'), UNCHANGED <<workers, next_generation, alive, outcomes>>
  PROVE  Idle
  BY DEF Idle, Quiet, SameHolders

\* The tick around its dispatches changes no task.
LEMMA TickKinds ==
  ASSUME WInv,
         \/ \E s \in Sources : \/ StartupCleanup(s) \/ FetchReconciliation(s)
                               \/ FetchCandidates(s) \/ ApplyCandidates(s)
                               \/ StartRetries(s) \/ PruneOrphans(s)
         \/ FirstTick \/ PlanPolls \/ EndPoll \/ BeginDispatch \/ BeginRetries
         \/ EndTick \/ EndPrune
  PROVE  Kind /\ PhaseMove
  <1>1. st \in StateType
    BY DEF WInv, IInv, TypeOK
  <1>2. ASSUME NEW s \in Sources, ApplyCandidates(s) PROVE Kind /\ PhaseMove
    <2>1. SameHolders(st, st')
      <3>1. CASE st' = st
        BY <3>1 DEF SameHolders, SameRunning, SameWaiting
      <3>2. CASE st' = RescheduleAfterPollError(st, s)
        BY <1>1, <3>2, RescheduleHolders
      <3>3. QED
        BY <1>2, <3>1, <3>2 DEF ApplyCandidates
    <2>2. Idle
      BY <1>2, <2>1, HoldersIdle DEF ApplyCandidates
    <2>3. QED
      BY <1>2, <2>2 DEF ApplyCandidates, PhaseMove, Kind
  <1>3. ASSUME NEW s \in Sources,
               \/ StartupCleanup(s) \/ FetchReconciliation(s)
               \/ FetchCandidates(s) \/ StartRetries(s) \/ PruneOrphans(s)
        PROVE  Kind /\ PhaseMove
    <2>1. UNCHANGED <<st, workers, next_generation, alive, outcomes, phase>>
      BY <1>3 DEF StartupCleanup, FetchReconciliation, FetchCandidates, StartRetries, PruneOrphans
    <2>2. PhaseMove
      BY <2>1 DEF PhaseMove, WInv, DispatchUndrained
    <2>3. QED
      BY <2>1, <2>2, SameIsIdle DEF Kind
  <1>4. CASE FirstTick \/ PlanPolls \/ EndPoll \/ EndTick \/ EndPrune
    <2>1. /\ UNCHANGED <<st, workers, next_generation, alive, outcomes>>
          /\ phase \notin {"stopping", "stopped"}
          /\ phase' \notin {"stopped", "dispatch", "retry"}
      BY <1>4 DEF FirstTick, PlanPolls, EndPoll, EndTick, EndPrune, LeaveTick
    <2>2. QED
      BY <2>1, SameIsIdle DEF Kind, PhaseMove
  <1>5. CASE BeginDispatch
    <2>1. /\ UNCHANGED <<st, workers, next_generation, alive, outcomes>>
          /\ phase = "apply" /\ phase' # "stopped" /\ phase' # "retry"
          /\ phase' = "dispatch" => ~st'.draining
      BY <1>5 DEF BeginDispatch, LeaveTick, MayDispatch
    <2>2. QED
      BY <2>1, SameIsIdle DEF Kind, PhaseMove
  <1>6. CASE BeginRetries
    <2>1. /\ UNCHANGED <<st, workers, next_generation, alive, outcomes>>
          /\ phase = "dispatch" /\ phase' = "retry"
      BY <1>6 DEF BeginRetries
    <2>2. QED
      BY <2>1, SameIsIdle DEF Kind, PhaseMove, WInv, DispatchUndrained
  <1>7. QED
    BY <1>2, <1>3, <1>4, <1>5, <1>6

\* A worker that is aborted and queued.
LEMMA AbortKinds ==
  ASSUME WInv, NEW k \in Key, NEW reason \in Reasons, workers[k] # None, AbortWorker(k),
         st' = WorkerExit(st, k, reason), UNCHANGED <<next_generation, outcomes>>
  PROVE  Aborted(k) /\ st'.draining = st.draining
  <1>1. st \in StateType /\ st.running[k] # None
    BY DEF WInv, IInv, TypeOK, Books, TasksRunning
  <1> DEFINE t == WorkerExit(st, k, reason)
  <1>2. /\ t.running = [st.running EXCEPT ![k] = None] /\ t.draining = st.draining
        /\ \E retry \in RetryEntry :
              /\ retry.workspace_key = st.running[k].workspace_key
              /\ t.retry_attempts = [st.retry_attempts EXCEPT ![k] = retry]
    BY <1>1, WorkerExitEntries
  <1> HIDE DEF t
  <1>4. st' = t
    BY DEF t
  <1>5. /\ st'.running = [st.running EXCEPT ![k] = None] /\ st'.draining = st.draining
        /\ Queued(k, st.running[k].workspace_key)
    BY <1>2, <1>4 DEF Queued
  <1>3. QED
    BY <1>1, <1>5 DEF Aborted, RunOver

\* The stall check aborts.
LEMMA ReconcileStalledKind ==
  ASSUME WInv, NEW k \in Key, ReconcileStalled(k)
  PROVE  Kind /\ PhaseMove
  <1>1. workers[k] # None /\ "stalled" \in Reasons
    BY DEF WInv, RunningTasked, ReconcileStalled, Reasons
  <1>2. Aborted(k)
    BY <1>1, AbortKinds DEF ReconcileStalled
  <1>3. QED
    BY <1>1, <1>2 DEF ReconcileStalled, loop, Kind, PhaseMove

\* Reconciliation aborts and releases, or only refreshes the entry.
LEMMA ReconcileIssueKind ==
  ASSUME WInv, NEW k \in Key, ReconcileIssue(k)
  PROVE  Kind /\ PhaseMove
  <1> DEFINE latest == poll[k[1]].recon.seen[k[2]]
             decision == ReconcileDecision(st, k, latest)
  <1>1. st \in StateType /\ latest \in Issue \cup {None}
    BY DEF WInv, IInv, TypeOK, Answer, Key
  <1>2. /\ phase = "apply" /\ phase' = "apply"
        /\ UNCHANGED <<next_generation, outcomes>>
    BY DEF ReconcileIssue
  <1>3. PhaseMove
    BY <1>2 DEF PhaseMove
  <1>4. /\ decision # "NoRunningEntry" => st.running[k] # None /\ workers[k] # None
        /\ decision \in {"CancelTerminal", "RefreshedActive"} => latest \in Issue
    BY <1>1, <1>2 DEF ReconcileDecision, WInv, RunningTasked
  <1>5. CASE decision = "CancelTerminal"
    <2> DEFINE r == RefreshIssue(st, k, latest)
    <2>1. /\ r \in StateType /\ r.retry_attempts = st.retry_attempts
          /\ r.running = [st.running EXCEPT ![k] = [st.running[k] EXCEPT !.issue = latest]]
      BY <1>1, <1>4, <1>5, RefreshIssueEntries
    <2>2. AbortWorker(k) /\ st' = ReleaseIssue(r, k)
      BY <1>5 DEF ReconcileIssue
    <2> HIDE DEF r
    <2>3. /\ st'.running = [r.running EXCEPT ![k] = None]
          /\ st'.retry_attempts = [r.retry_attempts EXCEPT ![k] = None]
      BY <2>1, <2>2, ReleaseIssueEntries
    <2>4. RunOver(k)
      BY <1>1, <2>1, <2>3 DEF RunOver, Unqueued, StateType
    <2>5. Aborted(k)
      BY <1>2, <1>4, <1>5, <2>2, <2>4 DEF Aborted
    <2>6. QED
      BY <1>3, <1>4, <1>5, <2>5 DEF Kind
  <1>6. CASE decision \in {"CancelNonActive", "MissingFromTracker"}
    <2>1. AbortWorker(k) /\ st' = ReleaseIssue(st, k)
      BY <1>6 DEF ReconcileIssue
    <2>2. RunOver(k)
      BY <1>1, <2>1, ReleaseIssueEntries DEF RunOver, Unqueued
    <2>3. Aborted(k)
      BY <1>2, <1>4, <1>6, <2>1, <2>2 DEF Aborted
    <2>4. QED
      BY <1>3, <1>4, <1>6, <2>3 DEF Kind
  <1>7. CASE decision \in {"NoRunningEntry", "RefreshedActive"}
    <2>1. SameHolders(st, st') /\ UNCHANGED <<alive, workers>>
      <3>1. CASE decision = "RefreshedActive"
        BY <1>1, <1>4, <3>1, RefreshIssueHolders DEF ReconcileIssue
      <3>2. CASE decision = "NoRunningEntry"
        BY <3>2 DEF ReconcileIssue, SameHolders, SameRunning, SameWaiting
      <3>3. QED
        BY <1>7, <3>1, <3>2
    <2>2. QED
      BY <1>2, <1>3, <2>1, HoldersIdle DEF Kind
  <1>8. QED
    BY <1>5, <1>6, <1>7 DEF ReconcileIssue

\* A candidate is launched, refused or passed over.
LEMMA DispatchCandidateKind ==
  ASSUME WInv, NEW k \in Key, DispatchCandidate(k)
  PROVE  Kind /\ PhaseMove
  <1>1. /\ TypeOK /\ Consistent(st) /\ k \in Candidates
        /\ phase = "dispatch" /\ phase' = "dispatch" /\ UNCHANGED outcomes
        /\ ~st.draining
    BY DEF WInv, IInv, DispatchUndrained, CandidatesFetched, DispatchCandidate
  <1>2. CASE UNCHANGED <<st, workers, next_generation, alive>>
    BY <1>1, <1>2, SameIsIdle DEF Kind, PhaseMove
  <1>3. CASE /\ Eligible(st, k, Candidate(k)) /\ workers[k] = None
             /\ \E target \in SelectExecutionTarget(k[1]) :
                   DispatchIssue(st, k, Candidate(k), 0, target)
    <2>1. PICK target \in SelectExecutionTarget(k[1]) :
             DispatchIssue(st, k, Candidate(k), 0, target)
      BY <1>3
    <2>2. Candidate(k) \in Issue /\ target \in Targets /\ 0 \in Nat
      BY <1>1, CandidateIsIssue, TargetsAreTargets DEF Key
    <2>3. ~IsClaimed(st, k, Candidate(k))
      BY <1>3 DEF Eligible
    <2>6. Room(k, target)
      BY <1>3, <2>1 DEF Room, Eligible, SlotAvailable, SelectExecutionTarget
    <2>4. /\ Launched(k, Candidate(k).name, target) \/ Refused(k, Candidate(k).name)
          /\ st'.draining = st.draining
      BY <1>1, <1>3, <2>1, <2>2, <2>3, <2>6, DispatchKind DEF WInv
    <2>5. Candidate(k).name \in Names
      BY <2>2 DEF Issue
    <2>7. QED
      BY <1>1, <2>2, <2>4, <2>5 DEF Kind, PhaseMove
  <1>4. QED
    BY <1>2, <1>3 DEF DispatchCandidate

\* A due retry is forgotten, put back, launched or refused.
LEMMA RetryIssueKind ==
  ASSUME WInv, NEW k \in Key, RetryIssue(k)
  PROVE  Kind /\ PhaseMove
  <1> DEFINE base == TakeRetry(st, k)
             retry == st.retry_attempts[k]
  <1>1. /\ TypeOK /\ st \in StateType /\ Consistent(st)
        /\ phase = "retry" /\ phase' = "retry" /\ UNCHANGED outcomes
        /\ ~st.draining /\ retry # None /\ workers[k] = None /\ k \in RetryKeys(st)
    BY DEF WInv, IInv, TypeOK, DispatchUndrained, RetryIssue, Takeable, RetryKeys
  <1>2. /\ base \in StateType /\ base.running = st.running /\ base.draining = st.draining
        /\ base.retry_attempts = [st.retry_attempts EXCEPT ![k] = None]
    BY <1>1, TakeRetryEntries
  <1>3. /\ Consistent(base) /\ Owners(base) = Owners(st) \ {k}
        /\ \A l \in Owners(base) : WorkspacesOf(base, l) = WorkspacesOf(st, l)
    BY <1>1, TakeRetryConsistent
  <1>4. retry \in RetryEntry
    BY <1>1 DEF StateType
  <1>5. CASE st' = base /\ UNCHANGED <<workers, next_generation, alive>>
    <2> HIDE DEF base
    <2>1. Forgotten(k)
      BY <1>1, <1>2, <1>5 DEF Forgotten, Unqueued
    <2>2. QED
      BY <1>1, <1>2, <1>5, <2>1 DEF Kind, PhaseMove
  <1>6. CASE st' = RequeueRetry(base, k, retry) /\ UNCHANGED <<workers, next_generation, alive>>
    <2>1. SameHolders(st, st')
      BY <1>1, <1>6, PutBackHolders
    <2>2. Idle
      BY <1>1, <1>6, <2>1, HoldersIdle
    <2>3. QED
      BY <1>1, <1>6, <2>1, <2>2 DEF Kind, PhaseMove, SameHolders
  <1>7. CASE /\ k \in Candidates /\ Eligible(base, k, Candidate(k))
             /\ \E target \in RetryTarget(k) :
                   DispatchIssue(base, k, Candidate(k), retry.attempt, target)
    <2>1. PICK target \in RetryTarget(k) :
             DispatchIssue(base, k, Candidate(k), retry.attempt, target)
      BY <1>7
    <2>2. Candidate(k) \in Issue /\ target \in Targets /\ retry.attempt \in Nat
      BY <1>1, <1>4, <1>7, CandidateIsIssue, TargetsAreTargets DEF RetryEntry
    <2>3. ~IsClaimed(base, k, Candidate(k))
      BY <1>7 DEF Eligible
    <2>9. Room(k, target)
      <3>1. Cardinality(RunningKeys(st)) < MaxAgents[k[1]]
        BY <1>2, <1>7 DEF Eligible, SlotAvailable, RunningKeys
      <3>2. target # Local => HasCapacity(k[1], target)
        BY <2>1 DEF RetryTarget, SelectExecutionTarget
      <3>3. QED
        BY <3>1, <3>2 DEF Room
    <2> HIDE DEF base, retry
    <2>4. \A l \in Key \ {k} : base.retry_attempts[l] = st.retry_attempts[l]
      BY <1>1, <1>2 DEF StateType
    <2>5. \A l \in Owners(st) \ {k} :
             l \in Owners(base) /\ WorkspacesOf(base, l) = WorkspacesOf(st, l)
      BY <1>3
    <2>6. IInv
      BY DEF WInv
    <2>7. /\ Launched(k, Candidate(k).name, target) \/ Refused(k, Candidate(k).name)
          /\ st'.draining = base.draining
      BY <1>1, <1>2, <1>3, <2>1, <2>2, <2>3, <2>4, <2>5, <2>6, <2>9, DispatchKind
    <2>8. Candidate(k).name \in Names
      BY <2>2 DEF Issue
    <2>10. QED
      BY <1>1, <1>2, <2>2, <2>7, <2>8 DEF Kind, PhaseMove
  <1>8. QED
    BY <1>5, <1>6, <1>7 DEF RetryIssue

\* apply_worker_outcome takes one outcome.
LEMMA OutcomeKind ==
  ASSUME WInv, ApplyWorkerOutcome, UNCHANGED <<next_generation, alive>>
  PROVE  OutcomeTaken
  <1> DEFINE o == Head(outcomes)
             entry == st.running[o.key]
             current == MatchesTask(o)
  <1>1. /\ st \in StateType /\ outcomes # <<>> /\ outcomes' = Tail(outcomes)
        /\ outcomes \in Seq(Outcome)
    BY DEF WInv, IInv, TypeOK, ApplyWorkerOutcome
  <1>2. o \in Outcome
    BY <1>1
  <1>3. o.key \in Key /\ o.reason \in Reasons
    BY <1>2 DEF Outcome
  <1>4. current => entry # None
    BY <1>3 DEF MatchesTask, WInv, Books, TasksRunning
  <1>5. CASE ~current /\ UNCHANGED <<st, workers>>
    BY <1>1, <1>5 DEF OutcomeTaken
  <1>6. CASE /\ current /\ entry # None
             /\ workers' = [workers EXCEPT ![o.key] = None]
             /\ st' = ReleaseIssue(st, o.key)
    <2>1. RunOver(o.key)
      BY <1>1, <1>3, <1>6, ReleaseIssueEntries DEF RunOver, Unqueued
    <2>2. QED
      BY <1>1, <1>6, <2>1 DEF OutcomeTaken
  <1>7. CASE /\ current
             /\ workers' = [workers EXCEPT ![o.key] = None]
             /\ st' = WorkerExit(st, o.key, o.reason)
    <2> DEFINE t == WorkerExit(st, o.key, o.reason)
    <2>1. /\ t.running = [st.running EXCEPT ![o.key] = None]
          /\ \E retry \in RetryEntry :
                /\ retry.workspace_key = st.running[o.key].workspace_key
                /\ t.retry_attempts = [st.retry_attempts EXCEPT ![o.key] = retry]
      <3>1. st.running[o.key] # None
        BY <1>4, <1>7
      <3>2. st \in StateType
        BY <1>1
      <3> HIDE DEF o, t
      <3>3. t.running = [st.running EXCEPT ![o.key] = None]
        BY <1>3, <3>1, <3>2, WorkerExitEntries DEF t
      <3>4. \E retry \in RetryEntry :
               /\ retry.workspace_key = st.running[o.key].workspace_key
               /\ t.retry_attempts = [st.retry_attempts EXCEPT ![o.key] = retry]
        BY <1>3, <3>1, <3>2, WorkerExitEntries DEF t
      <3>5. QED
        BY <3>3, <3>4
    <2> HIDE DEF t
    <2>2. st' = t
      BY <1>7 DEF t
    <2>3. RunOver(o.key)
      BY <2>1, <2>2 DEF RunOver, Queued
    <2>4. QED
      BY <1>1, <1>7, <2>3 DEF OutcomeTaken
  <1>8. QED
    BY <1>5, <1>6, <1>7 DEF ApplyWorkerOutcome

\* What the select and the shutdown loop do.
LEMMA SelectKinds ==
  ASSUME WInv,
         \/ ReceiveOutcome \/ Wake \/ Drain \/ Resume \/ Shutdown
         \/ \E k \in Key : PromoteRetry(k)
         \/ \E k \in Key, g \in Nat : AbortByOperator(k, g)
         \/ ReceiveWhileStopping \/ StopTimeout \/ Stop
  PROVE  Kind /\ PhaseMove
  <1>1. st \in StateType
    BY DEF WInv, IInv, TypeOK
  <1>2. CASE ReceiveOutcome
    <2>1. OutcomeTaken
      BY <1>2, OutcomeKind DEF ReceiveOutcome
    <2>2. QED
      BY <1>2, <2>1 DEF ReceiveOutcome, Kind, PhaseMove
  <1>3. CASE Wake
    BY <1>3, SameIsIdle DEF Wake, Kind, PhaseMove
  <1>4. CASE Drain \/ Resume \/ Shutdown
    <2>1. PICK b \in BOOLEAN : st' = [st EXCEPT !.draining = b]
      BY <1>4 DEF Drain, Resume, Shutdown
    <2>2. st'.running = st.running /\ st'.retry_attempts = st.retry_attempts
      BY <1>1, <2>1 DEF StateType
    <2>3. Idle
      BY <1>4, <2>2 DEF Drain, Resume, Shutdown, Idle, Quiet, SameRunning, SameWaiting
    <2>4. QED
      BY <1>4, <2>3 DEF Drain, Resume, Shutdown, Kind, PhaseMove
  <1>5. ASSUME NEW k \in Key, PromoteRetry(k) PROVE Kind /\ PhaseMove
    <2>1. SameHolders(st, st')
      BY <1>1, <1>5, SetRetryDueHolders DEF PromoteRetry
    <2>2. Idle
      BY <1>5, <2>1, HoldersIdle DEF PromoteRetry
    <2>3. QED
      BY <1>5, <2>2 DEF PromoteRetry, Kind, PhaseMove
  <1>6. ASSUME NEW k \in Key, NEW g \in Nat, AbortByOperator(k, g) PROVE Kind /\ PhaseMove
    <2>1. CASE workers[k] # None /\ AbortWorker(k) /\ st' = WorkerExit(st, k, "failed")
      <3>1. "failed" \in Reasons
        BY DEF Reasons
      <3>2. Aborted(k)
        BY <1>6, <2>1, <3>1, AbortKinds DEF AbortByOperator
      <3>3. QED
        BY <1>6, <2>1, <3>2 DEF AbortByOperator, Kind, PhaseMove
    <2>2. CASE UNCHANGED <<workers, alive, st>>
      BY <1>6, <2>2, SameIsIdle DEF AbortByOperator, Kind, PhaseMove
    <2>3. QED
      BY <1>6, <2>1, <2>2 DEF AbortByOperator
  <1>7. CASE ReceiveWhileStopping
    <2>1. OutcomeTaken
      BY <1>7, OutcomeKind DEF ReceiveWhileStopping
    <2>2. QED
      BY <1>7, <2>1 DEF ReceiveWhileStopping, loop, Kind, PhaseMove
  <1>8. CASE StopTimeout
    BY <1>8 DEF StopTimeout, AllAborted, loop, Kind, PhaseMove
  <1>9. CASE Stop
    BY <1>9, SameIsIdle DEF Stop, Kind, PhaseMove
  <1>10. QED
    BY <1>2, <1>3, <1>4, <1>5, <1>6, <1>7, <1>8, <1>9

\* A worker step moves its own task.
LEMMA WorkerKinds ==
  ASSUME WInv, NEW w \in alive, WorkerStep(w)
  PROVE  Kind /\ PhaseMove
  <1>1. w \in Task /\ UNCHANGED <<st, workers, next_generation, phase>>
    BY DEF WInv, IInv, TypeOK, WorkerStep, PrepareWorkspace, MarkStarted, AgentResolves,
           EndOfTurns, CompleteIssue, FailWorker, service, loop
  <1>2. PhaseMove
    BY <1>1 DEF PhaseMove, WInv, DispatchUndrained
  <1>3. ASSUME NEW stage \in {"prepared", "working"}, stage = "prepared" => w.marks_started,
               Advance(w, stage)
        PROVE  TaskMoved(w)
    <2> DEFINE v == [w EXCEPT !.stage = stage]
    <2>1. /\ v \in Task /\ v.key = w.key /\ v.generation = w.generation
          /\ v.name = w.name /\ v.target = w.target
      BY <1>1, <1>3 DEF Task
    <2>2. alive' = (alive \ {w}) \cup {v} /\ UNCHANGED outcomes
      BY <1>3 DEF Advance
    <2>3. QED
      BY <1>1, <2>1, <2>2 DEF TaskMoved
  <1>4. CASE PrepareWorkspace(w) \/ MarkStarted(w)
    <2>1. TaskMoved(w)
      BY <1>3, <1>4 DEF PrepareWorkspace, MarkStarted
    <2>2. QED
      BY <1>2, <2>1 DEF Kind
  <1>5. CASE AgentResolves(w)
    <2>1. Idle
      BY <1>1, <1>5, SameIsIdle DEF AgentResolves
    <2>2. QED
      BY <1>2, <2>1 DEF Kind
  <1>6. CASE EndOfTurns(w)
    <2> DEFINE done == tracker[w.key] \in TerminalStates[w.key[1]]
               v == [w EXCEPT !.stage = "completing", !.terminal = done]
    <2>1. CASE alive' = (alive \ {w}) \cup {v} /\ UNCHANGED outcomes
      <3>1. done \in BOOLEAN
        OBVIOUS
      <3> HIDE DEF done
      <3>2. /\ v \in Task /\ v.key = w.key /\ v.generation = w.generation
            /\ v.name = w.name /\ v.target = w.target
        BY <1>1, <1>6, <3>1 DEF Task, EndOfTurns
      <3>3. TaskMoved(w)
        BY <1>1, <2>1, <3>2 DEF TaskMoved
      <3>4. QED
        BY <1>2, <3>3 DEF Kind
    <2>2. CASE \E reason \in Reasons, terminal \in BOOLEAN : Finish(w, reason, terminal)
      <3>1. TaskMoved(w)
        BY <1>1, <2>2 DEF TaskMoved
      <3>2. QED
        BY <1>2, <3>1 DEF Kind
    <2>3. QED
      BY <1>6, <2>1, <2>2 DEF EndOfTurns, Reasons
  <1>7. CASE CompleteIssue(w) \/ FailWorker(w)
    <2>1. w.terminal \in BOOLEAN
      BY <1>1 DEF Task
    <2>2. \E reason \in Reasons, terminal \in BOOLEAN : Finish(w, reason, terminal)
      BY <1>7, <2>1 DEF CompleteIssue, FailWorker, Reasons
    <2>3. TaskMoved(w)
      BY <1>1, <2>2 DEF TaskMoved
    <2>4. QED
      BY <1>2, <2>3 DEF Kind
  <1>8. QED
    BY <1>4, <1>5, <1>6, <1>7 DEF WorkerStep

\* Users and the clock change no task.
LEMMA EnvironmentKinds ==
  ASSUME WInv, Environment
  PROVE  Kind /\ PhaseMove
  <1>1. ASSUME NEW k \in Key, BecomeDue(k) PROVE Kind /\ PhaseMove
    <2>1. st \in StateType
      BY DEF WInv, IInv, TypeOK
    <2>2. SameHolders(st, st')
      BY <1>1, <2>1, SetRetryDueHolders DEF BecomeDue
    <2>3. Idle
      BY <1>1, <2>2, HoldersIdle DEF BecomeDue
    <2>4. QED
      BY <1>1, <2>2, <2>3
      DEF BecomeDue, loop, Kind, PhaseMove, SameHolders, WInv, DispatchUndrained
  <1>2. CASE (\E k \in Key : TrackerMove(k)) \/ \E i \in IssueIds : Rename(i)
    <2>1. UNCHANGED <<st, workers, next_generation, alive, outcomes, phase>>
      BY <1>2 DEF TrackerMove, Rename, service, loop
    <2>2. QED
      BY <2>1, SameIsIdle DEF Kind, PhaseMove, WInv, DispatchUndrained
  <1>3. QED
    BY <1>1, <1>2 DEF Environment

\* Every step of the service is of one of the kinds.
LEMMA EveryKind ==
  ASSUME WInv, [Next]_vars
  PROVE  Kind /\ PhaseMove
  <1>1. CASE TickStep
    <2>1. ASSUME NEW k \in Key, ReconcileIssue(k) \/ DispatchCandidate(k) \/ RetryIssue(k)
          PROVE  Kind /\ PhaseMove
      BY <2>1, ReconcileIssueKind, DispatchCandidateKind, RetryIssueKind
    <2>2. QED
      BY <1>1, <2>1, TickKinds DEF TickStep
  <1>2. ASSUME NEW k \in Key, ReconcileStalled(k) PROVE Kind /\ PhaseMove
    BY <1>2, ReconcileStalledKind
  <1>3. CASE OperatorStep
    <2>1. next_generation \in Nat
      BY DEF WInv, IInv, TypeOK
    <2>2. QED
      BY <1>3, <2>1, SelectKinds DEF OperatorStep
  <1>4. CASE ReceiveOutcome \/ Wake \/ StopStep
    BY <1>4, SelectKinds DEF StopStep
  <1>5. ASSUME NEW w \in alive, WorkerStep(w) PROVE Kind /\ PhaseMove
    BY <1>5, WorkerKinds
  <1>6. CASE Environment
    BY <1>6, EnvironmentKinds
  <1>7. CASE UNCHANGED vars
    <2>1. UNCHANGED <<st, workers, next_generation, alive, outcomes, phase>>
      BY <1>7 DEF vars, loop
    <2>2. QED
      BY <2>1, SameIsIdle DEF Kind, PhaseMove, WInv, DispatchUndrained, StoppedTaskless
  <1>8. QED
    BY <1>1, <1>2, <1>3, <1>4, <1>5, <1>6, <1>7 DEF Next, Stopped

-----------------------------------------------------------------------------
(* The invariant. *)

\* Steps that only touch the retries.
LEMMA UntouchedIsQuiet ==
  ASSUME st'.running = st.running, UNCHANGED <<workers, next_generation, alive, outcomes>>
  PROVE  Quiet
  BY DEF Quiet, SameRunning

\* Whatever the kind, the books stay right.
LEMMA KindKeepsBooks ==
  ASSUME IInv, Books, Kind
  PROVE  Books'
  <1>1. CASE Idle
    BY <1>1, QuietKeepsBooks DEF Idle
  <1>2. ASSUME NEW k \in Key, NEW n \in Names, Refused(k, n) PROVE Books'
    BY <1>2, UntouchedIsQuiet, QuietKeepsBooks DEF Refused
  <1>3. ASSUME NEW k \in Key, NEW n \in Names, NEW target \in Targets, Launched(k, n, target)
        PROVE  Books'
    BY <1>3, StartedKeepsBooks DEF Launched
  <1>4. ASSUME NEW k \in Key, Forgotten(k) PROVE Books'
    BY <1>4, UntouchedIsQuiet, QuietKeepsBooks DEF Forgotten
  <1>5. ASSUME NEW k \in Key, workers[k] # None, Aborted(k) PROVE Books'
    BY <1>5, AbortedKeepsBooks
  <1>6. CASE OutcomeTaken
    BY <1>6, OutcomeTakenKeepsBooks
  <1>7. ASSUME NEW w \in alive, TaskMoved(w) PROVE Books'
    BY <1>7, TaskMovedKeepsBooks
  <1>8. CASE AllAborted
    BY <1>8, AllAbortedKeepsBooks
  <1>9. QED
    BY <1>1, <1>2, <1>3, <1>4, <1>5, <1>6, <1>7, <1>8 DEF Kind

\* Before shutdown a step that gives an entry its task or takes one away does both.
LEMMA KindKeepsTasked ==
  ASSUME IInv, Books, Kind, phase' # "stopping",
         \A k \in Key : st.running[k] # None => workers[k] # None
  PROVE  \A k \in Key : st'.running[k] # None => workers'[k] # None
  <1>1. /\ workers \in [Key -> [generation: Nat, target: Targets] \cup {None}]
        /\ st.running \in [Key -> RunningEntry \cup {None}]
        /\ next_generation \in Nat /\ outcomes \in Seq(Outcome)
    BY DEF IInv, TypeOK, StateType
  <1>2. CASE Idle
    BY <1>2 DEF Idle, Quiet, SameRunning
  <1>3. ASSUME NEW k \in Key, Forgotten(k) \/ \E n \in Names : Refused(k, n)
        PROVE  st'.running = st.running /\ workers' = workers
    BY <1>3 DEF Forgotten, Refused
  <1>4. ASSUME NEW k \in Key, NEW n \in Names, NEW target \in Targets, Launched(k, n, target)
        PROVE  \A l \in Key : st'.running[l] # None => workers'[l] # None
    <2> DEFINE task == [generation |-> next_generation + 1, target |-> target]
    <2>1. task \in [generation: Nat, target: Targets] /\ task # None
      BY <1>1, RunnerAssumption
    <2>2. workers' = [workers EXCEPT ![k] = task]
      BY <1>4 DEF Launched, Started
    <2>3. PICK entry \in RunningEntry : st'.running = [st.running EXCEPT ![k] = entry]
      BY <1>4 DEF Launched, Started
    <2> HIDE DEF task
    <2>4. QED
      BY <1>1, <2>1, <2>2, <2>3
  <1>5. ASSUME NEW k \in Key, Aborted(k)
        PROVE  \A l \in Key : st'.running[l] # None => workers'[l] # None
    BY <1>1, <1>5 DEF Aborted, AbortWorker, RunOver
  <1>6. CASE OutcomeTaken
    <2>1. Head(outcomes).key \in Key
      <3>1. Head(outcomes) \in Outcome
        BY <1>1, <1>6 DEF OutcomeTaken
      <3>2. QED
        BY <3>1 DEF Outcome
    <2>2. QED
      BY <1>1, <1>6, <2>1 DEF OutcomeTaken, RunOver
  <1>7. ASSUME NEW w \in alive, TaskMoved(w)
        PROVE  st' = st /\ workers' = workers
    BY <1>7 DEF TaskMoved
  <1>8. QED
    BY <1>2, <1>3, <1>4, <1>5, <1>6, <1>7 DEF Kind

\* At start there are no tasks.
LEMMA WorkersInit == Init => WInv
  <1> SUFFICES ASSUME Init PROVE WInv
    OBVIOUS
  <1>1. IInv
    BY InitEstablishes
  <1>2. /\ \A k \in Key : workers[k] = None /\ st.running[k] = None
        /\ alive = {} /\ outcomes = <<>> /\ phase = "boot"
    BY DEF Init, InitState
  <1>3. QED
    BY <1>1, <1>2
    DEF WInv, Books, AliveRegistered, Numbered, TasksRunning, AnswersOnce,
        RunningTasked, StoppedTaskless, DispatchUndrained

\* Every step keeps the invariant.
LEMMA WorkersNext == WInv /\ [Next]_vars => WInv'
  <1> SUFFICES ASSUME WInv, [Next]_vars PROVE WInv'
    OBVIOUS
  <1>1. IInv' /\ IInv /\ Books
    BY NextPreserves DEF WInv
  <1>2. Kind /\ PhaseMove
    BY EveryKind
  <1>3. Books'
    BY <1>1, <1>2, KindKeepsBooks
  <1>4. RunningTasked'
    BY <1>1, <1>2, KindKeepsTasked DEF WInv, RunningTasked, PhaseMove
  <1>5. StoppedTaskless'
    BY <1>2 DEF WInv, StoppedTaskless, PhaseMove, NoTasks
  <1>6. DispatchUndrained'
    BY <1>2 DEF DispatchUndrained, PhaseMove
  <1>7. QED
    BY <1>1, <1>3, <1>4, <1>5, <1>6 DEF WInv

\* The invariant holds in every reachable state.
LEMMA WorkersInductive == Spec => []WInv
  BY WorkersInit, WorkersNext, PTL DEF Spec

LEMMA AgentsIsolated == WInv => WorkersIsolated
  <1> SUFFICES ASSUME WInv, NEW v \in alive, NEW w \in alive, v # w
               PROVE  /\ v.key[2] # w.key[2]
                      /\ <<v.key[1], v.name>> # <<w.key[1], w.name>>
    BY DEF WorkersIsolated
  <1>1. /\ v.key \in Key /\ w.key \in Key /\ v.key # w.key
    BY DEF WInv, IInv, TypeOK, Task, Books, AliveRegistered
  <1>2. /\ st.running[v.key] # None /\ st.running[w.key] # None
        /\ st.running[v.key].workspace_key = <<v.key[1], v.name>>
        /\ st.running[w.key].workspace_key = <<w.key[1], w.name>>
    BY <1>1 DEF WInv, Books, AliveRegistered, Registered, TasksRunning
  <1>3. /\ v.key \in Owners(st) /\ w.key \in Owners(st)
        /\ <<v.key[1], v.name>> \in WorkspacesOf(st, v.key)
        /\ <<w.key[1], w.name>> \in WorkspacesOf(st, w.key)
    BY <1>1, <1>2 DEF Owners, RunningKeys, WorkspacesOf
  <1>4. /\ v.key[2] # w.key[2]
        /\ WorkspacesOf(st, v.key) \cap WorkspacesOf(st, w.key) = {}
    BY <1>1, <1>3 DEF WInv, IInv, Consistent, OwnersDisjoint
  <1>5. QED
    BY <1>3, <1>4

\* Two live agents never share an issue id or a directory, whatever the sources, the
\* aborts, the late outcomes and the new dispatches that meet.
THEOREM WorkersIsolatedAlways == Spec => []WorkersIsolated
  BY AgentsIsolated, WorkersInductive, PTL

\* Each live agent is a registered task, each registered task is alive or has exactly one
\* outcome in the channel, and until shutdown each running entry has its task.
THEOREM WorkersAccountedForAlways == Spec => []WorkersAccountedFor
  <1>1. WInv => WorkersAccountedFor
    <2> SUFFICES ASSUME WInv PROVE WorkersAccountedFor
      OBVIOUS
    <2>1. \A w \in alive : w.key \in Key
      BY DEF WInv, IInv, TypeOK, Task
    <2>2. \A k \in Key : TaskOf(k) = {w \in alive : w.key = k}
      BY DEF TaskOf, WInv, Books, AliveRegistered, Registered
    <2>3. alive = UNION {TaskOf(k) : k \in Key}
      BY <2>1, <2>2
    <2>4. ASSUME NEW k \in Key, workers[k] # None
          PROVE  Cardinality(TaskOf(k)) + Cardinality(Answers(k)) = 1
      <3>1. Answers(k) = {n \in DOMAIN outcomes : AnswerAt(n, k)}
        BY DEF Answers, AnswerAt
      <3>2. CASE (\E w \in alive : w.key = k) /\ (\A n : ~AnswerAt(n, k))
        <4>1. PICK w \in alive : w.key = k
          BY <3>2
        <4>2. TaskOf(k) = {w} /\ Answers(k) = {}
          BY <2>2, <3>1, <3>2, <4>1 DEF WInv, Books, AliveRegistered
        <4>3. QED
          BY <4>2, FS_Singleton, FS_EmptySet
      <3>3. CASE /\ \A w \in alive : w.key # k
                 /\ \E n : AnswerAt(n, k) /\ \A m : AnswerAt(m, k) => m = n
        <4>1. PICK n : AnswerAt(n, k) /\ \A m : AnswerAt(m, k) => m = n
          BY <3>3
        <4>2. TaskOf(k) = {} /\ Answers(k) = {n}
          BY <2>2, <3>1, <3>3, <4>1 DEF AnswerAt
        <4>3. Cardinality(TaskOf(k)) = 0 /\ Cardinality(Answers(k)) = 1
          BY <4>2, FS_Singleton, FS_EmptySet
        <4>4. QED
          BY <4>3
      <3>4. QED
        BY <2>4, <3>2, <3>3 DEF WInv, Books, AnswersOnce
    <2>5. ASSUME phase \notin {"stopping", "stopped"}, NEW k \in Key
          PROVE  IF workers[k] = None THEN st.running[k] = None
                 ELSE /\ st.running[k] # None
                      /\ st.running[k].generation = workers[k].generation
                      /\ st.running[k].target = workers[k].target
      BY <2>5 DEF WInv, RunningTasked, Books, TasksRunning
    <2>6. QED
      BY <2>3, <2>4, <2>5 DEF WorkersAccountedFor
  <1>2. QED
    BY <1>1, WorkersInductive, PTL

\* The issues that agents work on, and those worked on at one host.
Served == {w.key : w \in alive}
ServedOn(h) == {w.key : w \in {v \in alive : v.target = h}}

\* Some source allows that many agents, and that many on each host.
WithinLimits ==
    /\ Served # {} => \E s \in Sources : Cardinality(Served) <= MaxAgents[s]
    /\ \A h \in HostPool : ServedOn(h) # {} =>
          \E s \in Sources : Cardinality(ServedOn(h)) <= HostCapacity[s]

\* Fewer agents exceed nothing.
LEMMA FewerWithinLimits ==
  ASSUME WithinLimits, IsFiniteSet(Served), Served' \subseteq Served,
         \A h \in HostPool : ServedOn(h)' \subseteq ServedOn(h) /\ IsFiniteSet(ServedOn(h))
  PROVE  WithinLimits'
  <1>1. /\ Cardinality(Served') <= Cardinality(Served)
        /\ Cardinality(Served') \in Nat /\ Cardinality(Served) \in Nat
    BY FS_Subset, FS_CardinalityType
  <1>2. ASSUME NEW h \in HostPool
        PROVE  /\ Cardinality(ServedOn(h)') <= Cardinality(ServedOn(h))
               /\ Cardinality(ServedOn(h)') \in Nat /\ Cardinality(ServedOn(h)) \in Nat
    BY FS_Subset, FS_CardinalityType
  <1>3. \A s \in Sources : MaxAgents[s] \in Nat /\ HostCapacity[s] \in Nat
    BY ConfigAssumption
  <1>4. Served' # {} => \E s \in Sources : Cardinality(Served') <= MaxAgents[s]
    BY <1>1, <1>3 DEF WithinLimits
  <1>5. ASSUME NEW h \in HostPool, ServedOn(h)' # {}
        PROVE  \E s \in Sources : Cardinality(ServedOn(h)') <= HostCapacity[s]
    BY <1>2, <1>3, <1>5 DEF WithinLimits
  <1>6. QED
    BY <1>4, <1>5 DEF WithinLimits

\* Each agent has its running entry and its registration, of which there are finitely many.
LEMMA ServedFinite ==
  ASSUME WInv
  PROVE  /\ Served \subseteq RunningKeys(st) /\ IsFiniteSet(RunningKeys(st))
         /\ IsFiniteSet(Served)
         /\ \A h \in HostPool :
              LET registered == {k \in Key : workers[k] # None /\ workers[k].target = h}
              IN  /\ ServedOn(h) \subseteq registered /\ IsFiniteSet(registered)
                  /\ IsFiniteSet(ServedOn(h))
  <1>1. IsFiniteSet(Key)
    BY SourcesAssumption, FS_Product DEF Key
  <1>2. \A w \in alive : w.key \in Key
    BY DEF WInv, IInv, TypeOK, Task
  <1>3. Served \subseteq RunningKeys(st)
    BY <1>2 DEF Served, RunningKeys, WInv, Books, AliveRegistered, Registered, TasksRunning
  <1>4. RunningKeys(st) \subseteq Key
    BY DEF RunningKeys
  <1>5. IsFiniteSet(RunningKeys(st)) /\ IsFiniteSet(Served)
    BY <1>1, <1>3, <1>4, FS_Subset
  <1>6. ASSUME NEW h \in HostPool
        PROVE  LET registered == {k \in Key : workers[k] # None /\ workers[k].target = h}
               IN  /\ ServedOn(h) \subseteq registered /\ IsFiniteSet(registered)
                   /\ IsFiniteSet(ServedOn(h))
    <2> DEFINE registered == {k \in Key : workers[k] # None /\ workers[k].target = h}
    <2>1. ServedOn(h) \subseteq registered
      BY <1>2 DEF ServedOn, WInv, Books, AliveRegistered, Registered
    <2>2. registered \subseteq Key
      OBVIOUS
    <2> HIDE DEF registered
    <2>3. IsFiniteSet(registered) /\ IsFiniteSet(ServedOn(h))
      BY <1>1, <2>1, <2>2, FS_Subset
    <2>4. QED
      BY <2>1, <2>3 DEF registered
  <1>7. QED
    BY <1>3, <1>5, <1>6

\* One more agent, where there is room for it.
LEMMA LaunchedWithinLimits ==
  ASSUME WInv, WithinLimits, NEW k \in Key, NEW n \in Names, NEW target \in Targets,
         Launched(k, n, target)
  PROVE  WithinLimits'
  <1>1. PICK w \in Task : w.key = k /\ w.target = target /\ alive' = alive \cup {w}
    BY DEF Launched, Started
  <1>2. k[1] \in Sources /\ MaxAgents[k[1]] \in Nat /\ HostCapacity[k[1]] \in Nat
    BY ConfigAssumption DEF Key
  <1>3. Served' = Served \cup {k}
    BY <1>1 DEF Served
  <1>4. Cardinality(Served') <= MaxAgents[k[1]]
    <2>1. /\ Served \subseteq RunningKeys(st) /\ IsFiniteSet(RunningKeys(st))
          /\ IsFiniteSet(Served)
      BY ServedFinite
    <2>2. Cardinality(Served) <= Cardinality(RunningKeys(st))
      BY <2>1, FS_Subset
    <2>3. Cardinality(Served) \in Nat /\ Cardinality(RunningKeys(st)) \in Nat
      BY <2>1, FS_CardinalityType
    <2>4. Cardinality(Served \cup {k}) <= Cardinality(Served) + 1
      <3>1. Cardinality(Served \cup {k})
              = IF k \in Served THEN Cardinality(Served) ELSE Cardinality(Served) + 1
        BY <2>1, FS_AddElement
      <3>2. QED
        BY <2>3, <3>1
    <2>5. Cardinality(Served \cup {k}) \in Nat
      BY <2>1, FS_AddElement, FS_CardinalityType
    <2>6. Cardinality(RunningKeys(st)) < MaxAgents[k[1]]
      BY DEF Launched, Room
    <2>7. QED
      BY <1>2, <1>3, <2>2, <2>3, <2>4, <2>5, <2>6
  <1>5. ASSUME NEW h \in HostPool, ServedOn(h)' # {}
        PROVE  \E s \in Sources : Cardinality(ServedOn(h)') <= HostCapacity[s]
    <2> DEFINE registered == {l \in Key : workers[l] # None /\ workers[l].target = h}
    <2>1. CASE target # h
      <3>1. ServedOn(h)' = ServedOn(h)
        BY <1>1, <2>1 DEF ServedOn
      <3>2. QED
        BY <1>5, <3>1 DEF WithinLimits
    <2>2. CASE target = h
      <3>1. ServedOn(h)' = ServedOn(h) \cup {k}
        BY <1>1, <2>2 DEF ServedOn
      <3>2. /\ ServedOn(h) \subseteq registered /\ IsFiniteSet(registered)
            /\ IsFiniteSet(ServedOn(h))
        BY ServedFinite
      <3>3. Cardinality(registered) < HostCapacity[k[1]]
        BY <2>2, ConfigAssumption DEF Launched, Room, HasCapacity, ActiveOnHost
      <3> HIDE DEF registered
      <3>4. Cardinality(ServedOn(h)) <= Cardinality(registered)
        BY <3>2, FS_Subset
      <3>5. Cardinality(ServedOn(h)) \in Nat /\ Cardinality(registered) \in Nat
        BY <3>2, FS_CardinalityType
      <3>6. Cardinality(ServedOn(h) \cup {k}) <= Cardinality(ServedOn(h)) + 1
        <4>1. Cardinality(ServedOn(h) \cup {k})
                = IF k \in ServedOn(h) THEN Cardinality(ServedOn(h))
                  ELSE Cardinality(ServedOn(h)) + 1
          BY <3>2, FS_AddElement
        <4>2. QED
          BY <3>5, <4>1
      <3>7. Cardinality(ServedOn(h) \cup {k}) \in Nat
        BY <3>2, FS_AddElement, FS_CardinalityType
      <3>8. QED
        BY <1>2, <3>1, <3>3, <3>4, <3>5, <3>6, <3>7
    <2>3. QED
      BY <2>1, <2>2
  <1>6. QED
    BY <1>2, <1>4, <1>5 DEF WithinLimits

\* Whatever the kind, the limits stay respected.
LEMMA KindWithinLimits ==
  ASSUME WInv, WithinLimits, Kind
  PROVE  WithinLimits'
  <1>1. ASSUME NEW k \in Key, NEW n \in Names, NEW target \in Targets, Launched(k, n, target)
        PROVE  WithinLimits'
    BY <1>1, LaunchedWithinLimits
  <1>2. ASSUME alive' \subseteq alive PROVE WithinLimits'
    BY <1>2, ServedFinite, FewerWithinLimits DEF Served, ServedOn
  <1>3. ASSUME NEW w \in alive, NEW v, v.key = w.key, v.target = w.target,
               alive' = (alive \ {w}) \cup {v}
        PROVE  WithinLimits'
    <2>1. Served' \subseteq Served
      BY <1>3 DEF Served
    <2>2. \A h \in HostPool : ServedOn(h)' \subseteq ServedOn(h)
      BY <1>3 DEF ServedOn
    <2>3. QED
      BY <2>1, <2>2, ServedFinite, FewerWithinLimits
  <1>4. CASE Idle \/ OutcomeTaken \/ AllAborted
    BY <1>2, <1>4 DEF Idle, Quiet, OutcomeTaken, AllAborted
  <1>5. ASSUME NEW k \in Key, Forgotten(k) \/ Aborted(k) \/ \E n \in Names : Refused(k, n)
        PROVE  WithinLimits'
    BY <1>2, <1>5 DEF Forgotten, Refused, Aborted, AbortWorker
  <1>6. ASSUME NEW w \in alive, TaskMoved(w) PROVE WithinLimits'
    <2>1. CASE \E reason \in Reasons, terminal \in BOOLEAN : Finish(w, reason, terminal)
      BY <1>2, <2>1 DEF Finish
    <2>2. QED
      BY <1>3, <1>6, <2>1 DEF TaskMoved
  <1>7. QED
    BY <1>1, <1>4, <1>5, <1>6 DEF Kind

\* The agents alive are as many as the issues they work on, on each host too.
LEMMA ServedCount ==
  ASSUME WInv
  PROVE  /\ Cardinality(alive) = Cardinality(Served)
         /\ \A h \in HostPool :
               Cardinality({w \in alive : w.target = h}) = Cardinality(ServedOn(h))
  <1>1. \A v, w \in alive : v.key = w.key => v = w
    BY DEF WInv, Books, AliveRegistered
  <1>2. ASSUME NEW A \in SUBSET alive, IsFiniteSet({w.key : w \in A})
        PROVE  Cardinality(A) = Cardinality({w.key : w \in A})
    <2> DEFINE keys == {w.key : w \in A}
               f == [k \in keys |-> CHOOSE w \in A : w.key = k]
    <2>1. ASSUME NEW k \in keys PROVE f[k] \in A /\ f[k].key = k
      OBVIOUS
    <2>2. f \in [keys -> A]
      BY <2>1
    <2>3. ASSUME NEW k \in keys, NEW l \in keys, f[k] = f[l] PROVE k = l
      BY <2>1, <2>3
    <2>4. ASSUME NEW w \in A PROVE \E k \in keys : f[k] = w
      <3>1. w.key \in keys
        OBVIOUS
      <3>2. f[w.key] \in A /\ f[w.key].key = w.key
        BY <2>1, <3>1
      <3>3. f[w.key] = w
        BY <1>1, <3>2
      <3>4. QED
        BY <3>1, <3>3
    <2> HIDE DEF f, keys
    <2>5. f \in Bijection(keys, A)
      BY <2>2, <2>3, <2>4 DEF Bijection, Injection, IsInjective, Surjection
    <2>6. QED
      BY <1>2, <2>5, FS_Bijection DEF ExistsBijection, keys
  <1>3. Cardinality(alive) = Cardinality(Served)
    BY <1>2, ServedFinite DEF Served
  <1>4. ASSUME NEW h \in HostPool
        PROVE  Cardinality({w \in alive : w.target = h}) = Cardinality(ServedOn(h))
    BY <1>2, ServedFinite DEF ServedOn
  <1>5. QED
    BY <1>3, <1>4

\* Not more agents live than some source allows, nor on one host than some source allows
\* there, although the sources limit them independently of one another.
THEOREM LimitsRespectedAlways == Spec => []LimitsRespected
  <1>1. Init => WithinLimits
    BY DEF Init, WithinLimits, Served, ServedOn
  <1>2. WInv /\ WithinLimits /\ [Next]_vars => WithinLimits'
    BY EveryKind, KindWithinLimits
  <1>3. WInv /\ WithinLimits => LimitsRespected
    <2> SUFFICES ASSUME WInv, WithinLimits PROVE LimitsRespected
      OBVIOUS
    <2>1. alive # {} => Served # {}
      BY DEF Served
    <2>2. ASSUME NEW h \in HostPool
          PROVE  {w \in alive : w.target = h} # {} => ServedOn(h) # {}
      BY DEF ServedOn
    <2>3. QED
      BY <2>1, <2>2, ServedCount DEF LimitsRespected, WithinLimits
  <1>4. QED
    BY <1>1, <1>2, <1>3, WorkersInductive, PTL DEF Spec

\* Shutdown, with or without its timeout, leaves no agent behind.
THEOREM StoppedCleanAlways == Spec => []StoppedClean
  <1>1. WInv => StoppedClean
    <2>1. WInv => \A w \in alive : w.key \in Key
      BY DEF WInv, IInv, TypeOK, Task
    <2>2. QED
      BY <2>1
      DEF StoppedClean, WInv, StoppedTaskless, NoTasks, Books, AliveRegistered, Registered
  <1>2. QED
    BY <1>1, WorkersInductive, PTL

\* From a drain command or a shutdown on, until resume, no worker is started.
THEOREM DrainHoldsAlways == Spec => DrainHolds
  <1>1. WInv /\ [Next]_vars => [st.draining => next_generation' = next_generation]_vars
    BY EveryKind DEF WInv, DispatchUndrained, PhaseMove
  <1>2. QED
    BY <1>1, WorkersInductive, PTL DEF Spec, DrainHolds

-----------------------------------------------------------------------------
(* The back-off. *)

\* Between two records the attempt of k does not fall, and it grows when a run is over.
KeepsAttempt(s, t, k) ==
    k \in Owners(s) \cap Owners(t) =>
        /\ Attempt(t, k) >= Attempt(s, k)
        /\ s.running[k] # None /\ t.running[k] = None => Attempt(t, k) > Attempt(s, k)

KeepsAttempts(s, t) == \A k \in Key : KeepsAttempt(s, t, k)

\* Whoever has a claim has an attempt.
LEMMA OwnersAttempt ==
  ASSUME NEW s \in StateType, NEW k \in Owners(s)
  PROVE  Attempt(s, k) \in Nat
  <1>1. k \in Key /\ (s.running[k] # None \/ s.retry_attempts[k] # None)
    BY DEF Owners, RunningKeys, RetryKeys
  <1>2. CASE s.running[k] # None
    <2>1. s.running[k] \in RunningEntry
      BY <1>1, <1>2 DEF StateType
    <2>2. QED
      BY <1>2, <2>1 DEF Attempt, RunningEntry
  <1>3. CASE s.running[k] = None
    <2>1. s.retry_attempts[k] \in RetryEntry
      BY <1>1, <1>3 DEF StateType
    <2>2. QED
      BY <1>3, <2>1 DEF Attempt, RetryEntry
  <1>4. QED
    BY <1>2, <1>3

\* An entry that stays as it is keeps its attempt.
LEMMA SameEntryKeeps ==
  ASSUME NEW s \in StateType, NEW t, NEW k \in Key,
         t.running[k] = s.running[k], t.retry_attempts[k] = s.retry_attempts[k]
  PROVE  KeepsAttempt(s, t, k)
  <1> SUFFICES ASSUME k \in Owners(s)
               PROVE  /\ Attempt(t, k) >= Attempt(s, k)
                      /\ ~(s.running[k] # None /\ t.running[k] = None)
    BY DEF KeepsAttempt
  <1>1. Attempt(t, k) = Attempt(s, k) /\ Attempt(s, k) \in Nat
    BY OwnersAttempt DEF Attempt
  <1>2. QED
    BY <1>1

\* So only the entry that changes has to be looked at.
LEMMA OneEntryKeeps ==
  ASSUME NEW s \in StateType, NEW t, NEW k \in Key,
         \A l \in Key \ {k} : /\ t.running[l] = s.running[l]
                              /\ t.retry_attempts[l] = s.retry_attempts[l],
         KeepsAttempt(s, t, k)
  PROVE  KeepsAttempts(s, t)
  BY SameEntryKeeps DEF KeepsAttempts

\* A run that ends otherwise than normally raises the attempt; a normal end is nobody
\* else's business.
LEMMA ExitKeeps ==
  ASSUME NEW s \in StateType, NEW k \in Key, NEW reason \in Reasons, s.running[k] # None
  PROVE  LET t == WorkerExit(s, k, reason)
         IN  /\ \A l \in Key \ {k} : KeepsAttempt(s, t, l)
             /\ reason # "normal" => KeepsAttempts(s, t)
  <1> DEFINE retry == RetryAfterExit(s.running[k], reason)
             t == WorkerExit(s, k, reason)
  <1>1. s.running[k] \in RunningEntry
    BY DEF StateType
  <1>2. reason # "normal" => retry.attempt = s.running[k].retry_attempt + 1
    BY DEF RetryAfterExit
  <1>3. t = RequeueRetry([s EXCEPT !.running[k] = None], k, retry)
    BY DEF WorkerExit
  <1> HIDE DEF retry, t
  <1>4. /\ t.running = [s.running EXCEPT ![k] = None]
        /\ t.retry_attempts = [s.retry_attempts EXCEPT ![k] = retry]
    BY <1>3 DEF RequeueRetry, StateType
  <1>5. /\ t.running[k] = None /\ t.retry_attempts[k] = retry
        /\ \A l \in Key \ {k} : /\ t.running[l] = s.running[l]
                                /\ t.retry_attempts[l] = s.retry_attempts[l]
    BY <1>4 DEF StateType
  <1>6. \A l \in Key \ {k} : KeepsAttempt(s, t, l)
    BY <1>5, SameEntryKeeps
  <1>7. ASSUME reason # "normal" PROVE KeepsAttempt(s, t, k)
    <2>1. Attempt(s, k) = s.running[k].retry_attempt /\ Attempt(t, k) = retry.attempt
      BY <1>5 DEF Attempt
    <2>2. s.running[k].retry_attempt \in Nat
      BY <1>1 DEF RunningEntry
    <2>3. Attempt(t, k) = Attempt(s, k) + 1 /\ Attempt(s, k) \in Nat
      BY <1>2, <1>7, <2>1, <2>2
    <2>4. QED
      BY <2>3 DEF KeepsAttempt
  <1>8. QED
    BY <1>6, <1>7 DEF t, KeepsAttempts

\* Who is released has no attempt any more.
LEMMA ReleasedKeeps ==
  ASSUME NEW s \in StateType, NEW t, NEW k \in Key,
         t.running = [s.running EXCEPT ![k] = None],
         t.retry_attempts = [s.retry_attempts EXCEPT ![k] = None]
  PROVE  KeepsAttempts(s, t)
  <1>1. /\ t.running[k] = None /\ t.retry_attempts[k] = None
        /\ \A l \in Key \ {k} : /\ t.running[l] = s.running[l]
                                /\ t.retry_attempts[l] = s.retry_attempts[l]
    BY DEF StateType
  <1>2. k \notin Owners(t)
    BY <1>1 DEF Owners, RunningKeys, RetryKeys
  <1>3. KeepsAttempt(s, t, k)
    BY <1>2 DEF KeepsAttempt
  <1>4. QED
    BY <1>1, <1>3, OneEntryKeeps

\* A refresh leaves the attempt of the run alone.
LEMMA RefreshKeeps ==
  ASSUME NEW s \in StateType, NEW k \in Key, NEW issue \in Issue, s.running[k] # None
  PROVE  KeepsAttempts(s, RefreshIssue(s, k, issue))
  <1> DEFINE entry == [s.running[k] EXCEPT !.issue = issue]
             t == RefreshIssue(s, k, issue)
  <1>1. s.running[k] \in RunningEntry
    BY DEF StateType
  <1>2. /\ entry \in RunningEntry /\ entry # None
        /\ entry.retry_attempt = s.running[k].retry_attempt
    BY <1>1, NoneAssumption DEF RunningEntry
  <1>3. t.running = [s.running EXCEPT ![k] = entry] /\ t.retry_attempts = s.retry_attempts
    BY RefreshIssueEntries
  <1> HIDE DEF entry, t
  <1>4. t.running[k] = entry /\ \A l \in Key \ {k} : t.running[l] = s.running[l]
    BY <1>3 DEF StateType
  <1>5. Attempt(t, k) = Attempt(s, k) /\ Attempt(s, k) \in Nat
    <2>1. k \in Owners(s)
      BY DEF Owners, RunningKeys
    <2>2. QED
      BY <1>2, <1>4, <2>1, OwnersAttempt DEF Attempt
  <1>6. KeepsAttempt(s, t, k)
    BY <1>2, <1>4, <1>5 DEF KeepsAttempt
  <1>7. QED
    BY <1>3, <1>4, <1>6, OneEntryKeeps DEF t

\* A failed poll counts as an attempt of the retries that were due.
LEMMA RescheduleKeeps ==
  ASSUME NEW s \in StateType, NEW source \in Sources
  PROVE  KeepsAttempts(s, RescheduleAfterPollError(s, source))
  <1> DEFINE t == RescheduleAfterPollError(s, source)
             later(k) == PutOff(s.retry_attempts[k])
             retries == [k \in Key |-> IF k \in DueRetryKeys(s, source) THEN later(k)
                                       ELSE s.retry_attempts[k]]
  <1>1. \A k \in Key : retries[k] = IF k \in DueRetryKeys(s, source) THEN later(k)
                                    ELSE s.retry_attempts[k]
    OBVIOUS
  <1>2. t = [s EXCEPT !.retry_attempts = retries]
    BY DEF RescheduleAfterPollError
  <1>3. ASSUME NEW k \in Key, s.retry_attempts[k] # None
        PROVE  /\ s.retry_attempts[k].attempt \in Nat
               /\ later(k).attempt = s.retry_attempts[k].attempt + 1
    <2>1. s.retry_attempts[k] \in RetryEntry
      BY <1>3 DEF StateType
    <2>2. QED
      BY <2>1 DEF PutOff, RetryEntry
  <1> HIDE DEF later, retries, t
  <1>4. t.running = s.running /\ t.retry_attempts = retries
    BY <1>2 DEF StateType
  <1>5. ASSUME NEW k \in Key PROVE KeepsAttempt(s, t, k)
    <2>1. CASE k \notin DueRetryKeys(s, source)
      BY <1>1, <1>4, <2>1, SameEntryKeeps
    <2>2. CASE k \in DueRetryKeys(s, source)
      <3>1. s.retry_attempts[k] # None
        BY <2>2 DEF DueRetryKeys, RetryKeys
      <3>2. CASE s.running[k] # None
        <4>1. k \in Owners(s) /\ Attempt(t, k) = Attempt(s, k)
          BY <1>4, <3>2 DEF Attempt, Owners, RunningKeys
        <4>2. Attempt(s, k) \in Nat
          BY <4>1, OwnersAttempt
        <4>3. QED
          BY <1>4, <4>1, <4>2 DEF KeepsAttempt
      <3>3. CASE s.running[k] = None
        <4>1. /\ Attempt(s, k) = s.retry_attempts[k].attempt
              /\ Attempt(t, k) = later(k).attempt
          BY <1>1, <1>4, <2>2, <3>3 DEF Attempt
        <4>2. QED
          BY <1>3, <3>1, <3>3, <4>1 DEF KeepsAttempt
      <3>4. QED
        BY <3>2, <3>3
    <2>3. QED
      BY <2>1, <2>2
  <1>6. QED
    BY <1>5 DEF KeepsAttempts, t

\* To fall due is not an attempt.
LEMMA DueKeeps ==
  ASSUME NEW s \in StateType, NEW k \in Key, s.retry_attempts[k] # None
  PROVE  KeepsAttempts(s, SetRetryDue(s, k))
  <1> DEFINE entry == [s.retry_attempts[k] EXCEPT !.due = TRUE]
             t == SetRetryDue(s, k)
  <1>1. s.retry_attempts[k] \in RetryEntry
    BY DEF StateType
  <1>2. entry.attempt = s.retry_attempts[k].attempt
    BY <1>1 DEF RetryEntry
  <1>3. t = [s EXCEPT !.retry_attempts[k] = entry]
    BY DEF SetRetryDue
  <1> HIDE DEF entry, t
  <1>4. t.running = s.running /\ t.retry_attempts = [s.retry_attempts EXCEPT ![k] = entry]
    BY <1>3 DEF StateType
  <1>5. /\ t.retry_attempts[k] = entry
        /\ \A l \in Key \ {k} : t.retry_attempts[l] = s.retry_attempts[l]
    BY <1>4 DEF StateType
  <1>6. k \in Owners(s) /\ Attempt(t, k) = Attempt(s, k)
    BY <1>2, <1>4, <1>5 DEF Attempt, Owners, RetryKeys
  <1>7. KeepsAttempt(s, t, k)
    <2>1. Attempt(s, k) \in Nat
      BY <1>6, OwnersAttempt
    <2>2. QED
      BY <1>4, <1>6, <2>1 DEF KeepsAttempt
  <1>8. QED
    BY <1>4, <1>5, <1>7, OneEntryKeeps DEF t

\* A dispatch runs with the attempt of the retry it takes up, or fails as the next one.
LEMMA DispatchKeeps ==
  ASSUME st \in StateType, NEW base \in StateType, NEW k \in Key, NEW issue \in Issue,
         NEW attempt \in Nat, NEW target \in Targets,
         base.running = st.running, st.running[k] = None, next_generation \in Nat,
         \A l \in Key \ {k} : base.retry_attempts[l] = st.retry_attempts[l],
         st.retry_attempts[k] # None => attempt = st.retry_attempts[k].attempt,
         DispatchIssue(base, k, issue, attempt, target)
  PROVE  KeepsAttempts(st, st')
  <1> DEFINE t == ClaimRunning(base, k, issue, attempt, target)
             entry == [issue |-> issue, workspace_key |-> <<k[1], issue.name>>,
                       target |-> target, retry_attempt |-> attempt, generation |-> 0]
  <1>1. /\ t \in StateType
        /\ t.running = [st.running EXCEPT ![k] = entry]
        /\ t.retry_attempts = [base.retry_attempts EXCEPT ![k] = None]
    BY ClaimRunningEntries
  <1>2. entry \in RunningEntry /\ entry.retry_attempt = attempt
    BY DEF RunningEntry, WorkspaceKey, Key, Issue
  <1> HIDE DEF entry, t
  <1>3. entry # None
    BY <1>2, NoneAssumption
  <1>4. /\ t.running[k] = entry /\ t.retry_attempts[k] = None
        /\ \A l \in Key \ {k} : /\ t.running[l] = st.running[l]
                                /\ t.retry_attempts[l] = st.retry_attempts[l]
    BY <1>1 DEF StateType
  <1>5. k \in Owners(st) => Attempt(st, k) = attempt
    BY DEF Owners, RunningKeys, RetryKeys, Attempt
  <1>6. CASE StartWorker(base, k, issue, attempt, target)
    <2> DEFINE g == next_generation + 1
               named == [entry EXCEPT !.generation = g]
    <2>1. g \in Nat /\ st' = SetRunningGeneration(t, k, g)
      BY <1>6 DEF StartWorker, t
    <2>2. named \in RunningEntry /\ named.retry_attempt = attempt
      BY <1>2, <2>1 DEF RunningEntry
    <2>3. /\ st'.running = [t.running EXCEPT ![k] = named]
          /\ st'.retry_attempts = t.retry_attempts
      BY <1>1, <1>3, <1>4, <2>1, SetRunningGenerationEntries
    <2> HIDE DEF named
    <2>4. /\ st'.running[k] = named /\ named # None
          /\ \A l \in Key \ {k} : /\ st'.running[l] = st.running[l]
                                  /\ st'.retry_attempts[l] = st.retry_attempts[l]
      BY <1>1, <1>4, <2>2, <2>3, NoneAssumption DEF StateType
    <2>5. Attempt(st', k) = attempt
      BY <2>2, <2>4 DEF Attempt
    <2>6. KeepsAttempt(st, st', k)
      BY <1>5, <2>4, <2>5 DEF KeepsAttempt
    <2>7. QED
      BY <2>4, <2>6, OneEntryKeeps
  <1>7. CASE FailPreparation(base, k, issue, attempt, target)
    <2> DEFINE retry == RetryAfterExit(entry, "failed")
    <2>1. st' = RequeueRetry([t EXCEPT !.running[k] = None], k, retry)
      BY <1>3, <1>4, <1>7 DEF FailPreparation, WorkerExit, t
    <2>2. retry.attempt = attempt + 1
      BY <1>2 DEF RetryAfterExit
    <2> HIDE DEF retry
    <2>3. /\ st'.running = [t.running EXCEPT ![k] = None]
          /\ st'.retry_attempts = [t.retry_attempts EXCEPT ![k] = retry]
      BY <1>1, <2>1 DEF RequeueRetry, StateType
    <2>4. /\ st'.running[k] = None /\ st'.retry_attempts[k] = retry
          /\ \A l \in Key \ {k} : /\ st'.running[l] = st.running[l]
                                  /\ st'.retry_attempts[l] = st.retry_attempts[l]
      BY <1>1, <1>4, <2>3 DEF StateType
    <2>5. Attempt(st', k) = attempt + 1
      BY <2>2, <2>4 DEF Attempt
    <2>6. KeepsAttempt(st, st', k)
      BY <1>5, <2>5 DEF KeepsAttempt
    <2>7. QED
      BY <2>4, <2>6, OneEntryKeeps
  <1>8. QED
    BY <1>6, <1>7 DEF DispatchIssue

\* Every attempt is kept, but for a run that ends normally.
BackedOff == \A k \in Key : NormalExit(k) \/ KeepsAttempt(st, st', k)

\* Steps that leave the record alone.
LEMMA UnchangedBacksOff ==
  ASSUME st \in StateType, st' = st
  PROVE  BackedOff
  BY SameEntryKeeps DEF BackedOff

\* Steps that change its flag only.
LEMMA FlagBacksOff ==
  ASSUME st \in StateType, NEW b \in BOOLEAN, st' = [st EXCEPT !.draining = b]
  PROVE  BackedOff
  <1>1. st'.running = st.running /\ st'.retry_attempts = st.retry_attempts
    BY DEF StateType
  <1>2. QED
    BY <1>1, SameEntryKeeps DEF BackedOff

\* One outcome.
LEMMA OutcomeBacksOff ==
  ASSUME WInv, ApplyWorkerOutcome
  PROVE  BackedOff
  <1> DEFINE o == Head(outcomes)
  <1>1. /\ st \in StateType /\ outcomes # <<>> /\ outcomes' = Tail(outcomes)
        /\ outcomes \in Seq(Outcome)
    BY DEF WInv, IInv, TypeOK, ApplyWorkerOutcome
  <1>2. o \in Outcome
    BY <1>1
  <1>3. o.key \in Key /\ o.reason \in Reasons
    BY <1>2 DEF Outcome
  <1>4. CASE st' = st
    BY <1>1, <1>4, UnchangedBacksOff
  <1>5. CASE st' = ReleaseIssue(st, o.key)
    <2>1. /\ st'.running = [st.running EXCEPT ![o.key] = None]
          /\ st'.retry_attempts = [st.retry_attempts EXCEPT ![o.key] = None]
      BY <1>1, <1>3, <1>5, ReleaseIssueEntries
    <2>2. KeepsAttempts(st, st')
      BY <1>1, <1>3, <2>1, ReleasedKeeps
    <2>3. QED
      BY <2>2 DEF BackedOff, KeepsAttempts
  <1>6. CASE MatchesTask(o) /\ st' = WorkerExit(st, o.key, o.reason)
    <2>1. st.running[o.key] # None
      BY <1>3, <1>6 DEF MatchesTask, WInv, Books, TasksRunning
    <2>2. /\ \A l \in Key \ {o.key} : KeepsAttempt(st, st', l)
          /\ o.reason # "normal" => KeepsAttempts(st, st')
      BY <1>1, <1>3, <1>6, <2>1, ExitKeeps
    <2>3. o.reason = "normal" => NormalExit(o.key)
      BY <1>1 DEF NormalExit
    <2>4. QED
      BY <2>2, <2>3 DEF BackedOff, KeepsAttempts
  <1>7. QED
    BY <1>4, <1>5, <1>6 DEF ApplyWorkerOutcome

\* A due retry that is forgotten, put back or dispatched.
LEMMA RetryBacksOff ==
  ASSUME WInv, NEW k \in Key, RetryIssue(k)
  PROVE  KeepsAttempts(st, st')
  <1> DEFINE base == TakeRetry(st, k)
             retry == st.retry_attempts[k]
  <1>1. /\ TypeOK /\ st \in StateType /\ Consistent(st) /\ k \in RetryKeys(st)
        /\ retry # None /\ next_generation \in Nat
    BY DEF WInv, IInv, TypeOK, RetryIssue, Takeable, RetryKeys
  <1>2. retry \in RetryEntry /\ st.running[k] = None
    BY <1>1 DEF StateType, Consistent, OwnersDisjoint, RunningKeys
  <1>3. /\ base \in StateType /\ base.running = st.running
        /\ base.retry_attempts = [st.retry_attempts EXCEPT ![k] = None]
    BY <1>1, TakeRetryEntries
  <1>4. CASE st' = base
    <2>1. st'.running = [st.running EXCEPT ![k] = None]
      BY <1>1, <1>2, <1>3, <1>4 DEF StateType
    <2>2. QED
      BY <1>1, <1>3, <1>4, <2>1, ReleasedKeeps
  <1>5. CASE st' = RequeueRetry(base, k, retry)
    <2> HIDE DEF base, retry
    <2>1. /\ st'.running = st.running
          /\ st'.retry_attempts = [base.retry_attempts EXCEPT ![k] = retry]
      BY <1>3, <1>5 DEF RequeueRetry, StateType
    <2>2. st'.retry_attempts = st.retry_attempts
      BY <1>1, <1>3, <2>1 DEF StateType, retry
    <2>3. QED
      BY <1>1, <2>1, <2>2, SameEntryKeeps DEF KeepsAttempts
  <1>6. CASE /\ k \in Candidates
             /\ \E target \in RetryTarget(k) :
                   DispatchIssue(base, k, Candidate(k), retry.attempt, target)
    <2>1. PICK target \in RetryTarget(k) :
             DispatchIssue(base, k, Candidate(k), retry.attempt, target)
      BY <1>6
    <2>2. Candidate(k) \in Issue /\ target \in Targets /\ retry.attempt \in Nat
      BY <1>1, <1>2, <1>6, CandidateIsIssue, TargetsAreTargets DEF RetryEntry
    <2>3. \A l \in Key \ {k} : base.retry_attempts[l] = st.retry_attempts[l]
      BY <1>1, <1>3 DEF StateType
    <2> HIDE DEF base
    <2>4. QED
      BY <1>1, <1>2, <1>3, <2>1, <2>2, <2>3, DispatchKeeps
  <1>7. QED
    BY <1>4, <1>5, <1>6 DEF RetryIssue

\* Reconciliation releases or refreshes.
LEMMA ReconcileBacksOff ==
  ASSUME WInv, NEW k \in Key, ReconcileIssue(k)
  PROVE  KeepsAttempts(st, st')
  <1> DEFINE latest == poll[k[1]].recon.seen[k[2]]
             decision == ReconcileDecision(st, k, latest)
  <1>1. st \in StateType /\ latest \in Issue \cup {None}
    BY DEF WInv, IInv, TypeOK, Answer, Key
  <1>2. /\ decision # "NoRunningEntry" => st.running[k] # None
        /\ decision \in {"CancelTerminal", "RefreshedActive"} => latest \in Issue
    BY <1>1 DEF ReconcileDecision
  <1>3. CASE decision = "CancelTerminal"
    <2> DEFINE r == RefreshIssue(st, k, latest)
    <2>1. /\ r \in StateType /\ r.retry_attempts = st.retry_attempts
          /\ r.running = [st.running EXCEPT ![k] = [st.running[k] EXCEPT !.issue = latest]]
      <3>1. st.running[k] # None /\ latest \in Issue
        BY <1>2, <1>3
      <3> HIDE DEF latest
      <3>2. QED
        BY <1>1, <3>1, RefreshIssueEntries
    <2>2. st' = ReleaseIssue(r, k)
      BY <1>3 DEF ReconcileIssue
    <2> HIDE DEF r
    <2>3. /\ st'.running = [r.running EXCEPT ![k] = None]
          /\ st'.retry_attempts = [r.retry_attempts EXCEPT ![k] = None]
      BY <2>1, <2>2, ReleaseIssueEntries
    <2>4. st'.running = [st.running EXCEPT ![k] = None]
      BY <1>1, <2>1, <2>3 DEF StateType
    <2>5. QED
      BY <1>1, <2>1, <2>3, <2>4, ReleasedKeeps
  <1>4. CASE decision \in {"CancelNonActive", "MissingFromTracker"}
    <2>1. st' = ReleaseIssue(st, k)
      BY <1>4 DEF ReconcileIssue
    <2>2. /\ st'.running = [st.running EXCEPT ![k] = None]
          /\ st'.retry_attempts = [st.retry_attempts EXCEPT ![k] = None]
      BY <1>1, <2>1, ReleaseIssueEntries
    <2>3. QED
      BY <1>1, <2>2, ReleasedKeeps
  <1>5. CASE decision = "RefreshedActive"
    BY <1>1, <1>2, <1>5, RefreshKeeps DEF ReconcileIssue
  <1>6. CASE st' = st
    BY <1>1, <1>6, SameEntryKeeps DEF KeepsAttempts
  <1>7. QED
    BY <1>3, <1>4, <1>5, <1>6 DEF ReconcileIssue

\* What the tick does to the attempts.
LEMMA TickBacksOff ==
  ASSUME WInv, TickStep \/ \E k \in Key : ReconcileStalled(k)
  PROVE  BackedOff
  <1>1. /\ TypeOK /\ st \in StateType /\ next_generation \in Nat /\ CandidatesFetched
    BY DEF WInv, IInv, TypeOK
  <1>2. ASSUME NEW s \in Sources, ApplyCandidates(s) PROVE BackedOff
    <2>1. CASE st' = RescheduleAfterPollError(st, s)
      BY <1>1, <2>1, RescheduleKeeps DEF BackedOff, KeepsAttempts
    <2>2. QED
      BY <1>1, <1>2, <2>1, UnchangedBacksOff DEF ApplyCandidates
  <1>3. ASSUME NEW s \in Sources,
               \/ StartupCleanup(s) \/ FetchReconciliation(s)
               \/ FetchCandidates(s) \/ StartRetries(s) \/ PruneOrphans(s)
        PROVE  BackedOff
    BY <1>1, <1>3, UnchangedBacksOff
    DEF StartupCleanup, FetchReconciliation, FetchCandidates, StartRetries, PruneOrphans
  <1>4. CASE \/ FirstTick \/ PlanPolls \/ EndPoll \/ BeginDispatch \/ BeginRetries
             \/ EndTick \/ EndPrune
    BY <1>1, <1>4, UnchangedBacksOff
    DEF FirstTick, PlanPolls, EndPoll, BeginDispatch, BeginRetries, EndTick, EndPrune
  <1>5. ASSUME NEW k \in Key, ReconcileIssue(k) \/ RetryIssue(k) PROVE BackedOff
    BY <1>5, ReconcileBacksOff, RetryBacksOff DEF BackedOff, KeepsAttempts
  <1>6. ASSUME NEW k \in Key, DispatchCandidate(k) PROVE BackedOff
    <2>1. CASE st' = st
      BY <1>1, <2>1, UnchangedBacksOff
    <2>2. CASE /\ Eligible(st, k, Candidate(k))
               /\ \E target \in SelectExecutionTarget(k[1]) :
                     DispatchIssue(st, k, Candidate(k), 0, target)
      <3>1. PICK target \in SelectExecutionTarget(k[1]) :
               DispatchIssue(st, k, Candidate(k), 0, target)
        BY <2>2
      <3>2. k \in Candidates /\ Candidate(k) \in Issue /\ target \in Targets /\ 0 \in Nat
        BY <1>1, <1>6, CandidateIsIssue, TargetsAreTargets
        DEF CandidatesFetched, DispatchCandidate, Key
      <3>3. k \notin Owners(st) /\ Consistent(st)
        BY <2>2, <3>2, UnclaimedIsFree DEF Eligible, WInv, IInv
      <3>4. st.running[k] = None /\ st.retry_attempts[k] = None
        BY <3>3 DEF Owners, RunningKeys, RetryKeys
      <3>5. KeepsAttempts(st, st')
        BY <1>1, <3>1, <3>2, <3>4, DispatchKeeps
      <3>6. QED
        BY <3>5 DEF BackedOff, KeepsAttempts
    <2>3. QED
      BY <1>6, <2>1, <2>2 DEF DispatchCandidate
  <1>7. ASSUME NEW k \in Key, ReconcileStalled(k) PROVE BackedOff
    <2>1. /\ "stalled" \in Reasons /\ st.running[k] # None
          /\ st' = WorkerExit(st, k, "stalled")
      BY <1>7 DEF Reasons, ReconcileStalled
    <2>2. KeepsAttempts(st, st')
      BY <1>1, <2>1, ExitKeeps
    <2>3. QED
      BY <2>2 DEF BackedOff, KeepsAttempts
  <1>8. QED
    BY <1>2, <1>3, <1>4, <1>5, <1>6, <1>7 DEF TickStep

\* What the operator, the outcomes, the clock and the stop do to them.
LEMMA RestBacksOff ==
  ASSUME WInv,
         \/ OperatorStep \/ ReceiveOutcome \/ Wake \/ StopStep \/ Environment
         \/ \E w \in alive : WorkerStep(w)
         \/ UNCHANGED vars
  PROVE  BackedOff
  <1>1. st \in StateType
    BY DEF WInv, IInv, TypeOK
  <1>2. CASE ReceiveOutcome \/ ReceiveWhileStopping
    BY <1>2, OutcomeBacksOff DEF ReceiveOutcome, ReceiveWhileStopping
  <1>3. CASE Wake \/ StopTimeout \/ Stop \/ UNCHANGED vars
    BY <1>1, <1>3, UnchangedBacksOff DEF Wake, StopTimeout, Stop, vars
  <1>4. CASE Drain \/ Resume \/ Shutdown
    BY <1>1, <1>4, FlagBacksOff DEF Drain, Resume, Shutdown
  <1>5. ASSUME NEW k \in Key, PromoteRetry(k) \/ BecomeDue(k) PROVE BackedOff
    <2>1. st.retry_attempts[k] # None /\ st' = SetRetryDue(st, k)
      BY <1>5 DEF PromoteRetry, BecomeDue
    <2>2. QED
      BY <1>1, <2>1, DueKeeps DEF BackedOff, KeepsAttempts
  <1>6. ASSUME NEW k \in Key, NEW g, AbortByOperator(k, g) PROVE BackedOff
    <2>1. CASE workers[k] # None /\ st' = WorkerExit(st, k, "failed")
      <3>1. "failed" \in Reasons /\ st.running[k] # None
        BY <2>1 DEF Reasons, WInv, Books, TasksRunning
      <3>2. KeepsAttempts(st, st')
        BY <1>1, <2>1, <3>1, ExitKeeps
      <3>3. QED
        BY <3>2 DEF BackedOff, KeepsAttempts
    <2>2. QED
      BY <1>1, <1>6, <2>1, UnchangedBacksOff DEF AbortByOperator
  <1>7. ASSUME NEW w \in alive, WorkerStep(w) PROVE BackedOff
    <2>1. st' = st
      BY <1>7 DEF WorkerStep, PrepareWorkspace, MarkStarted, AgentResolves,
                  EndOfTurns, CompleteIssue, FailWorker, service
    <2>2. QED
      BY <1>1, <2>1, UnchangedBacksOff
  <1>8. CASE (\E k \in Key : TrackerMove(k)) \/ \E i \in IssueIds : Rename(i)
    BY <1>1, <1>8, UnchangedBacksOff DEF TrackerMove, Rename, service
  <1>9. QED
    BY <1>2, <1>3, <1>4, <1>5, <1>6, <1>7, <1>8 DEF OperatorStep, StopStep, Environment

\* What a failed poll means for the retries is settled in one step.
LEMMA FailedPollApplied ==
  ASSUME TypeOK, [Next]_vars, NEW s \in Sources, FailedPoll(s)
  PROVE  ApplyCandidates(s)
  <1>1. /\ phase = "apply" /\ s \in todo.sources /\ s \notin todo'.sources
        /\ todo \in [sources: SUBSET Sources, keys: SUBSET Key]
    BY DEF FailedPoll, TypeOK
  <1>2. todo' # todo
    BY <1>1
  <1>3. CASE TickStep
    <2>1. ASSUME NEW k \in Key, ReconcileIssue(k) PROVE FALSE
      <3>1. todo' = [todo EXCEPT !.keys = @ \ {k}]
        BY <2>1 DEF ReconcileIssue
      <3>2. QED
        BY <1>1, <3>1
    <2>2. ASSUME NEW u \in Sources, ApplyCandidates(u) PROVE s = u
      <3>1. todo' = [todo EXCEPT !.sources = @ \ {u}]
        BY <2>2 DEF ApplyCandidates
      <3>2. QED
        BY <1>1, <3>1
    <2>3. \/ \E k \in Key : ReconcileIssue(k)
          \/ \E u \in Sources : ApplyCandidates(u)
          \/ BeginDispatch
      BY <1>1, <1>3 DEF TickStep, StartupCleanup, FetchReconciliation, FetchCandidates,
         StartRetries, PruneOrphans, FirstTick, PlanPolls, EndPoll, BeginRetries, EndTick,
         EndPrune, DispatchCandidate, RetryIssue
    <2>4. QED
      BY <1>1, <2>1, <2>2, <2>3 DEF BeginDispatch
  <1>4. CASE \/ ReceiveOutcome \/ Wake \/ OperatorStep \/ StopStep
             \/ \E k \in Key : ReconcileStalled(k)
    BY <1>1, <1>4 DEF ReceiveOutcome, Wake, OperatorStep, Drain, Resume, Shutdown, PromoteRetry,
       AbortByOperator, StopStep, ReceiveWhileStopping, StopTimeout, Stop, ReconcileStalled
  <1>5. CASE Environment \/ UNCHANGED vars \/ \E w \in alive : WorkerStep(w)
    BY <1>2, <1>5 DEF Environment, TrackerMove, Rename, BecomeDue, vars, loop, service, WorkerStep,
       PrepareWorkspace, MarkStarted, AgentResolves, EndOfTurns, CompleteIssue, FailWorker
  <1>6. QED
    BY <1>3, <1>4, <1>5 DEF Next, Stopped

\* It counts for every due retry of the source.
LEMMA FailedPollCounts ==
  ASSUME WInv, [Next]_vars, NEW k \in Key, FailedPoll(k[1]),
         st.retry_attempts[k] # None, st.retry_attempts[k].due
  PROVE  Attempt(st', k) > Attempt(st, k)
  <1> DEFINE source == k[1]
             retry == st.retry_attempts[k]
             retries == [l \in Key |-> IF l \in DueRetryKeys(st, source)
                                       THEN PutOff(st.retry_attempts[l])
                                       ELSE st.retry_attempts[l]]
  <1>1. source \in Sources /\ TypeOK /\ st \in StateType /\ Consistent(st)
    BY DEF WInv, IInv, TypeOK, Key
  <1>2. st' = RescheduleAfterPollError(st, source)
    <2>1. ApplyCandidates(source) /\ poll[source].cand.status = "failed"
      BY <1>1, FailedPollApplied DEF FailedPoll
    <2>2. QED
      BY <2>1 DEF ApplyCandidates
  <1>3. k \in DueRetryKeys(st, source)
    BY DEF DueRetryKeys, RetryKeys
  <1>4. retry \in RetryEntry /\ st.running[k] = None
    BY <1>1 DEF StateType, Consistent, OwnersDisjoint, RunningKeys, RetryKeys
  <1>5. PutOff(retry).attempt = retry.attempt + 1 /\ retry.attempt \in Nat
    BY <1>4 DEF PutOff, RetryEntry
  <1>6. retries[k] = PutOff(retry)
    BY <1>3
  <1>7. st' = [st EXCEPT !.retry_attempts = retries]
    BY <1>2 DEF RescheduleAfterPollError
  <1> HIDE DEF retries
  <1>8. st'.running = st.running /\ st'.retry_attempts = retries
    BY <1>1, <1>7 DEF StateType
  <1>9. Attempt(st, k) = retry.attempt /\ Attempt(st', k) = retry.attempt + 1
    BY <1>4, <1>5, <1>6, <1>8 DEF Attempt
  <1>10. QED
    BY <1>5, <1>9

\* While an issue keeps its claim its attempt never falls; every run that does not end
\* normally raises it, and so does every failed poll that its due retry meets.
THEOREM BackoffKeptAlways == Spec => BackoffKept
  <1> DEFINE Kept == \A k \in Owners(st) \cap Owners(st)' :
                        \/ NormalExit(k)
                        \/ /\ Attempt(st, k)' >= Attempt(st, k)
                           /\ Setback(k) => Attempt(st, k)' > Attempt(st, k)
  <1>1. WInv /\ [Next]_vars => [Kept]_vars
    <2> SUFFICES ASSUME WInv, [Next]_vars PROVE Kept
      OBVIOUS
    <2>1. BackedOff
      BY TickBacksOff, RestBacksOff DEF Next, Stopped
    <2>2. SUFFICES ASSUME NEW k \in Owners(st) \cap Owners(st)', ~NormalExit(k)
                   PROVE  /\ Attempt(st', k) >= Attempt(st, k)
                          /\ Setback(k) => Attempt(st', k) > Attempt(st, k)
      BY DEF Attempt
    <2>3. k \in Key /\ k \in Owners(st')
      BY DEF Owners, RunningKeys, RetryKeys
    <2>4. KeepsAttempt(st, st', k)
      BY <2>1, <2>2, <2>3 DEF BackedOff
    <2>5. QED
      BY <2>2, <2>3, <2>4, FailedPollCounts DEF KeepsAttempt, Setback
  <1>2. QED
    BY <1>1, WorkersInductive, PTL DEF Spec, BackoffKept

-----------------------------------------------------------------------------
(* The refinement. *)

Agents == {w.key : w \in alive}

\* At start every issue is unclaimed.
LEMMA LifeInit == Init => Lifecycle!Init
  <1> SUFFICES ASSUME Init PROVE Lifecycle!Init
    OBVIOUS
  <1>1. /\ \A k \in Key : st.running[k] = None /\ st.retry_attempts[k] = None
        /\ alive = {}
    BY DEF Init, InitState
  <1>2. Life = [k \in Key |-> "unclaimed"] /\ HeldWorkspace = [k \in Key |-> None]
    BY <1>1 DEF Life, HeldWorkspace
  <1>3. QED
    BY <1>1, <1>2 DEF Lifecycle!Init, Lifecycle!Key, Key

\* How the abstract functions change at k when the entries change there only.
LEMMA LifeAt ==
  ASSUME IInv, IInv', NEW k \in Key,
         \A l \in Key \ {k} : /\ st'.running[l] = st.running[l]
                              /\ st'.retry_attempts[l] = st.retry_attempts[l]
  PROVE  /\ Life' = [Life EXCEPT ![k] = Life'[k]]
         /\ HeldWorkspace' = [HeldWorkspace EXCEPT ![k] = HeldWorkspace'[k]]
  <1>1. /\ DOMAIN Life = Key /\ DOMAIN Life' = Key
        /\ DOMAIN HeldWorkspace = Key /\ DOMAIN HeldWorkspace' = Key
    BY DEF Life, HeldWorkspace
  <1>2. \A l \in Key \ {k} : Life'[l] = Life[l] /\ HeldWorkspace'[l] = HeldWorkspace[l]
    BY DEF Life, HeldWorkspace
  <1>3. Life \in [Key -> {"unclaimed", "running", "retry"}]
        /\ Life' \in [Key -> {"unclaimed", "running", "retry"}]
    BY DEF Life
  <1>4. HeldWorkspace' = [l \in Key |-> HeldWorkspace'[l]]
        /\ HeldWorkspace = [l \in Key |-> HeldWorkspace[l]]
    BY DEF HeldWorkspace
  <1>5. QED
    BY <1>1, <1>2, <1>3, <1>4

\* A step that changes no holder and no agent's key.
LEMMA LifeSame ==
  ASSUME SameRunning(st, st'), SameWaiting(st, st'), Agents' = Agents
  PROVE  UNCHANGED Lifecycle!vars
  <1>1. \A k \in Key : Life'[k] = Life[k] /\ HeldWorkspace'[k] = HeldWorkspace[k]
    BY DEF Life, HeldWorkspace, SameRunning, SameWaiting
  <1>2. Life' = Life /\ HeldWorkspace' = HeldWorkspace
    BY <1>1 DEF Life, HeldWorkspace
  <1>3. QED
    BY <1>2 DEF Lifecycle!vars, Agents

\* An issue that is not unclaimed owns the workspace it holds.
LEMMA HeldIsOwned ==
  ASSUME NEW l \in Key, Life[l] # "unclaimed"
  PROVE  l \in Owners(st) /\ HeldWorkspace[l] \in WorkspacesOf(st, l)
  BY DEF Life, HeldWorkspace, Owners, RunningKeys, RetryKeys, WorkspacesOf

\* What the dispatch found unclaimed nobody holds in the life cycle either.
LEMMA FreeIsFree ==
  ASSUME Books, NEW k \in Key, NEW n \in Names, FreeFor(k, n)
  PROVE  Lifecycle!Free(k, <<k[1], n>>) /\ Life[k] # "running" /\ k \notin Agents
  <1>1. \A l \in Key \ {k} : Life[l] # "unclaimed" =>
           l[2] # k[2] /\ HeldWorkspace[l] # <<k[1], n>>
    BY HeldIsOwned DEF FreeFor
  <1>2. Life[k] # "running"
    BY DEF Life, FreeFor
  <1>3. k \notin Agents
    BY DEF Agents, FreeFor, Books, AliveRegistered, Registered
  <1>4. QED
    BY <1>1, <1>2, <1>3 DEF Lifecycle!Free, Lifecycle!Key, Key

\* A dispatch, successful or not, claims what nobody holds.
LEMMA ClaimRefines ==
  ASSUME IInv, IInv', Books, NEW k \in Key, NEW n \in Names,
         Refused(k, n) \/ \E target \in Targets : Launched(k, n, target)
  PROVE  \E spawned \in BOOLEAN : Lifecycle!Claim(k, n, spawned)
  <1>1. FreeFor(k, n)
    BY DEF Refused, Launched
  <1>2. Lifecycle!Free(k, <<k[1], n>>) /\ Life[k] # "running" /\ k \notin Agents
    BY <1>1, FreeIsFree
  <1>3. /\ st.running \in [Key -> RunningEntry \cup {None}]
        /\ st.retry_attempts \in [Key -> RetryEntry \cup {None}]
    BY DEF IInv, TypeOK, StateType
  <1>4. CASE Refused(k, n)
    <2>1. PICK retry \in RetryEntry :
             /\ retry.workspace_key = <<k[1], n>>
             /\ st'.retry_attempts = [st.retry_attempts EXCEPT ![k] = retry]
      BY <1>4 DEF Refused, Queued
    <2>2. retry # None /\ st'.running = st.running /\ st.running[k] = None /\ alive' = alive
      BY <1>1, <1>4, NoneAssumption DEF Refused, FreeFor
    <2>3. Life'[k] = "retry" /\ HeldWorkspace'[k] = <<k[1], n>>
      BY <1>3, <2>1, <2>2 DEF Life, HeldWorkspace
    <2>4. /\ Life' = [Life EXCEPT ![k] = "retry"]
          /\ HeldWorkspace' = [HeldWorkspace EXCEPT ![k] = <<k[1], n>>]
      BY <1>3, <2>1, <2>2, <2>3, LifeAt
    <2>5. Lifecycle!Claim(k, n, FALSE)
      BY <1>2, <2>2, <2>4 DEF Lifecycle!Claim, Agents
    <2>6. QED
      BY <2>5
  <1>5. ASSUME NEW target \in Targets, Launched(k, n, target)
        PROVE  Lifecycle!Claim(k, n, TRUE)
    <2>1. PICK entry \in RunningEntry :
             /\ entry.workspace_key = <<k[1], n>>
             /\ st'.running = [st.running EXCEPT ![k] = entry]
      BY <1>5 DEF Launched, Started
    <2>2. PICK w \in Task : w.key = k /\ alive' = alive \cup {w}
      BY <1>5 DEF Launched, Started
    <2>3. entry # None /\ st'.retry_attempts = [st.retry_attempts EXCEPT ![k] = None]
      BY <1>5, NoneAssumption DEF Launched, Unqueued
    <2>4. Life'[k] = "running" /\ HeldWorkspace'[k] = <<k[1], n>>
      BY <1>3, <2>1, <2>3 DEF Life, HeldWorkspace
    <2>5. /\ Life' = [Life EXCEPT ![k] = "running"]
          /\ HeldWorkspace' = [HeldWorkspace EXCEPT ![k] = <<k[1], n>>]
      BY <1>3, <2>1, <2>3, <2>4, LifeAt
    <2>6. Agents' = Agents \cup {k}
      BY <2>2 DEF Agents
    <2>7. QED
      BY <1>2, <2>5, <2>6 DEF Lifecycle!Claim, Agents
  <1>6. QED
    BY <1>4, <1>5

\* The entry of k is gone, and its agent with it: the issue is released or waits.
LEMMA RunOverRefines ==
  ASSUME IInv, IInv', NEW k \in Key, st.running[k] # None, RunOver(k),
         Agents' = Agents \ {k}
  PROVE  Lifecycle!Release(k) \/ Lifecycle!EndRun(k)
  <1>1. /\ st.running \in [Key -> RunningEntry \cup {None}]
        /\ st.retry_attempts \in [Key -> RetryEntry \cup {None}]
        /\ st'.running = [st.running EXCEPT ![k] = None]
    BY DEF IInv, TypeOK, StateType, RunOver
  <1>2. Life[k] = "running" /\ HeldWorkspace[k] = st.running[k].workspace_key
    BY DEF Life, HeldWorkspace
  <1>3. CASE Unqueued(k)
    <2>1. st'.retry_attempts = [st.retry_attempts EXCEPT ![k] = None]
      BY <1>3 DEF Unqueued
    <2>2. Life'[k] = "unclaimed" /\ HeldWorkspace'[k] = None
      BY <1>1, <2>1 DEF Life, HeldWorkspace
    <2>3. /\ Life' = [Life EXCEPT ![k] = "unclaimed"]
          /\ HeldWorkspace' = [HeldWorkspace EXCEPT ![k] = None]
      BY <1>1, <2>1, <2>2, LifeAt
    <2>4. QED
      BY <1>2, <2>3 DEF Lifecycle!Release, Agents
  <1>4. CASE Queued(k, st.running[k].workspace_key)
    <2>1. PICK retry \in RetryEntry :
             /\ retry.workspace_key = st.running[k].workspace_key
             /\ st'.retry_attempts = [st.retry_attempts EXCEPT ![k] = retry]
      BY <1>4 DEF Queued
    <2>2. retry # None
      BY NoneAssumption
    <2>3. Life'[k] = "retry" /\ HeldWorkspace'[k] = HeldWorkspace[k]
      BY <1>1, <1>2, <2>1, <2>2 DEF Life, HeldWorkspace
    <2>4. /\ Life' = [Life EXCEPT ![k] = "retry"]
          /\ HeldWorkspace' = [HeldWorkspace EXCEPT ![k] = HeldWorkspace[k]]
      BY <1>1, <2>1, <2>3, LifeAt
    <2>5. HeldWorkspace' = HeldWorkspace
      BY <2>4 DEF HeldWorkspace
    <2>6. QED
      BY <1>2, <2>4, <2>5 DEF Lifecycle!EndRun, Agents
  <1>5. QED
    BY <1>3, <1>4 DEF RunOver

\* Every kind of step is a life-cycle step or none.
LEMMA KindRefines ==
  ASSUME IInv, IInv', Books, Kind
  PROVE  Lifecycle!Next \/ UNCHANGED Lifecycle!vars
  <1> USE DEF Lifecycle!Key
  <1>1. Key = Sources \X IssueIds /\ \A w \in alive : w.key \in Key
    BY DEF Key, IInv, TypeOK, Task
  <1>2. CASE Idle
    BY <1>2, LifeSame DEF Idle, Quiet, Agents
  <1>3. ASSUME NEW k \in Key, NEW n \in Names,
               Refused(k, n) \/ \E target \in Targets : Launched(k, n, target)
        PROVE  Lifecycle!Next
    BY <1>1, <1>3, ClaimRefines DEF Lifecycle!Next
  <1>4. ASSUME NEW k \in Key, Forgotten(k)
        PROVE  Lifecycle!Next
    <2>1. /\ st.running \in [Key -> RunningEntry \cup {None}]
          /\ st.retry_attempts \in [Key -> RetryEntry \cup {None}]
          /\ st.retry_attempts[k] # None /\ workers[k] = None
          /\ st'.running = st.running /\ alive' = alive
          /\ st'.retry_attempts = [st.retry_attempts EXCEPT ![k] = None]
      BY <1>4 DEF IInv, TypeOK, StateType, Forgotten, Unqueued
    <2>2. st.running[k] = None
      BY <2>1 DEF IInv, Consistent, OwnersDisjoint, RunningKeys, RetryKeys
    <2>3. Life[k] = "retry" /\ Life'[k] = "unclaimed" /\ HeldWorkspace'[k] = None
      BY <2>1, <2>2 DEF Life, HeldWorkspace
    <2>4. /\ Life' = [Life EXCEPT ![k] = "unclaimed"]
          /\ HeldWorkspace' = [HeldWorkspace EXCEPT ![k] = None]
      BY <2>1, <2>3, LifeAt
    <2>5. Agents' = Agents \ {k}
      BY <2>1 DEF Agents, Books, AliveRegistered, Registered
    <2>6. Lifecycle!Release(k)
      BY <2>3, <2>4, <2>5 DEF Lifecycle!Release, Agents
    <2>7. QED
      BY <1>1, <2>6 DEF Lifecycle!Next
  <1>5. ASSUME NEW k \in Key, workers[k] # None, Aborted(k)
        PROVE  Lifecycle!Next
    <2>1. TaskOf(k) = {v \in alive : v.key = k}
      BY DEF TaskOf, Books, AliveRegistered, Registered
    <2>2. Agents' = Agents \ {k} /\ st.running[k] # None /\ RunOver(k)
      BY <1>5, <2>1 DEF Aborted, AbortWorker, Agents
    <2>3. Lifecycle!Release(k) \/ Lifecycle!EndRun(k)
      BY <2>2, RunOverRefines
    <2>4. QED
      BY <1>1, <2>3 DEF Lifecycle!Next
  <1>6. CASE OutcomeTaken
    <2> DEFINE o == Head(outcomes)
    <2>1. /\ outcomes \in Seq(Outcome) /\ outcomes # <<>> /\ alive' = alive
      BY <1>6 DEF IInv, TypeOK, OutcomeTaken
    <2>2. o = outcomes[1] /\ o \in Outcome /\ 1 \in DOMAIN outcomes
      BY <2>1
    <2>3. o.key \in Key
      BY <2>2 DEF Outcome
    <2> HIDE DEF o
    <2>4. CASE ~MatchesTask(o) /\ UNCHANGED <<st, workers>>
      BY <2>1, <2>4, LifeSame DEF SameRunning, SameWaiting, Agents
    <2>5. CASE MatchesTask(o) /\ RunOver(o.key)
      <3>1. AnswerAt(1, o.key) /\ workers[o.key] # None
        BY <2>2, <2>5 DEF MatchesTask, AnswerAt
      <3>2. \A w \in alive : w.key # o.key
        BY <2>3, <3>1 DEF Books, AnswersOnce
      <3>3. Agents' = Agents \ {o.key} /\ st.running[o.key] # None
        BY <2>1, <2>3, <3>1, <3>2 DEF Agents, Books, TasksRunning
      <3>4. PICK k \in Key : k = o.key
        BY <2>3
      <3>5. Agents' = Agents \ {k} /\ st.running[k] # None /\ RunOver(k)
        BY <2>5, <3>3, <3>4
      <3>6. Lifecycle!Release(k) \/ Lifecycle!EndRun(k)
        BY <3>5, RunOverRefines
      <3>7. QED
        BY <1>1, <3>6 DEF Lifecycle!Next
    <2>6. QED
      BY <1>6, <2>4, <2>5 DEF OutcomeTaken, o
  <1>7. ASSUME NEW w \in alive, TaskMoved(w)
        PROVE  Lifecycle!Next \/ UNCHANGED Lifecycle!vars
    <2>1. st' = st /\ \A v \in alive : v.key = w.key => v = w
      BY <1>7 DEF TaskMoved, Books, AliveRegistered
    <2>2. SameRunning(st, st') /\ SameWaiting(st, st')
      BY <2>1 DEF SameRunning, SameWaiting
    <2>3. CASE \E v \in Task : v.key = w.key /\ alive' = (alive \ {w}) \cup {v}
      <3>1. Agents' = Agents
        BY <2>3 DEF Agents
      <3>2. QED
        BY <2>2, <3>1, LifeSame
    <2>4. CASE alive' = alive \ {w}
      <3>1. Agents' = Agents \ {w.key}
        BY <2>1, <2>4 DEF Agents
      <3>2. UNCHANGED <<Life, HeldWorkspace>>
        BY <2>1 DEF Life, HeldWorkspace
      <3>3. Lifecycle!AgentEnds(w.key)
        BY <3>1, <3>2 DEF Lifecycle!AgentEnds, Agents
      <3>4. QED
        BY <1>1, <3>3 DEF Lifecycle!Next
    <2>5. QED
      BY <1>7, <2>3, <2>4 DEF TaskMoved, Finish
  <1>8. CASE AllAborted
    <2>1. alive' = {}
      BY <1>8, AllAbortedKeepsBooks
    <2>2. Agents' = {} /\ UNCHANGED <<Life, HeldWorkspace>>
      BY <1>8, <2>1 DEF AllAborted, Agents, Life, HeldWorkspace
    <2>3. QED
      BY <2>2 DEF Lifecycle!Next, Lifecycle!KillAgents, Agents
  <1>9. QED
    BY <1>2, <1>3, <1>4, <1>5, <1>6, <1>7, <1>8 DEF Kind

\* The service, with its polls, generations, channel and aborts, implements the life
\* cycle: what is claimed is held by one issue alone and its claim outlives its agent.
THEOREM ImplementsLifecycleAlways == Spec => ImplementsLifecycle
  <1>1. WInv /\ WInv' /\ [Next]_vars => [Lifecycle!Next]_(Lifecycle!vars)
    <2> SUFFICES ASSUME WInv, WInv', [Next]_vars
                 PROVE  Lifecycle!Next \/ UNCHANGED Lifecycle!vars
      OBVIOUS
    <2>1. Kind /\ IInv /\ IInv' /\ Books
      BY EveryKind DEF WInv
    <2>2. QED
      BY <2>1, KindRefines
  <1>2. QED
    BY <1>1, LifeInit, WorkersInductive, PTL DEF Spec, ImplementsLifecycle, Lifecycle!Spec

-----------------------------------------------------------------------------
(* The directories of live agents. *)

WorksIn(w) == WorkspaceDir(w.target, w.key, w.name)

BootIdle == phase = "boot" => alive = {}

\* Nothing of an earlier run is alive while the service starts up.
LEMMA BootStaysIdle ==
  ASSUME BootIdle, [Next]_vars
  PROVE  BootIdle'
  <1>1. CASE phase' = "boot"
    <2>1. phase = "boot" /\ UNCHANGED alive
      BY <1>1 DEF BootIdle, Next, Stopped, vars, loop, service, TickStep, StartupCleanup,
         FetchReconciliation, FetchCandidates, ApplyCandidates, StartRetries, PruneOrphans,
         FirstTick, PlanPolls, EndPoll, BeginDispatch, BeginRetries, EndTick, EndPrune, LeaveTick,
         ReconcileIssue, DispatchCandidate, RetryIssue, ReconcileStalled, ReceiveOutcome, Wake,
         OperatorStep, Drain, Resume, Shutdown, PromoteRetry, AbortByOperator, StopStep,
         ReceiveWhileStopping, StopTimeout, Stop, WorkerStep, PrepareWorkspace, MarkStarted,
         AgentResolves, EndOfTurns, CompleteIssue, FailWorker, Environment, TrackerMove, Rename,
         BecomeDue
    <2>2. QED
      BY <2>1 DEF BootIdle
  <1>2. QED
    BY <1>1 DEF BootIdle

\* An agent works in the workspace its entry holds.
LEMMA AgentAtWork ==
  ASSUME WInv, NEW w \in alive
  PROVE  /\ w.key \in Key /\ st.running[w.key] # None /\ workers[w.key] # None
         /\ w \in TaskOf(w.key)
         /\ WorksIn(w) = <<w.target, st.running[w.key].workspace_key>>
         /\ st.running[w.key].workspace_key = <<w.key[1], w.name>>
  <1>1. w.key \in Key /\ Registered(w)
    BY DEF WInv, IInv, TypeOK, Task, Books, AliveRegistered
  <1>2. QED
    BY <1>1 DEF Registered, TaskOf, WorksIn, WorkspaceDir, WInv, Books, TasksRunning

\* No directory of an agent goes but by the clean-up of an issue renamed to its name.
Kept(w) == WorksIn(w) \in dirs /\ WorksIn(w) \notin dirs' => \E k \in Key : CleansUnderNewName(k, w)

AgentsKept == \A w \in alive \cap alive' : Kept(w)

\* A clean-up that meets the directory of another issue's agent goes by a new name: the two
\* issues do not hold the same workspace.
LEMMA CleanupMeetsRenamed ==
  ASSUME WInv, NEW w \in alive, NEW k \in Key, k # w.key, st.running[k] # None,
         st'.running[k] = None, NEW n, WorksIn(w) = WorkspaceDir(st.running[k].target, k, n),
         \/ n = st.running[k].issue.name
         \/ /\ poll[k[1]].recon.seen[k[2]] # None
            /\ n = poll[k[1]].recon.seen[k[2]].name
  PROVE  CleansUnderNewName(k, w)
  <1> DEFINE l == w.key
  <1>1. /\ l \in Key /\ st.running[l] # None
        /\ st.running[l].workspace_key = <<l[1], w.name>>
    BY AgentAtWork
  <1>2. w.target = st.running[k].target /\ l[1] = k[1] /\ w.name = n
    BY DEF WorksIn, WorkspaceDir
  <1>3. /\ k \in Owners(st) /\ l \in Owners(st)
        /\ st.running[k].workspace_key \in WorkspacesOf(st, k)
        /\ st.running[l].workspace_key \in WorkspacesOf(st, l)
    BY <1>1 DEF Owners, RunningKeys, WorkspacesOf
  <1>4. st.running[k].workspace_key # st.running[l].workspace_key
    BY <1>1, <1>3 DEF WInv, IInv, Consistent, OwnersDisjoint
  <1>5. QED
    BY <1>1, <1>2, <1>4 DEF CleansUnderNewName

\* A release ends the run.
LEMMA ReleaseEndsRun ==
  ASSUME NEW s \in StateType, NEW k \in Key
  PROVE  ReleaseIssue(s, k).running[k] = None
  <1>1. ReleaseIssue(s, k).running = [s.running EXCEPT ![k] = None]
    BY ReleaseIssueEntries
  <1>2. QED
    BY <1>1 DEF StateType

LEMMA ReconcileKeepsDirs ==
  ASSUME WInv, NEW k \in Key, ReconcileIssue(k)
  PROVE  AgentsKept
  <1> DEFINE latest == poll[k[1]].recon.seen[k[2]]
             decision == ReconcileDecision(st, k, latest)
             d == WorkspaceDir(st.running[k].target, k, latest.name)
  <1>1. k[1] \in Sources /\ k[2] \in IssueIds /\ st \in StateType
    BY DEF Key, WInv, IInv, TypeOK
  <1>2. CASE decision = "CancelTerminal"
    <2>1. st.running[k] # None /\ latest # None
      BY <1>2 DEF ReconcileDecision
    <2>2. latest \in Issue
      BY <1>1, <2>1 DEF WInv, IInv, TypeOK, Answer
    <2>3. AbortWorker(k) /\ RemoveDir(d) /\ st' = ReleaseIssue(RefreshIssue(st, k, latest), k)
      BY <1>2 DEF ReconcileIssue
    <2>4. st'.running[k] = None
      <3> HIDE DEF latest
      <3>1. RefreshIssue(st, k, latest) \in StateType
        BY <1>1, <2>1, <2>2, RefreshIssueEntries
      <3>2. QED
        BY <2>3, <3>1, ReleaseEndsRun
    <2> SUFFICES ASSUME NEW w \in alive \cap alive', WorksIn(w) \in dirs, WorksIn(w) \notin dirs'
                 PROVE  CleansUnderNewName(k, w)
      BY DEF AgentsKept, Kept
    <2>5. w.key # k
      BY <2>3, AgentAtWork DEF AbortWorker
    <2>6. WorksIn(w) = d
      BY <2>3 DEF RemoveDir
    <2>7. QED
      BY <2>1, <2>4, <2>5, <2>6, CleanupMeetsRenamed
  <1>3. CASE decision # "CancelTerminal"
    BY <1>3 DEF ReconcileIssue, AgentsKept, Kept
  <1>4. QED
    BY <1>2, <1>3

LEMMA OutcomeKeepsDirs ==
  ASSUME WInv, ApplyWorkerOutcome, UNCHANGED alive
  PROVE  AgentsKept
  <1> DEFINE o == Head(outcomes)
             entry == st.running[o.key]
             d == WorkspaceDir(entry.target, o.key, entry.issue.name)
  <1>1. CASE UNCHANGED dirs
    BY <1>1 DEF AgentsKept, Kept
  <1>2. CASE MatchesTask(o) /\ entry # None /\ RemoveDir(d) /\ st' = ReleaseIssue(st, o.key)
    <2>1. outcomes \in Seq(Outcome) /\ outcomes # <<>> /\ st \in StateType
      BY DEF WInv, IInv, TypeOK, ApplyWorkerOutcome
    <2>2. o \in Outcome /\ 1 \in DOMAIN outcomes /\ outcomes[1] = o
      BY <2>1
    <2>3. o.key \in Key
      BY <2>2 DEF Outcome
    <2>4. AnswerAt(1, o.key) /\ workers[o.key] # None
      BY <1>2, <2>2 DEF AnswerAt, MatchesTask
    <2>5. \A w \in alive : w.key # o.key
      BY <2>3, <2>4 DEF WInv, Books, AnswersOnce
    <2>6. st'.running[o.key] = None
      BY <1>2, <2>1, <2>3, ReleaseEndsRun
    <2> SUFFICES ASSUME NEW w \in alive, WorksIn(w) \in dirs, WorksIn(w) \notin dirs'
                 PROVE  CleansUnderNewName(o.key, w)
      BY <2>3 DEF AgentsKept, Kept
    <2>7. WorksIn(w) = d
      BY <1>2 DEF RemoveDir
    <2>8. QED
      BY <1>2, <2>3, <2>5, <2>6, <2>7, CleanupMeetsRenamed
  <1>3. QED
    BY <1>1, <1>2 DEF ApplyWorkerOutcome

\* Retention passes over every claimed workspace.
LEMMA PruneKeepsDirs ==
  ASSUME WInv, NEW s \in Sources, PruneOrphans(s)
  PROVE  AgentsKept
  <1>1. \A d \in dirs : d[2] \in st.claimed_workspace_keys => d \in dirs'
    BY DEF PruneOrphans, ProtectedWorkspaceKeys
  <1>2. ASSUME NEW w \in alive PROVE WorksIn(w)[2] \in st.claimed_workspace_keys
    <2> DEFINE own == st.running[w.key].workspace_key
    <2>1. /\ w.key \in Key /\ st.running[w.key] # None /\ WorksIn(w)[2] = own
      BY AgentAtWork
    <2>2. own \in WorkspaceKey
      BY <2>1 DEF WInv, IInv, TypeOK, StateType, RunningEntry
    <2>3. w.key \in Owners(st) /\ own \in WorkspacesOf(st, w.key)
      BY <2>1 DEF Owners, RunningKeys, WorkspacesOf
    <2>4. own \in st.claimed_workspace_keys
      BY <2>2, <2>3 DEF WInv, IInv, Consistent, ClaimsMatchOwners
    <2>5. QED
      BY <2>1, <2>4
  <1>3. QED
    BY <1>1, <1>2 DEF AgentsKept, Kept

\* A worker removes at most its own directory, with its end.
LEMMA WorkerKeepsDirs ==
  ASSUME WInv, NEW w \in alive, WorkerStep(w)
  PROVE  AgentsKept
  <1>1. CASE CompleteIssue(w)
    <2>1. alive' = alive \ {w} /\ (UNCHANGED dirs \/ RemoveDir(WorksIn(w)))
      BY <1>1 DEF CompleteIssue, Finish, WorksIn
    <2>2. \A v \in alive' : v \in alive /\ WorksIn(v) # WorksIn(w)
      BY <2>1, AgentsIsolated DEF WorkersIsolated, WorksIn, WorkspaceDir
    <2>3. dirs' = dirs \/ dirs' = dirs \ {WorksIn(w)}
      BY <2>1 DEF RemoveDir
    <2>4. QED
      BY <2>2, <2>3 DEF AgentsKept, Kept
  <1>2. CASE PrepareWorkspace(w) \/ MarkStarted(w) \/ AgentResolves(w) \/ EndOfTurns(w) \/ FailWorker(w)
    <2>1. dirs \subseteq dirs'
      BY <1>2 DEF PrepareWorkspace, MarkStarted, AgentResolves, EndOfTurns, FailWorker, world
    <2>2. QED
      BY <2>1 DEF AgentsKept, Kept
  <1>3. QED
    BY <1>1, <1>2 DEF WorkerStep

LEMMA AgentsKeptNext ==
  ASSUME WInv, BootIdle, [Next]_vars
  PROVE  AgentsKept
  <1>1. CASE UNCHANGED dirs
    BY <1>1 DEF AgentsKept, Kept
  <1>2. ASSUME NEW s \in Sources, StartupCleanup(s) PROVE AgentsKept
    BY <1>2 DEF StartupCleanup, BootIdle, AgentsKept
  <1>3. CASE TickStep
    <2>1. ASSUME NEW s \in Sources, \/ FetchReconciliation(s) \/ FetchCandidates(s)
                                    \/ ApplyCandidates(s) \/ StartRetries(s)
          PROVE  AgentsKept
      BY <1>1, <2>1 DEF FetchReconciliation, FetchCandidates, ApplyCandidates, StartRetries, world
    <2>2. CASE \/ FirstTick \/ PlanPolls \/ EndPoll \/ BeginDispatch \/ BeginRetries
               \/ EndTick \/ EndPrune
      BY <1>1, <2>2 DEF FirstTick, PlanPolls, EndPoll, BeginDispatch, BeginRetries, EndTick,
         EndPrune, world
    <2>3. ASSUME NEW k \in Key, DispatchCandidate(k) \/ RetryIssue(k) PROVE AgentsKept
      BY <1>1, <2>3 DEF DispatchCandidate, RetryIssue, world
    <2>4. QED
      BY <1>2, <1>3, <2>1, <2>2, <2>3, ReconcileKeepsDirs, PruneKeepsDirs DEF TickStep
  <1>4. CASE ReceiveOutcome \/ ReceiveWhileStopping
    BY <1>4, OutcomeKeepsDirs DEF ReceiveOutcome, ReceiveWhileStopping
  <1>5. ASSUME NEW k \in Key, \/ ReconcileStalled(k) \/ PromoteRetry(k)
                              \/ \E g \in 1..next_generation : AbortByOperator(k, g)
        PROVE  AgentsKept
    BY <1>1, <1>5 DEF ReconcileStalled, PromoteRetry, AbortByOperator, world
  <1>6. CASE Drain \/ Resume \/ Shutdown \/ StopTimeout \/ Stop \/ Wake \/ UNCHANGED vars
    BY <1>1, <1>6 DEF Drain, Resume, Shutdown, StopTimeout, Stop, Wake, vars, world
  <1>7. CASE Environment
    BY <1>1, <1>7 DEF Environment, TrackerMove, Rename, BecomeDue, world
  <1>8. QED
    BY <1>3, <1>4, <1>5, <1>6, <1>7, WorkerKeepsDirs DEF Next, Stopped, OperatorStep, StopStep

\* Whatever the names are and become, the directory of a live agent goes neither at
\* start-up, nor by retention, nor with an abort, a late outcome or another's commit: if a
\* step takes it, it is the clean-up of an issue that ran in a workspace of its own and was
\* renamed to the name of the agent's issue since (remove_for_target, prune_orphans).
THEOREM LiveWorkspacesKeptAlways == Spec => LiveWorkspacesKept
  <1>1. Init => BootIdle
    BY DEF Init, BootIdle
  <1>2. BootIdle /\ [Next]_vars => BootIdle'
    BY BootStaysIdle
  <1>3. WInv /\ BootIdle /\ [Next]_vars =>
           [\A w \in alive \cap alive' :
               LET own == WorkspaceDir(w.target, w.key, w.name)
               IN  own \in dirs /\ own \notin dirs' =>
                      \E k \in Key : CleansUnderNewName(k, w)]_vars
    BY AgentsKeptNext DEF AgentsKept, Kept, WorksIn
  <1>4. QED
    BY <1>1, <1>2, <1>3, WorkersInductive, PTL DEF Spec, LiveWorkspacesKept

=============================================================================

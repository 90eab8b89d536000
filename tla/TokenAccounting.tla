------------------------- MODULE TokenAccounting -------------------------
(***************************************************************************)
(* How the service accounts for one issue's tokens and turns.  A worker    *)
(* sends events over one channel and its end over another; the service     *)
(* drops events of a worker that is no longer current (apply_worker_event) *)
(* and folds the others into the running entry's live session and the      *)
(* global totals (apply_codex_event).  A worker has one thread; Codex      *)
(* reports a thread's usage as an absolute total.  The three counters of a *)
(* report (input, output, total) follow the same rule and are one here.    *)
(* Names that ControlPlane has as well carry a prefix, since both are      *)
(* parts of one loop and proved about together.                            *)
(***************************************************************************)
EXTENDS Integers, Sequences

CONSTANTS
    MaxWorkers,   \* dispatches of the issue
    MaxTurns,     \* agent.max_turns, turns of one worker
    MaxUsage,     \* usage of one thread
    None

VARIABLES
    generation,   \* of the registered worker, None when there is none
    dispatched,   \* workers dispatched so far
    turn,         \* [worker -> turns it has started]
    usage,        \* [worker -> tokens its thread has used, as last reported]
    events,       \* event channel
    live_session, \* of the running entry
    codex_totals

accounting == <<generation, dispatched, turn, usage, events, live_session, codex_totals>>

Workers == 1..MaxWorkers

Session == [thread: Workers, turn: 1..MaxTurns, turn_count: Nat,
            last_reported_tokens: Nat]

Event == [thread: Workers, turn: 1..MaxTurns,
          event: {"turn_started", "token_totals"}, total: Nat \cup {None}]

ASSUME TokenAssumption ==
    /\ MaxWorkers \in Nat /\ MaxTurns \in Nat /\ MaxUsage \in Nat
    /\ None \notin Nat /\ None \notin Session

TokenTypeOK ==
    /\ generation \in Workers \cup {None}
    /\ dispatched \in 0..MaxWorkers
    /\ turn \in [Workers -> 0..MaxTurns]
    /\ usage \in [Workers -> 0..MaxUsage]
    /\ events \in Seq(Event)
    /\ live_session \in Session \cup {None}
    /\ codex_totals \in Nat

TokenInit ==
    /\ generation = None
    /\ dispatched = 0
    /\ turn = [w \in Workers |-> 0]
    /\ usage = [w \in Workers |-> 0]
    /\ events = <<>>
    /\ live_session = None
    /\ codex_totals = 0

NewSession(thread, t) ==
    [thread |-> thread, turn |-> t, turn_count |-> 0, last_reported_tokens |-> 0]

\* claim_running installs an entry without a session.
Dispatch ==
    /\ generation = None /\ dispatched < MaxWorkers
    /\ dispatched' = dispatched + 1
    /\ generation' = dispatched + 1
    /\ live_session' = None
    /\ UNCHANGED <<turn, usage, events, codex_totals>>

\* The worker's task emits; only the latest dispatch has a task.
StartTurn ==
    /\ generation # None /\ turn[generation] < MaxTurns
    /\ turn' = [turn EXCEPT ![generation] = @ + 1]
    /\ events' = Append(events, [thread |-> generation, turn |-> turn[generation] + 1,
                                 event |-> "turn_started", total |-> None])
    /\ UNCHANGED <<generation, dispatched, usage, live_session, codex_totals>>

\* thread/tokenUsage/updated: an absolute total that never falls.
ReportUsage ==
    /\ generation # None /\ turn[generation] > 0
    /\ \E total \in usage[generation] .. MaxUsage :
         /\ total > 0
         /\ usage' = [usage EXCEPT ![generation] = total]
         /\ events' = Append(events, [thread |-> generation, turn |-> turn[generation],
                                      event |-> "token_totals", total |-> total])
    /\ Len(events) < MaxUsage + MaxTurns   \* bound on the channel
    /\ UNCHANGED <<generation, dispatched, turn, live_session, codex_totals>>

\* The session an event of thread and turn e belongs to: another id starts a new one.
SessionFor(e) ==
    IF live_session = None THEN NewSession(e.thread, e.turn)
    ELSE IF live_session.thread # e.thread \/ live_session.turn # e.turn
         THEN NewSession(e.thread, e.turn)
    ELSE live_session

\* Mutant: the absolute total is added.
AddsTotal(session, total) == total

\* What a report adds to the totals: saturating_sub.
TokenDelta(session, total) ==
    IF total > session.last_reported_tokens THEN total - session.last_reported_tokens ELSE 0

\* Mutant: only a growing session remembers what was reported.
RemembersFirst(session, total) ==
    IF session.last_reported_tokens = 0
    THEN [session EXCEPT !.last_reported_tokens = total] ELSE session

Remember(session, total) == [session EXCEPT !.last_reported_tokens = total]

ApplyCodexEvent(e) ==
    LET session == SessionFor(e)
        counted == IF e.event = "turn_started"
                   THEN [session EXCEPT !.turn_count = @ + 1] ELSE session
    IN  IF e.total = None
        THEN live_session' = counted /\ UNCHANGED codex_totals
        ELSE /\ codex_totals' = codex_totals + TokenDelta(session, e.total)
             /\ live_session' = Remember(counted, e.total)

ReceiveEvent ==
    /\ events # <<>>
    /\ events' = Tail(events)
    /\ IF generation = Head(events).thread
       THEN ApplyCodexEvent(Head(events))
       ELSE UNCHANGED <<live_session, codex_totals>>
    /\ UNCHANGED <<generation, dispatched, turn, usage>>

\* The worker ends or is aborted: what it has sent may still be in the channel.
WorkerEnds ==
    /\ generation # None
    /\ generation' = None
    /\ live_session' = None
    /\ UNCHANGED <<dispatched, turn, usage, events, codex_totals>>

TokenNext == Dispatch \/ StartTurn \/ ReportUsage \/ ReceiveEvent \/ WorkerEnds

TokenSpec == TokenInit /\ [][TokenNext]_accounting

-----------------------------------------------------------------------------

\* The sum of f over the workers.
SumOver(f) ==
    LET sum[n \in 0..MaxWorkers] == IF n = 0 THEN 0 ELSE sum[n - 1] + f[n]
    IN  sum[MaxWorkers]

\* The usage reported by all threads together.
Reported == SumOver(usage)

\* The totals never count a token twice (SPEC.md:1388).  Holds while a worker
\* has one turn; a later turn starts a session that forgets what was reported.
NoDoubleCount == codex_totals <= Reported

\* When the current worker's events have all been applied, the session has recorded
\* its usage: nothing is lost by the reports that came in between (apply_codex_event).
CurrentUsageCounted ==
    generation # None /\ events = <<>> /\ live_session # None =>
        live_session.last_reported_tokens = usage[generation]

=============================================================================

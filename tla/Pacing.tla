------------------------------- MODULE Pacing --------------------------------
(***************************************************************************)
(* When things happen: the timers of the service's loop and the rounds     *)
(* they start (src/service.rs), the back-off of retries                    *)
(* (src/orchestrator/retry.rs) and the detection of stalled workers        *)
(* (src/orchestrator/state.rs), in one source.                             *)
(*                                                                         *)
(* Every round polls the tracker, which takes up to Latency; an event, an  *)
(* outcome or a command that is received ends in a round as well.  Timers  *)
(* are urgent: time does not pass while a branch of the select is ready.   *)
(***************************************************************************)
EXTENDS Integers, SequencesExt, FiniteSetsExt

CONSTANTS
    Issues,        \* numbers of the issues
    Slots,         \* agent.max_concurrent_agents
    Interval,      \* polling.interval_ms
    Latency,       \* longest answer of the tracker
    Stall,         \* codex.stall_timeout_ms
    Continuation,  \* CONTINUATION_RETRY_DELAY_MS
    Base,          \* first back-off
    MaxBackoff,    \* agent.max_retry_backoff_ms
    MaxShift,      \* attempts beyond it are taken for it: 63
    Word,          \* largest machine number
    MaxAttempt,    \* bound on the attempts
    MaxEvents,     \* bound on events waiting
    MaxTime        \* bound on the clock

ASSUME PacingAssumption ==
    /\ Issues \subseteq Nat \ {0} /\ IsFiniteSet(Issues) /\ Slots \in Nat
    /\ {Interval, Latency, Stall, Continuation, Base} \subseteq Nat \ {0}
    /\ MaxShift \in Nat \ {0} /\ Word \in Nat /\ 2^(MaxShift - 1) <= Word
    /\ MaxBackoff \in 0..Word
    /\ MaxAttempt \in Nat /\ MaxEvents \in Nat /\ MaxTime \in Nat

VARIABLES
    now,       \* the clock
    phase,     \* "round", "fetch", "select"
    polled,    \* when the last round began
    poll_at,   \* when the poll timer fires
    retry_at,  \* when the retry timer fires
    retry,     \* the retry entry of each issue
    attempt,   \* retry_attempt of each running issue, 0 for none; -1: not running
    heard,     \* last_codex_timestamp or started_at of each running issue
    done,      \* how the task of each running issue has ended
    events,    \* events of the workers, waiting to be received
    active,    \* issues the tracker has as active
    draining,  \* the service is drained
    waited     \* the last back-off of each issue, 0 after a normal exit or a release

retries == <<retry, waited>>
workers == <<attempt, heard, done>>
timers == <<polled, poll_at, retry_at>>
vars == <<now, phase, timers, retries, workers, events, active, draining>>

Time == 0..MaxTime
Never == -1
Reported == {"normal", "failed"}    \* a task that panics reports nothing: it is lost
NoRetry == [due |-> Never, attempt |-> 0, failed |-> FALSE]

HasRetry(i) == retry[i] # NoRetry
Running == {i \in Issues : attempt[i] # -1}

TypeOK ==
    /\ now \in Time /\ phase \in {"round", "fetch", "select"}
    /\ polled \in Time /\ poll_at \in Nat /\ retry_at \in Nat \cup {Never}
    /\ retry \in [Issues -> [due: Nat \cup {Never}, attempt: 0..MaxAttempt + 1, failed: BOOLEAN]]
    /\ attempt \in [Issues -> -1..MaxAttempt + 1]
    /\ heard \in [Issues -> Time]
    /\ done \in [Issues -> {"no", "lost"} \cup Reported]
    /\ events \in Seq([from: Issues \cup {0}, at: Time]) /\ Len(events) <= MaxEvents
    /\ active \subseteq Issues /\ draining \in BOOLEAN
    /\ waited \in [Issues -> Nat]
    /\ \A i \in Issues : HasRetry(i) => i \notin Running
    /\ Cardinality(Running) <= Slots

Init ==
    /\ now = 0 /\ phase = "round"
    /\ polled = 0 /\ poll_at = 0 /\ retry_at = Never
    /\ retry = [i \in Issues |-> NoRetry] /\ waited = [i \in Issues |-> 0]
    /\ attempt = [i \in Issues |-> -1]
    /\ heard = [i \in Issues |-> 0]
    /\ done = [i \in Issues |-> "no"]
    /\ events = <<>> /\ active \in SUBSET Issues /\ draining = FALSE

-----------------------------------------------------------------------------
(* Delays. *)

Saturated(n) == Min({n, Word})

\* Mutant: the shift is not clamped, and shifts by the width of the word start over.
UnclampedShift(n) == (n - 1) % MaxShift

Shift(n) == Max({1, Min({n, MaxShift})}) - 1

\* What the first back-off is multiplied with: 1 << shift.
Factor[n \in 0..MaxShift - 1] == IF n = 0 THEN 1 ELSE 2 * Factor[n - 1]

FailureDelay(n) == Min({Saturated(Base * Factor[Shift(n)]), MaxBackoff})

\* Mutant: waits for the last retry.
LastDue(dues) == Max(dues)

EarliestDue(dues) == Min(dues)

NextDue(entries) ==
    LET dues == {entries[i].due : i \in {j \in Issues : entries[j] # NoRetry}}
    IN  IF dues = {} THEN Never ELSE EarliestDue(dues)

-----------------------------------------------------------------------------
(* Ends of workers. *)

\* The entry left by the end of each of the issues: a continuation, or a back-off.
AfterExit(i, failed) ==
    IF failed
    THEN [due |-> now + FailureDelay(attempt[i] + 1), attempt |-> attempt[i] + 1, failed |-> TRUE]
    ELSE [due |-> now + Continuation, attempt |-> 1, failed |-> FALSE]

\* The entries of issues that are no longer running; their events have become stale.
Stop(gone) ==
    /\ attempt' = [i \in Issues |-> IF i \in gone THEN -1 ELSE attempt[i]]
    /\ done' = [i \in Issues |-> IF i \in gone THEN "no" ELSE done[i]]
    /\ heard' = [i \in Issues |-> IF i \in gone THEN 0 ELSE heard[i]]
    /\ events' = [n \in DOMAIN events |->
                    IF events[n].from \in gone THEN [events[n] EXCEPT !.from = 0] ELSE events[n]]

WorkerExit(gone, failed) ==
    /\ \A i \in gone : attempt[i] < MaxAttempt
    /\ Stop(gone)
    /\ retry' = [i \in Issues |-> IF i \in gone THEN AfterExit(i, failed) ELSE retry[i]]
    /\ waited' = [i \in Issues |-> IF i \notin gone THEN waited[i]
                                   ELSE IF failed THEN FailureDelay(attempt[i] + 1) ELSE 0]

-----------------------------------------------------------------------------
(* A round: stalled workers, the poll, the dispatch. *)

\* Mutant: not while draining.
StalledUnlessDraining(i) == ~draining /\ now - heard[i] > Stall

IsStalled(i) == now - heard[i] > Stall

BeginRound ==
    /\ phase = "round"
    /\ phase' = "fetch" /\ polled' = now
    /\ WorkerExit({i \in Running : IsStalled(i)}, TRUE)
    /\ UNCHANGED <<now, poll_at, retry_at, active, draining>>

PollTimer == now + Interval

\* The select begins: its timers are set anew.
SetTimers ==
    /\ phase' = "select"
    /\ poll_at' = PollTimer
    /\ retry_at' = NextDue(retry')
    /\ UNCHANGED polled

Due == {i \in Issues : HasRetry(i) /\ retry[i].due <= now}

\* A failed fetch counts as a failed attempt of every retry that is due.
FetchFails ==
    /\ phase = "fetch"
    /\ \A i \in Due : retry[i].attempt <= MaxAttempt
    /\ retry' = [i \in Issues |-> IF i \in Due
                   THEN [due |-> now + FailureDelay(retry[i].attempt + 1),
                         attempt |-> retry[i].attempt + 1, failed |-> TRUE]
                   ELSE retry[i]]
    /\ waited' = [i \in Issues |-> IF i \in Due THEN FailureDelay(retry[i].attempt + 1) ELSE waited[i]]
    /\ SetTimers
    /\ UNCHANGED <<now, workers, events, active, draining>>

\* What a dispatch may start: as many new issues as there are slots, then due retries.
Starts(free) ==
    LET new == {i \in active \ Running : ~HasRetry(i)}
        room == Max({0, Slots - (Cardinality(Running) - Cardinality(free))})
    IN  {s \in SUBSET (new \cup (Due \cap active)) :
           /\ Cardinality(s) = Min({room, Cardinality(new \cup (Due \cap active))})
           /\ s \cap Due # {} => new \subseteq s}

\* Runs of issues that are no longer active are ended first; due retries that are not
\* candidates any more are released; one without a slot stays as it is.
FetchSucceeds ==
    /\ phase = "fetch"
    /\ LET free == Running \ active IN
       \E s \in IF draining THEN {{}} ELSE Starts(free) :
         /\ attempt' = [i \in Issues |-> IF i \in s THEN retry[i].attempt
                                         ELSE IF i \in free THEN -1 ELSE attempt[i]]
         /\ done' = [i \in Issues |-> IF i \in s \cup free THEN "no" ELSE done[i]]
         /\ heard' = [i \in Issues |-> IF i \in s THEN now ELSE IF i \in free THEN 0 ELSE heard[i]]
              /\ events' = [n \in DOMAIN events |-> IF events[n].from \in free
                                               THEN [events[n] EXCEPT !.from = 0] ELSE events[n]]
         /\ LET over == s \cup (IF draining THEN {} ELSE Due \ active) IN
            /\ retry' = [i \in Issues |-> IF i \in over THEN NoRetry ELSE retry[i]]
            /\ waited' = [i \in Issues |-> IF i \in free \cup (over \ s) THEN 0 ELSE waited[i]]
    /\ SetTimers
    /\ UNCHANGED <<now, active, draining>>

-----------------------------------------------------------------------------
(* The select: whatever it receives, a round follows. *)

Wake ==
    /\ phase = "select" /\ phase' = "round"
    /\ poll_at' = 0 /\ retry_at' = Never /\ UNCHANGED polled

TimerFires ==
    /\ Wake
    /\ poll_at <= now \/ (retry_at # Never /\ retry_at <= now)
    /\ UNCHANGED <<now, retries, workers, events, active, draining>>

ReceiveEvent ==
    /\ Wake /\ events # <<>>
    /\ LET e == Head(events) IN
         heard' = IF e.from \in Issues THEN [heard EXCEPT ![e.from] = e.at] ELSE heard
    /\ events' = Tail(events)
    /\ UNCHANGED <<now, retries, attempt, done, active, draining>>

ReceiveOutcome ==
    /\ Wake
    /\ \E i \in Running : done[i] \in Reported /\ WorkerExit({i}, done[i] = "failed")
    /\ UNCHANGED <<now, active, draining>>

\* Commands of an operator: drain, resume, promote a retry.
ReceiveCommand ==
    /\ Wake
    /\ \/ draining' = ~draining /\ UNCHANGED retry
       \/ /\ UNCHANGED draining
          /\ \E i \in Issues : HasRetry(i) /\ retry' = [retry EXCEPT ![i].due = now]
    /\ UNCHANGED <<now, waited, workers, events, active>>

-----------------------------------------------------------------------------
(* Workers, time, people. *)

Emit(i) ==
    /\ i \in Running /\ done[i] = "no" /\ Len(events) < MaxEvents
    /\ events' = Append(events, [from |-> i, at |-> now])
    /\ UNCHANGED <<now, phase, timers, retries, attempt, heard, done, active, draining>>

WorkerEnds(i) ==
    /\ i \in Running /\ done[i] = "no"
    /\ \E how \in Reported \cup {"lost"} : done' = [done EXCEPT ![i] = how]
    /\ UNCHANGED <<now, phase, timers, retries, attempt, heard, events, active, draining>>

\* A select with nothing to receive sleeps until a timer fires; a tracker that does not
\* answer is given up after its timeout.
Sleep ==
    /\ now < MaxTime /\ now' = now + 1
    /\ \/ phase = "fetch" /\ now < polled + Latency
       \/ /\ phase = "select" /\ events = <<>> /\ \A i \in Running : done[i] \notin Reported
          /\ now < poll_at /\ (retry_at # Never => now < retry_at)
    /\ UNCHANGED <<phase, timers, retries, workers, events, active, draining>>

PeopleMove ==
    /\ active' \in SUBSET Issues \ {active}
    /\ UNCHANGED <<now, phase, timers, retries, workers, events, draining>>

Next ==
    \/ BeginRound \/ FetchFails \/ FetchSucceeds
    \/ TimerFires \/ ReceiveEvent \/ ReceiveOutcome \/ ReceiveCommand
    \/ \E i \in Issues : Emit(i) \/ WorkerEnds(i)
    \/ Sleep \/ PeopleMove

Spec == Init /\ [][Next]_vars

-----------------------------------------------------------------------------
(* Properties. *)

\* The waits between consecutive failures of an issue never shrink, whatever the attempt, and
\* stay below the maximum (failure_retry_delay_ms).
DelaysGrow ==
    [][\A i \in Issues : waited'[i] # waited[i] =>
         waited'[i] \in {0} \cup waited[i]..MaxBackoff]_vars

\* The service polls at least once in an interval and the time a poll takes, whatever
\* else it waits for (the select of the loop).
PollsGoOn == now <= polled + Latency + Interval

\* A retry that falls due is looked at on time: the loop never sleeps beyond the
\* earliest of them (next_retry_delay).
DueInTime ==
    [][phase = "select" /\ now' > now => \A i \in Issues : HasRetry(i) => now < retry[i].due]_vars

\* A worker that says nothing is ended within a round after its stall timeout, also while
\* the service is drained and however slow the tracker is (reconcile_stalled).
StallsEnd == \A i \in Running : now <= heard[i] + Stall + Latency + Interval

\* SPEC.md:761: the poll loop "repeats every `polling.interval_ms`".  Other than at the
\* time of the poll timer, only a retry that has just fallen due starts a round.
PollsPaced ==
    [][phase = "select" /\ phase' = "round" /\ ~draining' /\ UNCHANGED <<draining, retry>> =>
         poll_at <= now \/ \E i \in Issues : HasRetry(i) /\ retry[i].due = now]_vars

Silent(i) ==
    LET heardAt == {heard[i]} \cup {events[n].at : n \in {m \in DOMAIN events : events[m].from = i}}
    IN  \E t \in heardAt : t + Stall < now /\ heardAt \cap (t + 1)..(t + Stall) = {}

\* SPEC.md:1169: the stall timeout is "enforced by orchestrator based on event
\* inactivity": a worker is ended for it only if it was silent for that long, counting
\* the events that wait to be received.
LivelyWorkersKept ==
    [][phase = "round" => \A i \in Running : attempt'[i] = -1 => Silent(i)]_vars

=============================================================================

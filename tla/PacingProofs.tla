---------------------------- MODULE PacingProofs ---------------------------
(***************************************************************************)
(* For any number of issues and slots, and whatever the interval, the      *)
(* latency of the tracker, the stall timeout and the back-off: the service *)
(* keeps polling, a worker that says nothing is ended in time, no retry is *)
(* overslept and a longer row of failures never waits a shorter time.      *)
(***************************************************************************)
EXTENDS Pacing, FiniteSetTheorems, WellFoundedInduction, TLAPS

Event == [from: Issues \cup {0}, at: Nat]

Typed ==
    /\ now \in Nat /\ polled \in Nat /\ poll_at \in Nat /\ phase \in {"round", "fetch", "select"}
    /\ heard \in [Issues -> Nat] /\ events \in Seq(Event) /\ DOMAIN retry = Issues

\* How far the clock may be ahead of the last round in each phase.
ClockBounded ==
    /\ polled <= now
    /\ phase = "fetch" => now <= polled + Latency
    /\ phase = "select" => now <= poll_at /\ poll_at <= polled + Latency + Interval
    /\ phase = "round" => now <= polled + Latency + Interval

\* A worker was heard of at most a stall timeout before the last round.
HeardInTime == \A i \in Issues : heard[i] <= now /\ (i \in Running => polled <= heard[i] + Stall)

\* An event that waits is of a running worker, and newer than what was heard before it.
EventsInOrder ==
    /\ \A n \in 1..Len(events) : LET e == events[n] IN
         e.at <= now /\ (e.from \in Issues => e.from \in Running /\ heard[e.from] <= e.at)
    /\ \A m, n \in 1..Len(events) :
         m < n /\ events[m].from \in Issues /\ events[m].from = events[n].from =>
            events[m].at <= events[n].at

RetriesRest == \A i \in Issues : HasRetry(i) => i \notin Running

Core == Typed /\ ClockBounded /\ HeardInTime /\ EventsInOrder /\ RetriesRest

IInv == Core /\ active \subseteq Issues

LEMMA InitEstablishes == Init => IInv
  <1> SUFFICES ASSUME Init PROVE IInv
    OBVIOUS
  <1>1. events \in Seq(Event) /\ Len(events) = 0
    BY DEF Init
  <1>2. Typed
    BY <1>1 DEF Init, Typed
  <1>3. QED
    BY <1>1, <1>2, PacingAssumption
    DEF Init, IInv, Core, ClockBounded, HeardInTime, EventsInOrder, RetriesRest, HasRetry, Running

\* Events whose workers have ended stay where they are.
LEMMA EventsRetagged ==
  ASSUME Typed, NEW gone \in SUBSET Issues,
         events' = [n \in DOMAIN events |->
                      IF events[n].from \in gone THEN [events[n] EXCEPT !.from = 0] ELSE events[n]]
  PROVE  /\ events' \in Seq(Event) /\ Len(events') = Len(events)
         /\ \A n \in 1..Len(events) :
              /\ events'[n].at = events[n].at
              /\ events'[n].from = IF events[n].from \in gone THEN 0 ELSE events[n].from
  <1>1. Len(events) \in Nat /\ DOMAIN events = 1..Len(events)
    BY DEF Typed
  <1>2. \A n \in 1..Len(events) : events[n] \in Event
    BY DEF Typed
  <1>3. \A n \in 1..Len(events) : [events[n] EXCEPT !.from = 0] \in Event
    BY <1>2 DEF Event
  <1>4. events' \in [1..Len(events) -> Event]
    BY <1>1, <1>2, <1>3
  <1>5. events' \in Seq(Event) /\ Len(events') = Len(events)
    BY <1>1, <1>4
  <1>6. \A n \in 1..Len(events) :
          /\ events'[n].at = events[n].at
          /\ events'[n].from = IF events[n].from \in gone THEN 0 ELSE events[n].from
    BY <1>1, <1>2 DEF Event
  <1>7. QED
    BY <1>5, <1>6

\* Workers that stop leave the others, their events and what was heard of them alone.
LEMMA WorkerExitPreserves ==
  ASSUME IInv, NEW gone \in SUBSET Issues, NEW failed, WorkerExit(gone, failed), UNCHANGED now,
         polled' \in Nat, \A i \in Running \ gone : polled' <= heard[i] + Stall
  PROVE  /\ events' \in Seq(Event) /\ heard' \in [Issues -> Nat] /\ DOMAIN retry' = Issues
         /\ HeardInTime' /\ EventsInOrder' /\ RetriesRest'
  <1> USE PacingAssumption DEF IInv, Core
  <1>1. /\ events' \in Seq(Event) /\ Len(events') = Len(events)
        /\ \A n \in 1..Len(events) :
             /\ events'[n].at = events[n].at
             /\ events'[n].from = IF events[n].from \in gone THEN 0 ELSE events[n].from
    BY EventsRetagged DEF WorkerExit, Stop
  <1>2. /\ heard' = [i \in Issues |-> IF i \in gone THEN 0 ELSE heard[i]]
        /\ attempt' = [i \in Issues |-> IF i \in gone THEN -1 ELSE attempt[i]]
        /\ retry' = [i \in Issues |-> IF i \in gone THEN AfterExit(i, failed) ELSE retry[i]]
    BY DEF WorkerExit, Stop
  <1>3. Running' = Running \ gone
    BY <1>2 DEF Running
  <1>4. heard' \in [Issues -> Nat] /\ DOMAIN retry' = Issues
    BY <1>2 DEF Typed
  <1>5. HeardInTime'
    BY <1>2, <1>3 DEF HeardInTime, Typed
  <1>6. EventsInOrder'
    <2>1. \A n \in 1..Len(events') : events'[n].at <= now'
      BY <1>1 DEF EventsInOrder
    <2>2. ASSUME NEW n \in 1..Len(events'), events'[n].from \in Issues
          PROVE  events'[n].from \in Running' /\ heard'[events'[n].from] <= events'[n].at
      <3>1. events'[n].from = events[n].from /\ events[n].from \notin gone
        BY <1>1, <2>2, PacingAssumption
      <3>2. QED
        BY <1>1, <1>2, <1>3, <2>2, <3>1 DEF EventsInOrder
    <2>3. ASSUME NEW m \in 1..Len(events'), NEW n \in 1..Len(events'), m < n,
                 events'[m].from \in Issues, events'[m].from = events'[n].from
          PROVE  events'[m].at <= events'[n].at
      <3>1. events'[m].from = events[m].from /\ events'[n].from = events[n].from
        BY <1>1, <2>3
      <3>2. QED
        BY <1>1, <2>3, <3>1 DEF EventsInOrder
    <2>4. QED
      BY <2>1, <2>2, <2>3 DEF EventsInOrder
  <1>7. RetriesRest'
    BY <1>2, <1>3 DEF RetriesRest, HasRetry
  <1>8. QED
    BY <1>1, <1>4, <1>5, <1>6, <1>7

-----------------------------------------------------------------------------
(* The round. *)

LEMMA BeginRoundPreserves == ASSUME IInv, BeginRound PROVE Core'
  <1> DEFINE gone == {i \in Running : IsStalled(i)}
  <1>1. gone \in SUBSET Issues /\ WorkerExit(gone, TRUE) /\ polled' = now /\ phase' = "fetch"
        /\ UNCHANGED <<now, poll_at>>
    BY DEF BeginRound, Running
  <1>2. \A i \in Running \ gone : polled' <= heard[i] + Stall
    <2>1. Stall \in Nat /\ now \in Nat /\ \A i \in Issues : heard[i] \in Nat
      BY PacingAssumption DEF IInv, Core, Typed
    <2>2. ASSUME NEW i \in Issues, ~(now - heard[i] > Stall) PROVE now <= heard[i] + Stall
      BY <2>1, <2>2
    <2>3. QED
      BY <1>1, <2>2 DEF IsStalled, Running
  <1> HIDE DEF gone
  <1>3. polled' \in Nat
    BY <1>1 DEF IInv, Core, Typed
  <1>4. /\ events' \in Seq(Event) /\ heard' \in [Issues -> Nat] /\ DOMAIN retry' = Issues
        /\ HeardInTime' /\ EventsInOrder' /\ RetriesRest'
    BY <1>1, <1>2, <1>3, WorkerExitPreserves
  <1>5. Typed' /\ ClockBounded'
    BY <1>1, <1>3, <1>4, PacingAssumption DEF IInv, Core, Typed, ClockBounded
  <1>6. QED
    BY <1>4, <1>5 DEF IInv, Core

\* A select that begins sleeps until the poll timer at most.
LEMMA SetTimersBounds ==
  ASSUME IInv, phase = "fetch", SetTimers, UNCHANGED now
  PROVE  polled' = polled /\ poll_at' \in Nat /\ phase' = "select" /\ ClockBounded'
  BY PacingAssumption DEF IInv, Core, Typed, SetTimers, PollTimer, ClockBounded

LEMMA FetchFailsPreserves == ASSUME IInv, FetchFails PROVE Core'
  <1>1. polled' = polled /\ poll_at' \in Nat /\ phase' = "select" /\ ClockBounded'
    BY SetTimersBounds DEF FetchFails
  <1>2. UNCHANGED <<now, attempt, heard, events>>
    BY DEF FetchFails, workers
  <1>3. DOMAIN retry' = Issues /\ \A i \in Issues : retry'[i] = retry[i] \/ HasRetry(i)
    BY DEF FetchFails, Due
  <1>4. RetriesRest'
    BY <1>2, <1>3 DEF IInv, Core, RetriesRest, HasRetry, Running
  <1>5. Typed' /\ HeardInTime' /\ EventsInOrder'
    BY <1>1, <1>2, <1>3 DEF IInv, Core, Typed, HeardInTime, EventsInOrder, Running
  <1>6. QED
    BY <1>1, <1>4, <1>5 DEF IInv, Core

\* Nothing is started that runs already.
LEMMA StartsAreNew ==
  ASSUME IInv, NEW free, NEW s \in Starts(free)
  PROVE  s \subseteq Issues /\ s \cap Running = {}
  <1>1. s \subseteq (active \ Running) \cup Due
    BY DEF Starts
  <1>2. Due \subseteq Issues /\ Due \cap Running = {}
    BY DEF IInv, Core, RetriesRest, Due
  <1>3. QED
    BY <1>1, <1>2 DEF IInv, Core, Typed

LEMMA FetchSucceedsPreserves == ASSUME IInv, FetchSucceeds PROVE Core'
  <1> USE PacingAssumption
  <1>1. polled' = polled /\ poll_at' \in Nat /\ phase' = "select" /\ ClockBounded' /\ UNCHANGED now
    BY SetTimersBounds DEF FetchSucceeds
  <1> DEFINE free == Running \ active
  <1>2. PICK s \in IF draining THEN {{}} ELSE Starts(free) :
          /\ attempt' = [i \in Issues |-> IF i \in s THEN retry[i].attempt
                                          ELSE IF i \in free THEN -1 ELSE attempt[i]]
          /\ heard' = [i \in Issues |-> IF i \in s THEN now ELSE IF i \in free THEN 0 ELSE heard[i]]
          /\ events' = [n \in DOMAIN events |-> IF events[n].from \in free
                                                THEN [events[n] EXCEPT !.from = 0] ELSE events[n]]
          /\ LET over == s \cup (IF draining THEN {} ELSE Due \ active) IN
               retry' = [i \in Issues |-> IF i \in over THEN NoRetry ELSE retry[i]]
    BY DEF FetchSucceeds
  <1>3. s \subseteq Issues /\ s \cap Running = {} /\ free \subseteq Running /\ free \in SUBSET Issues
    BY StartsAreNew DEF Running
  <1>4. /\ events' \in Seq(Event) /\ Len(events') = Len(events)
        /\ \A n \in 1..Len(events) :
             /\ events'[n].at = events[n].at
             /\ events'[n].from = IF events[n].from \in free THEN 0 ELSE events[n].from
    BY <1>2, <1>3, EventsRetagged DEF IInv, Core
  <1> HIDE DEF free
  <1>5. Running \ free \subseteq Running' /\ Running' \subseteq (Running \ free) \cup s
    BY <1>2, <1>3 DEF Running
  <1>6. Typed'
    BY <1>1, <1>2, <1>4 DEF IInv, Core, Typed
  <1>7. HeardInTime'
    <2>1. Stall \in Nat /\ polled \in Nat /\ now \in Nat /\ polled <= now
      BY DEF IInv, Core, Typed, ClockBounded
    <2>2. ASSUME NEW i \in Issues
          PROVE  heard'[i] <= now' /\ (i \in Running' => polled' <= heard'[i] + Stall)
      <3>1. CASE i \in s
        BY <1>1, <1>2, <2>1, <3>1
      <3>2. CASE i \notin s /\ i \in free
        BY <1>1, <1>2, <1>5, <2>1, <3>2
      <3>3. CASE i \notin s /\ i \notin free
        BY <1>1, <1>2, <1>5, <2>1, <3>3 DEF IInv, Core, HeardInTime
      <3>4. QED
        BY <3>1, <3>2, <3>3
    <2>3. QED
      BY <2>2 DEF HeardInTime
  <1>8. RetriesRest'
    BY <1>2, <1>5 DEF IInv, Core, RetriesRest, HasRetry
  <1>9. EventsInOrder'
    <2>1. \A n \in 1..Len(events') : events'[n].at <= now'
      BY <1>1, <1>4 DEF IInv, Core, EventsInOrder
    <2>2. ASSUME NEW n \in 1..Len(events'), events'[n].from \in Issues
          PROVE  events'[n].from \in Running' /\ heard'[events'[n].from] <= events'[n].at
      <3>1. events'[n].from = events[n].from /\ events[n].from \notin free
        BY <1>4, <2>2
      <3>2. events[n].from \in Running /\ events[n].from \notin s
        BY <1>3, <1>4, <2>2, <3>1 DEF IInv, Core, EventsInOrder
      <3>3. QED
        BY <1>2, <1>4, <1>5, <2>2, <3>1, <3>2 DEF IInv, Core, EventsInOrder
    <2>3. ASSUME NEW m \in 1..Len(events'), NEW n \in 1..Len(events'), m < n,
                 events'[m].from \in Issues, events'[m].from = events'[n].from
          PROVE  events'[m].at <= events'[n].at
      <3>1. events'[m].from = events[m].from /\ events'[n].from = events[n].from
        BY <1>4, <2>3
      <3>2. QED
        BY <1>4, <2>3, <3>1 DEF IInv, Core, EventsInOrder
    <2>4. QED
      BY <2>1, <2>2, <2>3 DEF EventsInOrder
  <1>10. QED
    BY <1>1, <1>6, <1>7, <1>8, <1>9 DEF IInv, Core

-----------------------------------------------------------------------------
(* The select, the workers and the clock. *)

\* A select that is woken begins a round that is not late.
LEMMA WakeBounds ==
  ASSUME IInv, Wake, UNCHANGED now
  PROVE  polled' = polled /\ poll_at' \in Nat /\ phase' = "round" /\ ClockBounded'
  BY PacingAssumption DEF IInv, Core, Typed, Wake, ClockBounded

LEMMA ReceiveEventPreserves == ASSUME IInv, ReceiveEvent PROVE Core'
  <1>1. polled' = polled /\ poll_at' \in Nat /\ phase' = "round" /\ ClockBounded'
    BY WakeBounds DEF ReceiveEvent
  <1> DEFINE e == Head(events)
  <1>2. /\ UNCHANGED <<now, retry, attempt>>
        /\ heard' = IF e.from \in Issues THEN [heard EXCEPT ![e.from] = e.at] ELSE heard
        /\ events # <<>> /\ events' = Tail(events)
    BY DEF ReceiveEvent, retries
  <1>3. /\ Len(events) \in Nat \ {0} /\ e = events[1] /\ 1 \in 1..Len(events) /\ e \in Event
        /\ events' \in Seq(Event) /\ Len(events') = Len(events) - 1
        /\ \A n \in 1..Len(events') : n + 1 \in 1..Len(events) /\ events'[n] = events[n + 1]
    BY <1>2 DEF IInv, Core, Typed
  <1> HIDE DEF e
  <1>4. /\ e.at \in Nat /\ e.at <= now
        /\ e.from \in Issues => e.from \in Running /\ heard[e.from] <= e.at
    BY <1>3 DEF IInv, Core, EventsInOrder, Event
  <1>5. Typed' /\ RetriesRest'
    BY <1>1, <1>2, <1>3, <1>4 DEF IInv, Core, Typed, RetriesRest, HasRetry, Running
  <1>6. HeardInTime'
    <2>1. /\ HeardInTime /\ polled \in Nat /\ Stall \in Nat
          /\ heard \in [Issues -> Nat] /\ polled' = polled /\ Running' = Running
      BY <1>1, <1>2, PacingAssumption DEF IInv, Core, Typed, Running
    <2>2. ASSUME NEW i \in Running
          PROVE  heard'[i] \in Nat /\ heard[i] \in Nat /\ heard[i] <= heard'[i]
      BY <1>2, <1>4, <2>1, <2>2 DEF Running
    <2>3. HeardInTime' <=> /\ \A i \in Issues : heard'[i] <= now'
                           /\ \A i \in Running' : polled' <= heard'[i] + Stall
      BY DEF HeardInTime, Running
    <2>4. ASSUME NEW i \in Issues PROVE heard'[i] <= now'
      BY <1>2, <1>4, <2>1 DEF HeardInTime
    <2>5. ASSUME NEW i \in Running' PROVE polled' <= heard'[i] + Stall
      <3>1. i \in Issues /\ i \in Running /\ polled <= heard[i] + Stall
        BY <2>1, <2>5 DEF HeardInTime, Running
      <3>2. QED
        BY <2>1, <2>2, <3>1
    <2>6. QED
      BY <2>3, <2>4, <2>5
  <1>7. EventsInOrder'
    <2>1. ASSUME NEW n \in 1..Len(events')
          PROVE  /\ events'[n].at <= now'
                 /\ events'[n].from \in Issues =>
                      events'[n].from \in Running' /\ heard'[events'[n].from] <= events'[n].at
      <3>1. n + 1 \in 1..Len(events) /\ events'[n] = events[n + 1] /\ 1 < n + 1
        BY <1>3
      <3>2. Running' = Running
        BY <1>2 DEF Running
      <3>3. events[n + 1].from \in Issues /\ events[n + 1].from = e.from => e.at <= events[n + 1].at
        BY <1>3, <3>1 DEF IInv, Core, EventsInOrder
      <3>4. QED
        BY <1>2, <3>1, <3>2, <3>3 DEF IInv, Core, EventsInOrder, Typed
    <2>2. ASSUME NEW m \in 1..Len(events'), NEW n \in 1..Len(events'), m < n,
                 events'[m].from \in Issues, events'[m].from = events'[n].from
          PROVE  events'[m].at <= events'[n].at
      <3>1. /\ m + 1 \in 1..Len(events) /\ events'[m] = events[m + 1]
            /\ n + 1 \in 1..Len(events) /\ events'[n] = events[n + 1] /\ m + 1 < n + 1
        BY <1>3, <2>2
      <3>2. EventsInOrder
        BY DEF IInv, Core
      <3>3. QED
        BY <2>2, <3>1, <3>2 DEF EventsInOrder
    <2>3. QED
      BY <2>1, <2>2 DEF EventsInOrder
  <1>8. QED
    BY <1>1, <1>5, <1>6, <1>7 DEF IInv, Core

LEMMA ReceiveOutcomePreserves == ASSUME IInv, ReceiveOutcome PROVE Core'
  <1>1. polled' = polled /\ poll_at' \in Nat /\ phase' = "round" /\ ClockBounded' /\ UNCHANGED now
    BY WakeBounds DEF ReceiveOutcome
  <1>2. PICK i \in Running : WorkerExit({i}, done[i] = "failed")
    BY DEF ReceiveOutcome
  <1>3. {i} \in SUBSET Issues /\ polled' \in Nat /\ \A j \in Running \ {i} : polled' <= heard[j] + Stall
    BY <1>1 DEF IInv, Core, Typed, HeardInTime, Running
  <1>4. /\ events' \in Seq(Event) /\ heard' \in [Issues -> Nat] /\ DOMAIN retry' = Issues
        /\ HeardInTime' /\ EventsInOrder' /\ RetriesRest'
    BY <1>1, <1>2, <1>3, WorkerExitPreserves
  <1>5. Typed'
    BY <1>1, <1>4 DEF IInv, Core, Typed
  <1>6. QED
    BY <1>1, <1>4, <1>5 DEF IInv, Core

LEMMA TimerAndCommandPreserve == ASSUME IInv, TimerFires \/ ReceiveCommand PROVE Core'
  <1>1. Wake /\ UNCHANGED <<now, attempt, heard, events>>
    BY DEF TimerFires, ReceiveCommand, workers
  <1>2. polled' = polled /\ poll_at' \in Nat /\ phase' = "round" /\ ClockBounded'
    BY <1>1, WakeBounds
  <1>3. DOMAIN retry' = Issues /\ \A i \in Issues : retry'[i] = retry[i] \/ HasRetry(i)
    BY DEF TimerFires, ReceiveCommand, retries, IInv, Core, Typed
  <1>4. RetriesRest'
    BY <1>1, <1>3 DEF IInv, Core, RetriesRest, HasRetry, Running
  <1>5. Typed' /\ HeardInTime' /\ EventsInOrder'
    BY <1>1, <1>2, <1>3 DEF IInv, Core, Typed, HeardInTime, EventsInOrder, Running
  <1>6. QED
    BY <1>2, <1>4, <1>5 DEF IInv, Core

LEMMA EmitPreserves == ASSUME IInv, NEW i \in Issues, Emit(i) PROVE Core'
  <1>1. /\ UNCHANGED <<now, phase, polled, poll_at, retry, attempt, heard>> /\ i \in Running
        /\ events' = Append(events, [from |-> i, at |-> now])
    BY DEF Emit, timers, retries
  <1>2. [from |-> i, at |-> now] \in Event
    BY DEF IInv, Core, Typed, Event
  <1>3. /\ events' \in Seq(Event) /\ Len(events) \in Nat /\ Len(events') = Len(events) + 1
        /\ events'[Len(events) + 1] = [from |-> i, at |-> now]
        /\ \A n \in 1..Len(events) : events'[n] = events[n]
    BY <1>1, <1>2 DEF IInv, Core, Typed
  <1>4. Typed' /\ ClockBounded' /\ HeardInTime' /\ RetriesRest'
    BY <1>1, <1>3 DEF IInv, Core, Typed, ClockBounded, HeardInTime, RetriesRest, HasRetry, Running
  <1>5. \A n \in 1..Len(events') : n \in 1..Len(events) \/ events'[n] = [from |-> i, at |-> now]
    BY <1>3
  <1>6. \A n \in 1..Len(events') : LET e == events'[n] IN
          e.at <= now' /\ (e.from \in Issues => e.from \in Running' /\ heard'[e.from] <= e.at)
    <2>1. Running' = Running
      BY <1>1 DEF Running
    <2>2. ASSUME NEW n \in 1..Len(events)
          PROVE  LET e == events'[n] IN
                   e.at <= now' /\ (e.from \in Issues => e.from \in Running' /\ heard'[e.from] <= e.at)
      BY <1>1, <1>3, <2>1 DEF IInv, Core, EventsInOrder
    <2>3. now <= now /\ heard[i] <= now
      BY DEF IInv, Core, Typed, HeardInTime
    <2>4. QED
      BY <1>1, <1>5, <2>1, <2>2, <2>3
  <1>7. ASSUME NEW m \in 1..Len(events'), NEW n \in 1..Len(events'), m < n,
               events'[m].from \in Issues, events'[m].from = events'[n].from
        PROVE  events'[m].at <= events'[n].at
    <2>1. m \in 1..Len(events)
      BY <1>3, <1>7
    <2>2. CASE n \in 1..Len(events)
      BY <1>3, <1>7, <2>1, <2>2 DEF IInv, Core, EventsInOrder
    <2>3. CASE events'[n] = [from |-> i, at |-> now]
      BY <1>3, <2>1, <2>3 DEF IInv, Core, EventsInOrder
    <2>4. QED
      BY <1>5, <2>2, <2>3
  <1>8. QED
    BY <1>4, <1>6, <1>7 DEF IInv, Core, EventsInOrder

LEMMA RestPreserves ==
  ASSUME IInv, (\E i \in Issues : WorkerEnds(i)) \/ PeopleMove \/ UNCHANGED vars
  PROVE  Core'
  <1>1. UNCHANGED <<now, phase, polled, poll_at, retry, attempt, heard, events>>
    BY DEF WorkerEnds, PeopleMove, vars, timers, retries, workers
  <1>2. QED
    BY <1>1 DEF IInv, Core, Typed, ClockBounded, HeardInTime, EventsInOrder, RetriesRest,
                HasRetry, Running

LEMMA SleepPreserves == ASSUME IInv, Sleep PROVE Core'
  <1>1. /\ UNCHANGED <<phase, polled, poll_at, retry, attempt, heard, events>>
        /\ now' = now + 1
        /\ \/ phase = "fetch" /\ now < polled + Latency
           \/ phase = "select" /\ now < poll_at
    BY DEF Sleep, timers, retries, workers
  <1>2. Typed' /\ ClockBounded' /\ HeardInTime' /\ RetriesRest'
    BY <1>1, PacingAssumption
    DEF IInv, Core, Typed, ClockBounded, HeardInTime, RetriesRest, HasRetry, Running
  <1>3. \A n \in 1..Len(events) : events[n].at \in Nat
    <2>1. \A n \in 1..Len(events) : events[n] \in Event
      BY DEF IInv, Core, Typed
    <2>2. QED
      BY <2>1 DEF Event
  <1>4. EventsInOrder'
    BY <1>1, <1>3 DEF IInv, Core, Typed, EventsInOrder, Running
  <1>5. QED
    BY <1>2, <1>4 DEF IInv, Core

\* Only people move issues.
LEMMA ActiveKept == IInv /\ [Next]_vars => active' \subseteq Issues
  BY DEF IInv, Next, vars, BeginRound, FetchFails, FetchSucceeds, TimerFires, ReceiveEvent,
         ReceiveOutcome, ReceiveCommand, Emit, WorkerEnds, Sleep, PeopleMove

LEMMA NextPreserves == IInv /\ [Next]_vars => IInv'
  BY ActiveKept, BeginRoundPreserves, FetchFailsPreserves, FetchSucceedsPreserves,
     ReceiveEventPreserves,
     ReceiveOutcomePreserves, TimerAndCommandPreserve, EmitPreserves, RestPreserves, SleepPreserves
  DEF Next, IInv

LEMMA Inductive == Spec => []IInv
  BY InitEstablishes, NextPreserves, PTL DEF Spec

-----------------------------------------------------------------------------
(* Retries: what is queued is typed, waits have grown, the timer is set. *)

RetryEntry == [due: Nat \cup {Never}, attempt: 0..MaxAttempt + 1, failed: BOOLEAN]

\* What IInv leaves of the type invariant.
RestTyped ==
    /\ now \in Time /\ retry_at \in Nat \cup {Never}
    /\ retry \in [Issues -> RetryEntry]
    /\ attempt \in [Issues -> -1..MaxAttempt + 1]
    /\ done \in [Issues -> {"no", "lost"} \cup Reported]
    /\ Len(events) <= MaxEvents /\ draining \in BOOLEAN
    /\ waited \in [Issues -> Nat]
    /\ Cardinality(Running) <= Slots

\* A retry that is queued has a time.
RetriesDue == \A i \in Issues : HasRetry(i) => retry[i].due \in Nat

\* The last wait of an issue is at most that of the attempt it runs or is queued for.
WaitsGrown == \A i \in Issues :
    /\ i \in Running => attempt[i] \in Nat /\ waited[i] <= FailureDelay(attempt[i])
    /\ HasRetry(i) => waited[i] <= FailureDelay(retry[i].attempt)
    /\ i \notin Running /\ ~HasRetry(i) => waited[i] = 0

RetryTimerSet == phase = "select" => retry_at = NextDue(retry)

RInv == IInv /\ RestTyped /\ RetriesDue /\ WaitsGrown /\ RetryTimerSet

-----------------------------------------------------------------------------
(* Minima, and what the delays are bounded by. *)

LEMMA LeastNumber ==
  ASSUME NEW T \in SUBSET Nat, T # {}
  PROVE  \E m \in T : \A k \in T : m <= k
  <1>1. PICK m \in T : \A k \in T : ~(<<k, m>> \in OpToRel(<, Nat))
    BY NatLessThanWellFounded, WFMin, Zenon
  <1>2. ASSUME NEW k \in T
        PROVE  m <= k
    <2>1. m \in Nat /\ k \in Nat
      OBVIOUS
    <2>2. ~(k < m)
      BY <1>1, <2>1, Zenon DEF OpToRel
    <2>3. QED
      BY <2>1, <2>2
  <1>3. QED
    BY <1>2

LEMMA MinIsLeast ==
  ASSUME NEW T \in SUBSET Nat, T # {}
  PROVE  Min(T) \in T /\ \A k \in T : Min(T) <= k
  BY LeastNumber DEF Min

LEMMA MinOfTwo ==
  ASSUME NEW x \in Nat, NEW y \in Nat
  PROVE  Min({x, y}) = IF x <= y THEN x ELSE y
  <1>1. Min({x, y}) \in {x, y} /\ \A k \in {x, y} : Min({x, y}) <= k
    <2>1. {x, y} \in SUBSET Nat /\ {x, y} # {}
      OBVIOUS
    <2> DEFINE two == {x, y}
    <2> HIDE DEF two
    <2>2. Min(two) \in two /\ \A k \in two : Min(two) <= k
      BY <2>1, MinIsLeast DEF two
    <2>3. QED
      BY <2>2 DEF two
  <1>2. QED
    BY <1>1

LEMMA MaxOfTwo ==
  ASSUME NEW x \in Int, NEW y \in Int
  PROVE  Max({x, y}) = IF x <= y THEN y ELSE x
  <1>1. \E m \in {x, y} : \A k \in {x, y} : m >= k
    BY x <= y \/ y <= x
  <1>2. Max({x, y}) \in {x, y} /\ \A k \in {x, y} : Max({x, y}) >= k
    BY <1>1 DEF Max
  <1>3. QED
    BY <1>2

\* d holds the doublings of 1 up to m.
IsDoubling(d, m) ==
    /\ d \in [0..m -> Nat] /\ d[0] = 1
    /\ \A n \in 1..m : d[n] = 2 * d[n - 1]

LEMMA DoublingExists == \A m \in Nat : \E d : IsDoubling(d, m)
  <1> DEFINE T == {m \in Nat : ~ \E d : IsDoubling(d, m)}
  <1>1. SUFFICES ASSUME T # {} PROVE FALSE
    OBVIOUS
  <1>2. PICK m \in T : \A k \in T : m <= k
    <2>1. T \in SUBSET Nat
      OBVIOUS
    <2> HIDE DEF T
    <2>2. QED
      BY <1>1, <2>1, LeastNumber
  <1>3. m \in Nat /\ ~ \E d : IsDoubling(d, m)
    BY <1>2
  <1>4. CASE m = 0
    <2>1. IsDoubling([n \in 0..0 |-> 1], 0)
      BY DEF IsDoubling
    <2>2. QED
      BY <1>3, <1>4, <2>1
  <1>5. CASE m # 0
    <2>1. m - 1 \in Nat /\ m - 1 \notin T
      BY <1>2, <1>3, <1>5
    <2>2. PICK d : IsDoubling(d, m - 1)
      BY <2>1
    <2> DEFINE t == [n \in 0..m |-> IF n = m THEN 2 * d[m - 1] ELSE d[n]]
    <2>3. \A n \in 0..m - 1 : d[n] \in Nat
      BY <2>2 DEF IsDoubling
    <2>4. m - 1 \in 0..m - 1 /\ \A n \in 0..m : n = m \/ n \in 0..m - 1
      BY <1>3, <1>5
    <2>5. t \in [0..m -> Nat]
      BY <2>3, <2>4
    <2>6. t[0] = 1
      BY <1>3, <1>5, <2>2 DEF IsDoubling
    <2>7. ASSUME NEW n \in 1..m PROVE t[n] = 2 * t[n - 1]
      <3>1. n \in 0..m /\ n - 1 \in 0..m /\ n - 1 # m /\ (n = m \/ n \in 1..m - 1)
        BY <1>3
      <3>2. t[n - 1] = d[n - 1]
        BY <3>1
      <3>3. n # m => t[n] = d[n] /\ d[n] = 2 * d[n - 1]
        BY <2>2, <3>1 DEF IsDoubling
      <3>4. QED
        BY <3>1, <3>2, <3>3
    <2> HIDE DEF t
    <2>8. IsDoubling(t, m)
      BY <2>5, <2>6, <2>7 DEF IsDoubling
    <2>9. QED
      BY <1>3, <2>8
  <1>6. QED
    BY <1>4, <1>5

LEMMA FactorIs ==
  /\ Factor \in [0..MaxShift - 1 -> Nat] /\ Factor[0] = 1
  /\ \A n \in 1..MaxShift - 1 : Factor[n] = 2 * Factor[n - 1]
  <1> DEFINE Doubles(f) == f = [n \in 0..MaxShift - 1 |-> IF n = 0 THEN 1 ELSE 2 * f[n - 1]]
  <1>1. MaxShift \in Nat \ {0}
    BY PacingAssumption
  <1>2. PICK d : IsDoubling(d, MaxShift - 1)
    BY <1>1, DoublingExists
  <1>3. Doubles(d)
    <2>1. \A n \in 0..MaxShift - 1 : d[n] = IF n = 0 THEN 1 ELSE 2 * d[n - 1]
      BY <1>1, <1>2 DEF IsDoubling
    <2>2. d = [n \in 0..MaxShift - 1 |-> d[n]]
      BY <1>2 DEF IsDoubling
    <2>3. QED
      BY <2>1, <2>2
  <1>4. Factor = CHOOSE f : Doubles(f)
    BY DEF Factor
  <1>5. Doubles(Factor)
    <2> HIDE DEF Doubles
    <2>1. QED
      BY <1>3, <1>4
  <1>6. Factor = d
    <2> DEFINE T == {n \in 0..MaxShift - 1 : Factor[n] # d[n]}
    <2>1. SUFFICES ASSUME T # {} PROVE FALSE
      <3>1. \A n \in 0..MaxShift - 1 : Factor[n] = d[n]
        BY <2>1
      <3>2. Factor = [n \in 0..MaxShift - 1 |-> Factor[n]] /\ d = [n \in 0..MaxShift - 1 |-> d[n]]
        BY <1>5, <1>2 DEF IsDoubling
      <3>3. QED
        BY <3>1, <3>2
    <2>2. PICK m \in T : \A k \in T : m <= k
      <3>1. T \in SUBSET Nat
        BY <1>1
      <3> HIDE DEF T
      <3>2. QED
        BY <2>1, <3>1, LeastNumber
    <2>3. m \in 0..MaxShift - 1 /\ Factor[m] # d[m]
      BY <2>2
    <2>4. Factor[0] = 1 /\ d[0] = 1
      BY <1>1, <1>5, <1>2 DEF IsDoubling
    <2>5. m \in 1..MaxShift - 1 /\ m - 1 \in 0..MaxShift - 1 /\ m - 1 \notin T
      BY <1>1, <2>2, <2>3, <2>4
    <2>6. Factor[m - 1] = d[m - 1]
      BY <2>5
    <2>7. Factor[m] = 2 * Factor[m - 1]
      BY <1>1, <1>5, <2>5
    <2>8. d[m] = 2 * d[m - 1]
      BY <1>2, <2>5 DEF IsDoubling
    <2>9. QED
      BY <2>3, <2>6, <2>7, <2>8
  <1>7. QED
    BY <1>2, <1>6 DEF IsDoubling

LEMMA FactorGrows ==
  ASSUME NEW a \in 0..MaxShift - 1, NEW b \in 0..MaxShift - 1, a <= b
  PROVE  Factor[a] <= Factor[b]
  <1> DEFINE T == {n \in 0..MaxShift - 1 : a <= n /\ ~(Factor[a] <= Factor[n])}
  <1>1. MaxShift \in Nat \ {0}
    BY PacingAssumption
  <1>2. SUFFICES ASSUME T # {} PROVE FALSE
    OBVIOUS
  <1>3. PICK m \in T : \A k \in T : m <= k
    <2>1. T \in SUBSET Nat
      BY <1>1
    <2> HIDE DEF T
    <2>2. QED
      BY <1>2, <2>1, LeastNumber
  <1>4. m \in 0..MaxShift - 1 /\ a <= m /\ ~(Factor[a] <= Factor[m])
    BY <1>3
  <1>5. Factor[a] \in Nat /\ Factor[m] \in Nat
    BY <1>4, FactorIs
  <1>6. m # a
    BY <1>4, <1>5
  <1>7. m - 1 \in 0..MaxShift - 1 /\ a <= m - 1 /\ m \in 1..MaxShift - 1 /\ m - 1 \notin T
    BY <1>1, <1>3, <1>4, <1>6
  <1>8. Factor[a] <= Factor[m - 1] /\ Factor[m - 1] \in Nat /\ Factor[m] = 2 * Factor[m - 1]
    BY <1>7, FactorIs
  <1>9. QED
    BY <1>4, <1>5, <1>8

LEMMA ProductGrows ==
  ASSUME NEW b \in Nat, NEW x \in Nat, NEW y \in Nat, x <= y
  PROVE  b * x \in Nat /\ b * y \in Nat /\ b * x <= b * y
  <1>1. y - x \in Nat /\ b * (y - x) \in Nat /\ b * x \in Nat
    OBVIOUS
  <1>2. b * y = b * x + b * (y - x)
    OBVIOUS
  <1>3. QED
    BY <1>1, <1>2

\* A longer row of failures waits as long at least, and never beyond the maximum.
LEMMA DelayGrows ==
  ASSUME NEW a \in Nat, NEW b \in Nat, a <= b
  PROVE  FailureDelay(a) \in 0..MaxBackoff /\ FailureDelay(b) \in 0..MaxBackoff
         /\ FailureDelay(a) <= FailureDelay(b)
  <1>1. /\ MaxShift \in Nat \ {0} /\ Word \in Nat /\ MaxBackoff \in 0..Word /\ MaxBackoff \in Nat
        /\ Base \in Nat
    BY PacingAssumption
  <1>2. ASSUME NEW n \in Nat
        PROVE  Shift(n) = IF n <= 1 THEN 0 ELSE IF n <= MaxShift THEN n - 1 ELSE MaxShift - 1
    <2>1. Min({n, MaxShift}) = IF n <= MaxShift THEN n ELSE MaxShift
      BY <1>1, MinOfTwo
    <2> DEFINE least == Min({n, MaxShift})
    <2>2. least \in Nat
      BY <1>1, <2>1
    <2> HIDE DEF least
    <2>3. Max({1, least}) = IF 1 <= least THEN least ELSE 1
      BY <2>2, MaxOfTwo
    <2>4. Shift(n) = Max({1, least}) - 1
      BY DEF Shift, least
    <2>5. least = IF n <= MaxShift THEN n ELSE MaxShift
      BY <2>1 DEF least
    <2>6. QED
      BY <1>1, <2>3, <2>4, <2>5
  <1>3. Shift(a) \in 0..MaxShift - 1 /\ Shift(b) \in 0..MaxShift - 1 /\ Shift(a) <= Shift(b)
    BY <1>1, <1>2
  <1>4. /\ Factor[Shift(a)] \in Nat /\ Factor[Shift(b)] \in Nat
        /\ Factor[Shift(a)] <= Factor[Shift(b)]
    BY <1>3, FactorIs, FactorGrows
  <1> DEFINE x == Base * Factor[Shift(a)]
             y == Base * Factor[Shift(b)]
  <1>5. x \in Nat /\ y \in Nat /\ x <= y
    BY <1>1, <1>4, ProductGrows
  <1>6. FailureDelay(a) = Min({Saturated(x), MaxBackoff}) /\ FailureDelay(b) = Min({Saturated(y), MaxBackoff})
    BY DEF FailureDelay
  <1> HIDE DEF x, y
  <1>7. /\ Saturated(x) = IF x <= Word THEN x ELSE Word
        /\ Saturated(y) = IF y <= Word THEN y ELSE Word
    BY <1>1, <1>5, MinOfTwo DEF Saturated
  <1>8. Saturated(x) \in Nat /\ Saturated(y) \in Nat /\ Saturated(x) <= Saturated(y)
    BY <1>1, <1>5, <1>7
  <1>9. /\ FailureDelay(a) = IF Saturated(x) <= MaxBackoff THEN Saturated(x) ELSE MaxBackoff
        /\ FailureDelay(b) = IF Saturated(y) <= MaxBackoff THEN Saturated(y) ELSE MaxBackoff
    BY <1>1, <1>6, <1>8, MinOfTwo
  <1>10. QED
    BY <1>1, <1>8, <1>9

-----------------------------------------------------------------------------
(* The steps. *)

LEMMA NextDueIsLeast ==
  ASSUME NEW r \in [Issues -> RetryEntry], \A i \in Issues : r[i] # NoRetry => r[i].due \in Nat
  PROVE  /\ NextDue(r) \in Nat \cup {Never}
         /\ \A i \in Issues : r[i] # NoRetry => NextDue(r) \in Nat /\ NextDue(r) <= r[i].due
  <1> DEFINE dues == {r[i].due : i \in {j \in Issues : r[j] # NoRetry}}
  <1>1. dues \in SUBSET Nat /\ \A i \in Issues : r[i] # NoRetry => r[i].due \in dues
    OBVIOUS
  <1>2. NextDue(r) = IF dues = {} THEN Never ELSE Min(dues)
    BY DEF NextDue, EarliestDue
  <1> HIDE DEF dues
  <1>3. CASE dues = {}
    BY <1>1, <1>2, <1>3
  <1>4. CASE dues # {}
    <2>1. Min(dues) \in dues /\ \A k \in dues : Min(dues) <= k
      BY <1>1, <1>4, MinIsLeast
    <2>2. QED
      BY <1>1, <1>2, <1>4, <2>1
  <1>5. QED
    BY <1>3, <1>4

LEMMA RunningFinite == IsFiniteSet(Running) /\ Cardinality(Running) \in Nat
  BY PacingAssumption, FS_Subset, FS_CardinalityType DEF Running

LEMMA RunningShrinks ==
  ASSUME RestTyped, Running' \subseteq Running
  PROVE  Cardinality(Running') <= Slots
  <1>1. IsFiniteSet(Running') /\ Cardinality(Running') <= Cardinality(Running)
    BY RunningFinite, FS_Subset
  <1>2. Cardinality(Running') \in Nat
    BY <1>1, FS_CardinalityType
  <1>3. QED
    BY <1>1, <1>2, RunningFinite, PacingAssumption DEF RestTyped

\* The entry left by a worker is typed, has a time, and its wait is that of its attempt.
LEMMA AfterExitIs ==
  ASSUME RInv, NEW i \in Running, attempt[i] < MaxAttempt, NEW failed \in BOOLEAN
  PROVE  /\ AfterExit(i, failed) \in RetryEntry /\ AfterExit(i, failed).due \in Nat
         /\ AfterExit(i, failed) # NoRetry
         /\ (IF failed THEN FailureDelay(attempt[i] + 1) ELSE 0) \in Nat
         /\ (IF failed THEN FailureDelay(attempt[i] + 1) ELSE 0)
                <= FailureDelay(AfterExit(i, failed).attempt)
         /\ attempt[i] \in Nat
  <1>1. /\ i \in Issues /\ attempt[i] \in Nat /\ attempt[i] + 1 \in 1..MaxAttempt + 1
        /\ 1 \in 0..MaxAttempt + 1 /\ now \in Nat /\ Continuation \in Nat /\ MaxBackoff \in Nat
    <2>1. i \in Issues /\ attempt[i] \in -1..MaxAttempt + 1 /\ attempt[i] # -1
      BY DEF RInv, RestTyped, Running
    <2>2. MaxAttempt \in Nat /\ Continuation \in Nat /\ MaxBackoff \in Nat
      BY PacingAssumption
    <2>3. now \in Nat
      BY DEF RInv, IInv, Core, Typed
    <2>4. QED
      BY <2>1, <2>2, <2>3
  <1>2. FailureDelay(attempt[i] + 1) \in Nat /\ FailureDelay(1) \in Nat
    <2>1. attempt[i] + 1 \in Nat /\ 1 \in Nat
      BY <1>1
    <2>2. FailureDelay(attempt[i] + 1) \in 0..MaxBackoff /\ FailureDelay(1) \in 0..MaxBackoff
      BY <2>1, DelayGrows
    <2>3. QED
      BY <1>1, <2>2
  <1>3. CASE failed
    <2>1. AfterExit(i, failed) = [due |-> now + FailureDelay(attempt[i] + 1),
                                  attempt |-> attempt[i] + 1, failed |-> TRUE]
      BY <1>3 DEF AfterExit
    <2>2. now + FailureDelay(attempt[i] + 1) \in Nat
      BY <1>1, <1>2
    <2>3. attempt[i] + 1 \in 0..MaxAttempt + 1
      BY <1>1
    <2>4. AfterExit(i, failed) \in RetryEntry /\ AfterExit(i, failed).due \in Nat
      BY <2>1, <2>2, <2>3 DEF RetryEntry
    <2>5. AfterExit(i, failed) # NoRetry
      BY <2>2, <2>4 DEF NoRetry, Never
    <2>6. FailureDelay(AfterExit(i, failed).attempt) = FailureDelay(attempt[i] + 1)
      BY <2>1
    <2>7. (IF failed THEN FailureDelay(attempt[i] + 1) ELSE 0) = FailureDelay(attempt[i] + 1)
      BY <1>3
    <2>8. QED
      BY <1>1, <1>2, <2>4, <2>5, <2>6, <2>7
  <1>4. CASE ~failed
    <2>1. AfterExit(i, failed) = [due |-> now + Continuation, attempt |-> 1, failed |-> FALSE]
      BY <1>4 DEF AfterExit
    <2>2. now + Continuation \in Nat
      BY <1>1
    <2>3. 1 \in 0..MaxAttempt + 1
      BY <1>1
    <2>4. AfterExit(i, failed) \in RetryEntry /\ AfterExit(i, failed).due \in Nat
      BY <2>1, <2>2, <2>3 DEF RetryEntry
    <2>5. AfterExit(i, failed) # NoRetry
      BY <2>2, <2>4 DEF NoRetry, Never
    <2>6. FailureDelay(AfterExit(i, failed).attempt) = FailureDelay(1)
      BY <2>1
    <2>7. (IF failed THEN FailureDelay(attempt[i] + 1) ELSE 0) = 0
      BY <1>4
    <2>8. QED
      BY <1>1, <1>2, <2>4, <2>5, <2>6, <2>7
  <1>5. QED
    BY <1>3, <1>4

LEMMA WorkerExitKeeps ==
  ASSUME RInv, NEW gone \in SUBSET Running, NEW failed \in BOOLEAN, WorkerExit(gone, failed)
  PROVE  /\ retry' \in [Issues -> RetryEntry] /\ attempt' \in [Issues -> -1..MaxAttempt + 1]
         /\ done' \in [Issues -> {"no", "lost"} \cup Reported] /\ waited' \in [Issues -> Nat]
         /\ Len(events') = Len(events) /\ Cardinality(Running') <= Slots
         /\ RetriesDue' /\ WaitsGrown'
  <1>1. /\ \A i \in gone : i \in Issues /\ i \in Running /\ attempt[i] < MaxAttempt
        /\ retry' = [i \in Issues |-> IF i \in gone THEN AfterExit(i, failed) ELSE retry[i]]
        /\ waited' = [i \in Issues |-> IF i \notin gone THEN waited[i]
                                       ELSE IF failed THEN FailureDelay(attempt[i] + 1) ELSE 0]
        /\ attempt' = [i \in Issues |-> IF i \in gone THEN -1 ELSE attempt[i]]
        /\ done' = [i \in Issues |-> IF i \in gone THEN "no" ELSE done[i]]
    BY DEF WorkerExit, Stop, Running
  <1>2. \A i \in gone :
          /\ AfterExit(i, failed) \in RetryEntry /\ AfterExit(i, failed).due \in Nat
          /\ AfterExit(i, failed) # NoRetry
          /\ (IF failed THEN FailureDelay(attempt[i] + 1) ELSE 0) \in Nat
          /\ (IF failed THEN FailureDelay(attempt[i] + 1) ELSE 0)
                 <= FailureDelay(AfterExit(i, failed).attempt)
    BY <1>1, AfterExitIs
  <1>3. Running' = Running \ gone
    BY <1>1 DEF Running
  <1>4. retry' \in [Issues -> RetryEntry]
    BY <1>1, <1>2 DEF RInv, RestTyped
  <1>5. attempt' \in [Issues -> -1..MaxAttempt + 1]
    <2>1. attempt \in [Issues -> -1..MaxAttempt + 1] /\ -1 \in -1..MaxAttempt + 1
      BY PacingAssumption DEF RInv, RestTyped
    <2>2. QED
      BY <1>1, <2>1
  <1>6. done' \in [Issues -> {"no", "lost"} \cup Reported]
    BY <1>1 DEF RInv, RestTyped
  <1>7. waited' \in [Issues -> Nat]
    BY <1>1, <1>2 DEF RInv, RestTyped
  <1>8. Len(events') = Len(events)
    <2>1. events' = [n \in DOMAIN events |->
                       IF events[n].from \in gone THEN [events[n] EXCEPT !.from = 0] ELSE events[n]]
      BY DEF WorkerExit, Stop
    <2>2. gone \in SUBSET Issues /\ Typed
      BY <1>1 DEF RInv, IInv, Core
    <2>3. QED
      BY <2>1, <2>2, EventsRetagged
  <1>9. Cardinality(Running') <= Slots
    BY <1>3, RunningShrinks DEF RInv
  <1>10. RetriesDue'
    BY <1>1, <1>2 DEF RInv, RetriesDue, HasRetry
  <1>11. ASSUME NEW i \in Issues
         PROVE  /\ i \in Running' => attempt'[i] \in Nat /\ waited'[i] <= FailureDelay(attempt'[i])
                /\ HasRetry(i)' => waited'[i] <= FailureDelay(retry'[i].attempt)
                /\ i \notin Running' /\ ~HasRetry(i)' => waited'[i] = 0
    <2>1. CASE i \in gone
      BY <1>1, <1>2, <1>3, <2>1 DEF HasRetry
    <2>2. CASE i \notin gone
      BY <1>1, <1>3, <2>2 DEF HasRetry, RInv, WaitsGrown
    <2>3. QED
      BY <2>1, <2>2
  <1>12. WaitsGrown'
    BY <1>11 DEF WaitsGrown
  <1>13. QED
    BY <1>4, <1>5, <1>6, <1>7, <1>8, <1>9, <1>10, <1>12

RKept == RestTyped /\ RetriesDue /\ WaitsGrown /\ RetryTimerSet

LEMMA BeginRoundKeeps == ASSUME RInv, BeginRound PROVE RKept'
  <1> DEFINE gone == {i \in Running : IsStalled(i)}
  <1>1. /\ gone \in SUBSET Running /\ WorkerExit(gone, TRUE) /\ phase' = "fetch"
        /\ UNCHANGED <<now, retry_at, draining>>
    BY DEF BeginRound
  <1> HIDE DEF gone
  <1>2. /\ retry' \in [Issues -> RetryEntry] /\ attempt' \in [Issues -> -1..MaxAttempt + 1]
        /\ done' \in [Issues -> {"no", "lost"} \cup Reported] /\ waited' \in [Issues -> Nat]
        /\ Len(events') = Len(events) /\ Cardinality(Running') <= Slots
        /\ RetriesDue' /\ WaitsGrown'
    BY <1>1, WorkerExitKeeps
  <1>3. RestTyped' /\ RetryTimerSet'
    BY <1>1, <1>2 DEF RInv, RestTyped, RetryTimerSet
  <1>4. QED
    BY <1>2, <1>3 DEF RKept

LEMMA ReceiveOutcomeKeeps == ASSUME RInv, ReceiveOutcome PROVE RKept'
  <1>1. PICK i \in Running : WorkerExit({i}, done[i] = "failed")
    BY DEF ReceiveOutcome
  <1>2. {i} \in SUBSET Running /\ (done[i] = "failed") \in BOOLEAN
        /\ phase' = "round" /\ retry_at' = Never /\ UNCHANGED <<now, draining>>
    BY DEF ReceiveOutcome, Wake
  <1>3. /\ retry' \in [Issues -> RetryEntry] /\ attempt' \in [Issues -> -1..MaxAttempt + 1]
        /\ done' \in [Issues -> {"no", "lost"} \cup Reported] /\ waited' \in [Issues -> Nat]
        /\ Len(events') = Len(events) /\ Cardinality(Running') <= Slots
        /\ RetriesDue' /\ WaitsGrown'
    BY <1>1, <1>2, WorkerExitKeeps
  <1>4. RestTyped' /\ RetryTimerSet'
    BY <1>2, <1>3 DEF RInv, RestTyped, RetryTimerSet
  <1>5. QED
    BY <1>3, <1>4 DEF RKept

\* A fetch that failed lets every due retry wait longer.
LEMMA FetchFailsKeeps == ASSUME RInv, FetchFails PROVE RKept'
  <1>1. /\ phase' = "select" /\ retry_at' = NextDue(retry')
        /\ \A i \in Due : retry[i].attempt <= MaxAttempt
        /\ retry' = [i \in Issues |-> IF i \in Due
                       THEN [due |-> now + FailureDelay(retry[i].attempt + 1),
                             attempt |-> retry[i].attempt + 1, failed |-> TRUE]
                       ELSE retry[i]]
        /\ waited' = [i \in Issues |-> IF i \in Due THEN FailureDelay(retry[i].attempt + 1)
                                       ELSE waited[i]]
        /\ UNCHANGED <<now, attempt, done, events, draining>>
    BY DEF FetchFails, SetTimers, workers
  <1>2. Running' = Running
    BY <1>1 DEF Running
  <1>3. ASSUME NEW i \in Due
        PROVE  /\ i \in Issues /\ HasRetry(i) /\ i \notin Running
               /\ retry'[i] \in RetryEntry /\ retry'[i].due \in Nat /\ retry'[i] # NoRetry
               /\ waited'[i] \in Nat /\ waited'[i] <= FailureDelay(retry'[i].attempt)
    <2>1. i \in Issues /\ HasRetry(i) /\ i \notin Running
      BY DEF Due, RInv, IInv, Core, RetriesRest
    <2>2. retry[i] \in RetryEntry /\ retry[i].attempt <= MaxAttempt
      BY <1>1, <2>1 DEF RInv, RestTyped
    <2>3. retry[i].attempt + 1 \in 0..MaxAttempt + 1 /\ retry[i].attempt + 1 \in Nat
      BY <2>2, PacingAssumption DEF RetryEntry
    <2>4. FailureDelay(retry[i].attempt + 1) \in Nat
      <3>1. FailureDelay(retry[i].attempt + 1) \in 0..MaxBackoff
        BY <2>3, DelayGrows
      <3>2. MaxBackoff \in Nat
        BY PacingAssumption
      <3>3. QED
        BY <3>1, <3>2
    <2>5. now + FailureDelay(retry[i].attempt + 1) \in Nat
      BY <2>4 DEF RInv, IInv, Core, Typed
    <2>6. /\ retry'[i] = [due |-> now + FailureDelay(retry[i].attempt + 1),
                          attempt |-> retry[i].attempt + 1, failed |-> TRUE]
          /\ waited'[i] = FailureDelay(retry[i].attempt + 1)
      BY <1>1, <2>1
    <2>7. retry'[i] \in RetryEntry /\ retry'[i].due \in Nat
      BY <2>3, <2>5, <2>6 DEF RetryEntry
    <2>8. FailureDelay(retry'[i].attempt) = FailureDelay(retry[i].attempt + 1)
      BY <2>6
    <2>9. QED
      BY <2>1, <2>4, <2>6, <2>7, <2>8 DEF NoRetry, Never
  <1>4. \A i \in Issues \ Due : retry'[i] = retry[i] /\ waited'[i] = waited[i]
    BY <1>1
  <1>5. retry' \in [Issues -> RetryEntry]
    <2>1. \A i \in Issues : retry'[i] \in RetryEntry
      BY <1>3, <1>4 DEF RInv, RestTyped
    <2>2. retry' = [i \in Issues |-> retry'[i]]
      BY <1>1
    <2>3. QED
      BY <2>1, <2>2
  <1>6. waited' \in [Issues -> Nat]
    <2>1. \A i \in Issues : waited'[i] \in Nat
      BY <1>3, <1>4 DEF RInv, RestTyped
    <2>2. waited' = [i \in Issues |-> waited'[i]]
      BY <1>1
    <2>3. QED
      BY <2>1, <2>2
  <1>7. RetriesDue'
    BY <1>3, <1>4 DEF RInv, RetriesDue, HasRetry
  <1>8. WaitsGrown'
    <2>1. ASSUME NEW i \in Issues
          PROVE  /\ i \in Running' => attempt'[i] \in Nat /\ waited'[i] <= FailureDelay(attempt'[i])
                 /\ HasRetry(i)' => waited'[i] <= FailureDelay(retry'[i].attempt)
                 /\ i \notin Running' /\ ~HasRetry(i)' => waited'[i] = 0
      <3>1. CASE i \in Due
        BY <1>2, <1>3, <3>1 DEF HasRetry
      <3>2. CASE i \notin Due
        BY <1>1, <1>2, <1>4, <3>2 DEF HasRetry, RInv, WaitsGrown
      <3>3. QED
        BY <3>1, <3>2
    <2>2. QED
      BY <2>1 DEF WaitsGrown
  <1>9. NextDue(retry') \in Nat \cup {Never}
    BY <1>5, <1>7, NextDueIsLeast DEF RetriesDue, HasRetry
  <1>10. RestTyped'
    BY <1>1, <1>2, <1>5, <1>6, <1>9 DEF RInv, RestTyped
  <1>11. RetryTimerSet'
    BY <1>1 DEF RetryTimerSet
  <1>12. QED
    BY <1>7, <1>8, <1>10, <1>11 DEF RKept

\* A dispatch starts no more than there are slots for.
LEMMA SlotsRespected ==
  ASSUME RInv, NEW free \in SUBSET Running, NEW s \in Starts(free)
  PROVE  Cardinality((Running \ free) \cup s) <= Slots
  <1>1. IsFiniteSet(Running) /\ Cardinality(Running) \in Nat
    BY RunningFinite
  <1>2. IsFiniteSet(free) /\ Cardinality(free) \in Nat /\ Cardinality(free) <= Cardinality(Running)
    BY <1>1, FS_Subset, FS_CardinalityType
  <1>3. Cardinality(Running \ free) = Cardinality(Running) - Cardinality(free)
        /\ IsFiniteSet(Running \ free)
    <2>1. Running \cap free = free
      OBVIOUS
    <2>2. QED
      BY <1>1, <2>1, FS_Difference
  <1>4. s \subseteq Issues /\ s \cap Running = {}
    BY StartsAreNew DEF RInv
  <1>5. IsFiniteSet(s) /\ Cardinality(s) \in Nat
    BY <1>4, PacingAssumption, FS_Subset, FS_CardinalityType
  <1> DEFINE new == {i \in active \ Running : ~HasRetry(i)}
             all == new \cup (Due \cap active)
             room == Max({0, Slots - (Cardinality(Running) - Cardinality(free))})
  <1>6. Cardinality(s) = Min({room, Cardinality(all)})
    BY DEF Starts
  <1>7. Slots - (Cardinality(Running) - Cardinality(free)) \in Nat
    BY <1>1, <1>2, PacingAssumption DEF RInv, RestTyped
  <1>8. room = Slots - (Cardinality(Running) - Cardinality(free))
    BY <1>7, MaxOfTwo
  <1>9. Cardinality(all) \in Nat
    <2>1. all \subseteq Issues
      BY DEF RInv, IInv, Due
    <2> HIDE DEF all
    <2>2. QED
      BY <2>1, PacingAssumption, FS_Subset, FS_CardinalityType
  <1> HIDE DEF all, room
  <1>10. Cardinality(s) <= room
    BY <1>6, <1>7, <1>8, <1>9, MinOfTwo
  <1>11. Cardinality((Running \ free) \cup s) = Cardinality(Running \ free) + Cardinality(s)
    <2>1. (Running \ free) \cap s = {}
      BY <1>4
    <2>2. Cardinality((Running \ free) \cap s) = 0
      BY <2>1, FS_EmptySet
    <2> DEFINE old == Running \ free
    <2>3. IsFiniteSet(old) /\ IsFiniteSet(s) /\ Cardinality(old) \in Nat
      BY <1>3, <1>5, FS_CardinalityType
    <2>4. Cardinality(old \cap s) = 0
      BY <2>2
    <2> HIDE DEF old
    <2>5. Cardinality(old \cup s) = Cardinality(old) + Cardinality(s) - Cardinality(old \cap s)
      BY <2>3, FS_Union
    <2>6. Cardinality(old \cup s) = Cardinality(old) + Cardinality(s)
      BY <1>5, <2>3, <2>4, <2>5
    <2>7. QED
      BY <2>6 DEF old
  <1>12. QED
    BY <1>1, <1>2, <1>3, <1>5, <1>8, <1>10, <1>11, PacingAssumption

\* Runs that stopped being wanted leave no wait; a due retry starts, stays, or is released.
LEMMA FetchSucceedsKeeps == ASSUME RInv, FetchSucceeds PROVE RKept'
  <1> DEFINE free == Running \ active
  <1>1. PICK s \in IF draining THEN {{}} ELSE Starts(free) :
          /\ attempt' = [i \in Issues |-> IF i \in s THEN retry[i].attempt
                                          ELSE IF i \in free THEN -1 ELSE attempt[i]]
          /\ done' = [i \in Issues |-> IF i \in s \cup free THEN "no" ELSE done[i]]
          /\ events' = [n \in DOMAIN events |-> IF events[n].from \in free
                                                THEN [events[n] EXCEPT !.from = 0] ELSE events[n]]
          /\ LET over == s \cup (IF draining THEN {} ELSE Due \ active) IN
               /\ retry' = [i \in Issues |-> IF i \in over THEN NoRetry ELSE retry[i]]
               /\ waited' = [i \in Issues |-> IF i \in free \cup (over \ s) THEN 0 ELSE waited[i]]
    BY DEF FetchSucceeds
  <1>2. phase' = "select" /\ retry_at' = NextDue(retry') /\ UNCHANGED <<now, draining>>
    BY DEF FetchSucceeds, SetTimers
  <1> DEFINE released == IF draining THEN {} ELSE Due \ active
  <1>3. /\ retry' = [i \in Issues |-> IF i \in s \cup released THEN NoRetry ELSE retry[i]]
        /\ waited' = [i \in Issues |-> IF i \in free \cup ((s \cup released) \ s) THEN 0 ELSE waited[i]]
    BY <1>1
  <1>4. /\ free \in SUBSET Running /\ s \subseteq Issues /\ s \cap Running = {}
        /\ released \cap Running = {}
    BY StartsAreNew DEF RInv, IInv, Core, RetriesRest, Due
  <1>5. Cardinality((Running \ free) \cup s) <= Slots
    <2>1. CASE draining
      <3>1. s = {}
        BY <2>1
      <3>2. Running \ free \subseteq Running /\ (Running \ free) \cup s = Running \ free
        BY <3>1
      <3>3. Cardinality(Running \ free) <= Cardinality(Running) /\ Cardinality(Running \ free) \in Nat
        BY <3>2, RunningFinite, FS_Subset, FS_CardinalityType
      <3>4. Cardinality(Running) <= Slots /\ Slots \in Nat /\ Cardinality(Running) \in Nat
        BY RunningFinite, PacingAssumption DEF RInv, RestTyped
      <3>5. Cardinality(Running \ free) <= Slots
        BY <3>3, <3>4
      <3>6. QED
        BY <3>2, <3>5
    <2>2. CASE ~draining
      BY <1>4, <2>2, SlotsRespected
    <2>3. QED
      BY <2>1, <2>2
  <1>6. Len(events') = Len(events)
    BY <1>1, EventsRetagged DEF RInv, IInv, Core, Running
  <1> HIDE DEF free, released
  <1>7. \A i \in Issues : /\ retry[i] \in RetryEntry /\ retry[i].attempt \in 0..MaxAttempt + 1
                          /\ retry[i].attempt \in Nat
    <2>1. \A i \in Issues : retry[i] \in RetryEntry
      BY DEF RInv, RestTyped
    <2>2. \A i \in Issues : retry[i].attempt \in 0..MaxAttempt + 1
      BY <2>1 DEF RetryEntry
    <2>3. \A n \in 0..MaxAttempt + 1 : n \in Nat
      BY PacingAssumption
    <2>4. QED
      BY <2>1, <2>2, <2>3
  <1>8. NoRetry \in RetryEntry
    BY PacingAssumption DEF NoRetry, RetryEntry
  <1>9. retry' \in [Issues -> RetryEntry]
    BY <1>3, <1>7, <1>8
  <1>10. attempt' \in [Issues -> -1..MaxAttempt + 1]
    <2>1. -1 \in -1..MaxAttempt + 1 /\ \A n \in 0..MaxAttempt + 1 : n \in -1..MaxAttempt + 1
      BY PacingAssumption
    <2>2. \A i \in Issues : retry[i].attempt \in -1..MaxAttempt + 1
      BY <1>7, <2>1
    <2>3. attempt \in [Issues -> -1..MaxAttempt + 1]
      BY DEF RInv, RestTyped
    <2>4. QED
      BY <1>1, <2>1, <2>2, <2>3
  <1>11. done' \in [Issues -> {"no", "lost"} \cup Reported]
    BY <1>1 DEF RInv, RestTyped
  <1>12. waited' \in [Issues -> Nat]
    BY <1>3 DEF RInv, RestTyped
  <1>13. Running' = (Running \ free) \cup s
    <2>1. \A i \in Issues : attempt'[i] # -1 <=> i \in s \/ (i \in Running /\ i \notin free)
      BY <1>1, <1>4, <1>7 DEF Running
    <2>2. QED
      BY <1>4, <2>1 DEF Running
  <1>14. RetriesDue'
    BY <1>3 DEF RInv, RetriesDue, HasRetry
  <1>15. ASSUME NEW i \in Issues
         PROVE  /\ i \in Running' => attempt'[i] \in Nat /\ waited'[i] <= FailureDelay(attempt'[i])
                /\ HasRetry(i)' => waited'[i] <= FailureDelay(retry'[i].attempt)
                /\ i \notin Running' /\ ~HasRetry(i)' => waited'[i] = 0
    <2>1. CASE i \in s
      <3>1. /\ i \in Running' /\ i \notin Running /\ i \notin free
            /\ attempt'[i] = retry[i].attempt /\ retry'[i] = NoRetry /\ waited'[i] = waited[i]
        BY <1>1, <1>3, <1>4, <1>13, <2>1
      <3>2. waited[i] <= FailureDelay(retry[i].attempt)
        <4>1. CASE HasRetry(i)
          BY <4>1 DEF RInv, WaitsGrown
        <4>2. CASE ~HasRetry(i)
          <5>1. waited[i] = 0
            BY <3>1, <4>2 DEF RInv, WaitsGrown
          <5>2. FailureDelay(retry[i].attempt) \in 0..MaxBackoff /\ MaxBackoff \in Nat
            BY <1>7, DelayGrows, PacingAssumption
          <5>3. QED
            BY <5>1, <5>2
        <4>3. QED
          BY <4>1, <4>2
      <3>3. FailureDelay(attempt'[i]) = FailureDelay(retry[i].attempt)
        BY <3>1
      <3>4. QED
        BY <1>7, <3>1, <3>2, <3>3 DEF HasRetry
    <2>2. CASE i \notin s /\ i \in free
      <3>1. i \notin Running' /\ waited'[i] = 0 /\ retry'[i] = retry[i] /\ ~HasRetry(i)
        BY <1>3, <1>4, <1>13, <2>2 DEF RInv, IInv, Core, RetriesRest
      <3>2. QED
        BY <3>1 DEF HasRetry
    <2>3. CASE i \notin s /\ i \in released
      <3>1. i \notin Running' /\ waited'[i] = 0 /\ retry'[i] = NoRetry
        BY <1>3, <1>4, <1>13, <2>3
      <3>2. QED
        BY <3>1 DEF HasRetry
    <2>4. CASE i \notin s /\ i \notin free /\ i \notin released
      <3>1. /\ i \in Running' <=> i \in Running
            /\ attempt'[i] = attempt[i] /\ waited'[i] = waited[i] /\ retry'[i] = retry[i]
        BY <1>1, <1>3, <1>13, <2>4
      <3>2. QED
        BY <3>1 DEF HasRetry, RInv, WaitsGrown
    <2>5. QED
      BY <2>1, <2>2, <2>3, <2>4
  <1>16. WaitsGrown'
    BY <1>15 DEF WaitsGrown
  <1>17. NextDue(retry') \in Nat \cup {Never}
    BY <1>9, <1>14, NextDueIsLeast DEF RetriesDue, HasRetry
  <1>18. RestTyped'
    <2>1. Cardinality(Running') <= Slots
      BY <1>5, <1>13
    <2>2. QED
      BY <1>2, <1>6, <1>9, <1>10, <1>11, <1>12, <1>17, <2>1 DEF RInv, RestTyped
  <1>19. RetryTimerSet'
    BY <1>2 DEF RetryTimerSet
  <1>20. QED
    BY <1>14, <1>16, <1>18, <1>19 DEF RKept

\* A retry that an operator promotes is due at once and is not another attempt.
LEMMA ReceiveCommandKeeps == ASSUME RInv, ReceiveCommand PROVE RKept'
  <1>1. /\ phase' = "round" /\ retry_at' = Never /\ UNCHANGED <<now, waited, attempt, done, events>>
        /\ draining' \in BOOLEAN
    BY DEF ReceiveCommand, Wake, workers, RInv, RestTyped
  <1>2. Running' = Running
    BY <1>1 DEF Running
  <1>3. CASE UNCHANGED retry
    BY <1>1, <1>2, <1>3 DEF RInv, RKept, RestTyped, RetriesDue, WaitsGrown, RetryTimerSet, HasRetry
  <1>4. ASSUME NEW i \in Issues, HasRetry(i), retry' = [retry EXCEPT ![i].due = now]
        PROVE  RKept'
    <2>1. now \in Nat /\ retry[i] \in RetryEntry
      BY DEF RInv, IInv, Core, Typed, RestTyped
    <2>2. retry'[i] = [retry[i] EXCEPT !.due = now] /\ \A j \in Issues \ {i} : retry'[j] = retry[j]
      BY <1>4 DEF RInv, RestTyped
    <2>3. /\ retry'[i] \in RetryEntry /\ retry'[i].due \in Nat /\ retry'[i] # NoRetry
          /\ retry'[i].attempt = retry[i].attempt
      BY <2>1, <2>2 DEF RetryEntry, NoRetry, Never
    <2>4. retry' \in [Issues -> RetryEntry]
      BY <1>4, <2>1, <2>2, <2>3 DEF RInv, RestTyped
    <2>5. RestTyped'
      BY <1>1, <1>2, <2>4 DEF RInv, RestTyped
    <2>6. RetriesDue' /\ RetryTimerSet'
      BY <1>1, <2>2, <2>3 DEF RInv, RetriesDue, RetryTimerSet, HasRetry
    <2>7. WaitsGrown'
      <3>1. FailureDelay(retry'[i].attempt) = FailureDelay(retry[i].attempt)
        BY <2>3
      <3>2. QED
        BY <1>1, <1>2, <1>4, <2>2, <2>3, <3>1 DEF RInv, WaitsGrown, HasRetry
    <2>8. QED
      BY <2>5, <2>6, <2>7 DEF RKept
  <1>5. QED
    BY <1>3, <1>4 DEF ReceiveCommand

LEMMA OtherStepsKeep ==
  ASSUME RInv,
         TimerFires \/ ReceiveEvent \/ (\E i \in Issues : Emit(i) \/ WorkerEnds(i)) \/ Sleep
           \/ PeopleMove \/ UNCHANGED vars
  PROVE  RKept'
  <1>1. UNCHANGED <<retry, waited, attempt, draining>>
    BY DEF TimerFires, ReceiveEvent, Emit, WorkerEnds, Sleep, PeopleMove, vars, retries, workers
  <1>2. \/ phase' = "round" /\ retry_at' = Never
        \/ UNCHANGED <<phase, retry_at>>
    BY DEF TimerFires, ReceiveEvent, Emit, WorkerEnds, Sleep, PeopleMove, vars, Wake, timers
  <1>3. now' \in Time
    <2>1. now' = now \/ (now < MaxTime /\ now' = now + 1)
      BY DEF TimerFires, ReceiveEvent, Emit, WorkerEnds, Sleep, PeopleMove, vars
    <2>2. MaxTime \in Nat /\ now \in 0..MaxTime
      BY PacingAssumption DEF RInv, RestTyped, Time
    <2>3. QED
      BY <2>1, <2>2 DEF Time
  <1>4. done' \in [Issues -> {"no", "lost"} \cup Reported]
    BY DEF TimerFires, ReceiveEvent, Emit, WorkerEnds, Sleep, PeopleMove, vars, workers, RInv, RestTyped
  <1>5. Len(events') <= MaxEvents
    <2>1. events \in Seq(Event) /\ Len(events) \in Nat /\ MaxEvents \in Nat
      BY PacingAssumption DEF RInv, IInv, Core, Typed
    <2>2. CASE UNCHANGED events
      BY <2>2 DEF RInv, RestTyped
    <2>3. CASE events # <<>> /\ events' = Tail(events)
      BY <2>1, <2>3 DEF RInv, RestTyped
    <2>4. CASE Len(events) < MaxEvents /\ \E e : events' = Append(events, e)
      BY <2>1, <2>4
    <2>5. QED
      BY <2>2, <2>3, <2>4 DEF TimerFires, ReceiveEvent, Emit, WorkerEnds, Sleep, PeopleMove, vars, workers
  <1>6. Running' = Running
    BY <1>1 DEF Running
  <1>7. RestTyped'
    BY <1>1, <1>2, <1>3, <1>4, <1>5, <1>6 DEF RInv, RestTyped
  <1>8. RetriesDue' /\ WaitsGrown' /\ RetryTimerSet'
    BY <1>1, <1>2, <1>6 DEF RInv, RetriesDue, WaitsGrown, RetryTimerSet, HasRetry
  <1>9. QED
    BY <1>7, <1>8 DEF RKept

LEMMA InitKept == Init => RInv
  <1> SUFFICES ASSUME Init PROVE RInv
    OBVIOUS
  <1>1. Running = {} /\ \A i \in Issues : ~HasRetry(i)
    BY DEF Init, Running, HasRetry
  <1>2. Cardinality(Running) <= Slots
    BY <1>1, FS_EmptySet, PacingAssumption
  <1>3. NoRetry \in RetryEntry
    BY PacingAssumption DEF NoRetry, RetryEntry
  <1>4. RestTyped
    <2>1. 0 \in Time /\ -1 \in -1..MaxAttempt + 1
      BY PacingAssumption DEF Time
    <2>2. Len(events) <= MaxEvents
      BY PacingAssumption DEF Init
    <2>3. attempt \in [Issues -> -1..MaxAttempt + 1]
      BY <2>1 DEF Init
    <2>4. retry \in [Issues -> RetryEntry]
      BY <1>3 DEF Init
    <2>5. QED
      BY <1>2, <2>1, <2>2, <2>3, <2>4 DEF Init, RestTyped
  <1>5. RetriesDue /\ WaitsGrown /\ RetryTimerSet
    BY <1>1 DEF Init, RetriesDue, WaitsGrown, RetryTimerSet
  <1>6. QED
    BY <1>4, <1>5, InitEstablishes DEF RInv

LEMMA RetriesInductive == Spec => []RInv
  <1>1. ASSUME RInv, [Next]_vars PROVE RInv'
    <2>1. IInv'
      BY <1>1, NextPreserves DEF RInv
    <2>2. RKept'
      BY <1>1, BeginRoundKeeps, FetchFailsKeeps, FetchSucceedsKeeps, ReceiveOutcomeKeeps,
         ReceiveCommandKeeps, OtherStepsKeep
      DEF Next
    <2>3. QED
      BY <2>1, <2>2 DEF RInv, RKept
  <1>2. QED
    BY <1>1, InitKept, PTL DEF Spec

-----------------------------------------------------------------------------

\* Whatever the service waits for, it polls at least once in an interval and the time a
\* poll takes (the select of the loop, poll_interval_ms).
THEOREM PollsGoOnAlways == Spec => []PollsGoOn
  <1>1. IInv => PollsGoOn
    BY PacingAssumption DEF IInv, Core, Typed, ClockBounded, PollsGoOn
  <1>2. QED
    BY <1>1, Inductive, PTL

\* For any number of issues and slots, a worker that is silent, has panicked or is stuck
\* in a write is ended within a round after its stall timeout, also while the service is
\* drained (reconcile_stalled).
THEOREM StallsEndAlways == Spec => []StallsEnd
  <1>1. IInv => StallsEnd
    <2> SUFFICES ASSUME IInv, NEW i \in Running PROVE now <= heard[i] + Stall + Latency + Interval
      BY DEF StallsEnd
    <2>1. now <= polled + Latency + Interval
      BY PacingAssumption DEF IInv, Core, Typed, ClockBounded
    <2>2. polled <= heard[i] + Stall /\ heard[i] \in Nat
      BY DEF IInv, Core, Typed, HeardInTime, Running
    <2>3. QED
      BY <2>1, <2>2, PacingAssumption DEF IInv, Core, Typed
  <1>2. QED
    BY <1>1, Inductive, PTL

\* For any number of issues and slots every variable keeps its type, no issue runs with a
\* retry queued, and no more issues run than there are slots (dispatch_candidates).
THEOREM TypeCorrect == Spec => []TypeOK
  <1>1. RInv => TypeOK
    <2> SUFFICES ASSUME RInv PROVE TypeOK
      OBVIOUS
    <2>1. polled \in Time /\ \A i \in Issues : heard[i] \in Time
      <3>1. now \in Time /\ polled \in Nat /\ heard \in [Issues -> Nat]
        BY DEF RInv, IInv, Core, Typed, RestTyped
      <3>2. polled <= now /\ \A i \in Issues : heard[i] <= now
        BY DEF RInv, IInv, Core, ClockBounded, HeardInTime
      <3>3. QED
        BY <3>1, <3>2, PacingAssumption DEF Time
    <2>2. events \in Seq([from: Issues \cup {0}, at: Time])
      <3>1. Len(events) \in Nat /\ \A n \in 1..Len(events) : events[n] \in Event
        BY DEF RInv, IInv, Core, Typed
      <3>2. \A n \in 1..Len(events) : events[n].at <= now
        BY DEF RInv, IInv, Core, EventsInOrder
      <3>3. \A n \in 1..Len(events) : events[n].at \in Time
        <4>1. now \in Nat /\ now <= MaxTime /\ MaxTime \in Nat
          BY PacingAssumption DEF RInv, RestTyped, Time
        <4>2. \A n \in 1..Len(events) : events[n].at \in Nat
          BY <3>1 DEF Event
        <4>3. QED
          BY <3>2, <4>1, <4>2 DEF Time
      <3>4. \A n \in 1..Len(events) : events[n] \in [from: Issues \cup {0}, at: Time]
        BY <3>1, <3>3 DEF Event
      <3>5. events \in [1..Len(events) -> [from: Issues \cup {0}, at: Time]]
        BY <3>4 DEF RInv, IInv, Core, Typed
      <3> DEFINE Timed == [from: Issues \cup {0}, at: Time]
      <3>6. events \in [1..Len(events) -> Timed]
        BY <3>5
      <3> HIDE DEF Timed
      <3>7. events \in Seq(Timed)
        BY <3>1, <3>6
      <3>8. QED
        BY <3>7 DEF Timed
    <2>3. heard \in [Issues -> Time]
      BY <2>1 DEF RInv, IInv, Core, Typed
    <2>4. QED
      BY <2>1, <2>2, <2>3 DEF RInv, IInv, Core, Typed, RestTyped, RetriesRest, RetryEntry, TypeOK
  <1>2. QED
    BY <1>1, RetriesInductive, PTL

\* For any number of retries the loop never sleeps beyond the time of the earliest, whatever
\* was queued, promoted or released before (next_retry_delay).
THEOREM RetriesAreInTime == Spec => DueInTime
  <1>1. ASSUME RInv, [Next]_vars
        PROVE  [phase = "select" /\ now' > now => \A i \in Issues : HasRetry(i) => now < retry[i].due]_vars
    <2> SUFFICES ASSUME phase = "select", now' > now, NEW i \in Issues, HasRetry(i)
                 PROVE  now < retry[i].due
      OBVIOUS
    <2>1. now \in Nat
      BY <1>1 DEF RInv, IInv, Core, Typed
    <2>2. now' # now
      BY <2>1
    <2>3. Sleep
      BY <1>1, <2>2 DEF Next, vars, BeginRound, FetchFails, FetchSucceeds, TimerFires, ReceiveEvent,
         ReceiveOutcome, ReceiveCommand, Emit, WorkerEnds, PeopleMove
    <2>4. retry_at # Never => now < retry_at
      BY <2>3 DEF Sleep
    <2>5. retry_at \in Nat /\ retry_at <= retry[i].due
      <3>1. retry \in [Issues -> RetryEntry] /\ \A j \in Issues : retry[j] # NoRetry => retry[j].due \in Nat
        BY <1>1 DEF RInv, RestTyped, RetriesDue, HasRetry
      <3>2. NextDue(retry) \in Nat /\ NextDue(retry) <= retry[i].due
        BY <3>1, NextDueIsLeast DEF HasRetry
      <3>3. QED
        BY <1>1, <3>2 DEF RInv, RetryTimerSet
    <2>6. retry[i].due \in Nat
      BY <1>1 DEF RInv, RetriesDue
    <2>7. QED
      BY <2>1, <2>4, <2>5, <2>6 DEF Never
  <1>2. QED
    BY <1>1, RetriesInductive, PTL DEF Spec, DueInTime

\* For every base, width of the machine word and maximum, a longer row of failures never
\* waits a shorter time: doubling, saturation and the clamped shift agree
\* (failure_retry_delay_ms).
THEOREM BackoffGrows == Spec => DelaysGrow
  <1> DEFINE Grown == \A i \in Issues : waited'[i] # waited[i] =>
                        waited'[i] \in {0} \cup waited[i]..MaxBackoff
  <1>1. ASSUME RInv, [Next]_vars PROVE [Grown]_vars
    <2>1. ASSUME NEW a \in Nat, NEW w \in Nat, w <= FailureDelay(a)
          PROVE  FailureDelay(a + 1) \in w..MaxBackoff
      <3>1. a + 1 \in Nat /\ a <= a + 1
        BY <2>1
      <3>2. /\ FailureDelay(a) \in 0..MaxBackoff /\ FailureDelay(a + 1) \in 0..MaxBackoff
            /\ FailureDelay(a) <= FailureDelay(a + 1)
        BY <3>1, DelayGrows
      <3>3. MaxBackoff \in Nat
        BY PacingAssumption
      <3>4. QED
        BY <2>1, <3>2, <3>3
    <2>2. ASSUME NEW gone \in SUBSET Running, NEW failed \in BOOLEAN, WorkerExit(gone, failed)
          PROVE  Grown
      <3>1. waited' = [i \in Issues |-> IF i \notin gone THEN waited[i]
                                        ELSE IF failed THEN FailureDelay(attempt[i] + 1) ELSE 0]
        BY <2>2 DEF WorkerExit
      <3>2. \A i \in gone : /\ i \in Issues /\ attempt[i] \in Nat /\ waited[i] \in Nat
                            /\ waited[i] <= FailureDelay(attempt[i])
        BY <1>1 DEF RInv, RestTyped, WaitsGrown, Running
      <3>3. \A i \in gone : FailureDelay(attempt[i] + 1) \in waited[i]..MaxBackoff
        BY <2>1, <3>2
      <3>4. QED
        BY <3>1, <3>3
    <2>3. CASE FetchFails
      <3>1. waited' = [i \in Issues |-> IF i \in Due THEN FailureDelay(retry[i].attempt + 1)
                                        ELSE waited[i]]
        BY <2>3 DEF FetchFails
      <3>2. \A i \in Due : /\ i \in Issues /\ retry[i].attempt \in Nat /\ waited[i] \in Nat
                           /\ waited[i] <= FailureDelay(retry[i].attempt)
        <4>1. \A i \in Issues : retry[i] \in RetryEntry
          BY <1>1 DEF RInv, RestTyped
        <4>2. \A i \in Issues : retry[i].attempt \in Nat
          BY <4>1, PacingAssumption DEF RetryEntry
        <4>3. QED
          BY <1>1, <4>2 DEF RInv, RestTyped, WaitsGrown, Due
      <3>3. \A i \in Due : FailureDelay(retry[i].attempt + 1) \in waited[i]..MaxBackoff
        BY <2>1, <3>2
      <3>4. QED
        BY <3>1, <3>3
    <2>4. CASE BeginRound
      BY <2>2, <2>4 DEF BeginRound
    <2>5. CASE ReceiveOutcome
      <3>1. PICK i \in Running : WorkerExit({i}, done[i] = "failed")
        BY <2>5 DEF ReceiveOutcome
      <3>2. {i} \in SUBSET Running /\ (done[i] = "failed") \in BOOLEAN
        OBVIOUS
      <3>3. QED
        BY <2>2, <3>1, <3>2
    <2>6. CASE FetchSucceeds
      <3>1. \A i \in Issues : waited'[i] = 0 \/ waited'[i] = waited[i]
        BY <2>6 DEF FetchSucceeds
      <3>2. QED
        BY <3>1
    <2>7. CASE UNCHANGED waited
      BY <2>7
    <2>8. QED
      BY <1>1, <2>3, <2>4, <2>5, <2>6, <2>7
      DEF Next, vars, retries, TimerFires, ReceiveEvent, ReceiveCommand, Emit, WorkerEnds, Sleep, PeopleMove
  <1>2. QED
    BY <1>1, RetriesInductive, PTL DEF Spec, DelaysGrow

=============================================================================

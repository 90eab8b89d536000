-------------------------- MODULE ReloadingProofs --------------------------
(***************************************************************************)
(* For every number of sources, of contents of their files and of edits:   *)
(* the variables keep their types, no poll uses a client that a reload has *)
(* replaced, and the status that is published is never behind when the     *)
(* loop waits or begins a round.                                           *)
(***************************************************************************)
EXTENDS Reloading, TLAPS

\* A cached client was made, tracker and transport, of the contents of one file.
MadeOf(client, c) == client = [tracker |-> TrackerOf[c], transport |-> TransportOf[c]]
CachedWhole == \A s \in Sources : runtime[s] # None => \E c \in Contents : MadeOf(runtime[s], c)

\* The loop goes through sources whose answers it has, and begins a round without any.
PollsInHand ==
    /\ phase \in {"apply", "dispatch"} => \A s \in todo : poll[s] # None
    /\ phase \in {"reload", "select"} => \A s \in Sources : poll[s] = None

RInv == TypeOK /\ CachedWhole /\ PollsInHand /\ PolledInForce /\ StatusFresh

LEMMA WantedType ==
  ASSUME TypeOK, NEW s \in Sources
  PROVE  /\ last_good[s] \in Accepted /\ last_good[s] \in Contents
         /\ Wanted(s) \in Client /\ Wanted(s) # None
         /\ MadeOf(Wanted(s), last_good[s])
         /\ RootOf[last_good[s]] \in Roots
         /\ \A t \in Targets :
               DirNow(s, t) \in Sources \X Targets \X Roots
  <1>1. last_good[s] \in Accepted /\ last_good[s] \in Contents
    BY ReloadingAssumption DEF TypeOK
  <1>2. Wanted(s) \in Client
    BY <1>1 DEF Wanted, Client
  <1>3. RootOf[last_good[s]] \in Roots
    BY <1>1 DEF Roots
  <1>4. QED
    BY <1>1, <1>2, <1>3, ReloadingAssumption DEF DirNow, Wanted, MadeOf

\* What a cached client was made of is all that a new one would be made of.
LEMMA ClientInForce ==
  ASSUME TypeOK, CachedWhole, NEW s \in Sources
  PROVE  ClientFor(s) = Wanted(s)
  <1>1. CASE IsCached(s)
    <2>1. PICK c \in Contents : MadeOf(runtime[s], c)
      BY <1>1 DEF IsCached, CachedWhole
    <2>2. TrackerOf[c] = TrackerOf[last_good[s]]
      BY <1>1, <2>1 DEF IsCached, MadeOf, Wanted
    <2>3. TransportOf[c] = TransportOf[last_good[s]]
      BY <2>2, WantedType, ReloadingAssumption
    <2>4. QED
      BY <1>1, <2>1, <2>2, <2>3 DEF ClientFor, Wanted, MadeOf
  <1>2. CASE ~IsCached(s)
    BY <1>2 DEF ClientFor
  <1>3. QED
    BY <1>1, <1>2

LEMMA TargetsTyped ==
  ASSUME TypeOK, NEW s \in Sources
  PROVE  TargetsFor(s) \subseteq Targets
  <1>1. last_good[s] \in Contents
    BY WantedType
  <1>2. SelectedTargets(s) \subseteq Targets
    BY <1>1 DEF SelectedTargets, Targets, HostsIn
  <1>3. QED
    BY <1>2 DEF TargetsFor, TypeOK, RetryEntry

\* A file is loaded, then its contents come into force, before the round goes on.
LEMMA LoadStep ==
  ASSUME RInv, NEW s \in Sources, Load(s)
  PROVE  RInv'
  <1>1. TypeOK /\ CachedWhole /\ PollsInHand /\ PolledInForce /\ StatusFresh
    BY DEF RInv
  <1>2. /\ phase = "reload" /\ s \in todo /\ loading = None
        /\ UNCHANGED <<file, clock, last_good, last_modified, overtaken, runtime, phase, poll,
                       state, dirs, health, published, world>>
    BY DEF Load
  <1>3. /\ loading' \in Loaded \cup {None} /\ todo' \subseteq todo
        /\ loading' # None => loading'.source \in todo'
    <2>1. CASE Succeeds(s) /\ loading' = [source |-> s, content |-> file[s].content] /\ UNCHANGED todo
      <3>1. loading' \in Loaded /\ loading'.source = s
        BY <2>1 DEF Loaded, Succeeds
      <3>2. QED
        BY <1>2, <2>1, <3>1
    <2>2. CASE todo' = PassOver(s) /\ UNCHANGED loading
      BY <1>2, <2>2 DEF PassOver
    <2>3. QED
      BY <2>1, <2>2 DEF Load
  <1>4. TypeOK'
    BY <1>1, <1>2, <1>3 DEF TypeOK, state, world
  <1>5. CachedWhole' /\ PollsInHand' /\ PolledInForce'
    BY <1>1, <1>2 DEF CachedWhole, PollsInHand, PolledInForce, Wanted
  <1>6. StatusFresh'
    <2>1. todo \subseteq Sources
      BY <1>1 DEF TypeOK
    <2>2. RoundBegins' => RoundBegins
      BY <1>2, <1>3, <2>1 DEF RoundBegins
    <2>3. QED
      BY <1>1, <1>2, <2>2 DEF StatusFresh, state
  <1>7. QED
    BY <1>4, <1>5, <1>6 DEF RInv

LEMMA InstallStep ==
  ASSUME RInv, NEW s \in Sources, Install(s)
  PROVE  RInv'
  <1>1. TypeOK /\ CachedWhole /\ PollsInHand /\ PolledInForce /\ StatusFresh
    BY DEF RInv
  <1>2. /\ loading # None /\ loading' = None /\ todo' = todo \ {s}
        /\ last_good' = [last_good EXCEPT ![s] = loading.content]
        /\ last_modified' = [last_modified EXCEPT ![s] = file[s].modified]
        /\ UNCHANGED <<file, clock, overtaken, runtime, phase, poll, state, dirs, health,
                       published, world>>
    BY DEF Install
  <1>3. phase = "reload" /\ phase' = "reload" /\ loading.content \in Accepted
    <2>1. loading \in Loaded
      BY <1>1, <1>2 DEF TypeOK
    <2>2. QED
      BY <1>1, <1>2, <2>1 DEF TypeOK, Loaded
  <1>4. TypeOK'
    <2>1. last_good' \in [Sources -> Accepted] /\ last_modified' \in [Sources -> 0..MaxEdits]
      BY <1>1, <1>2, <1>3 DEF TypeOK
    <2>2. QED
      BY <1>1, <1>2, <2>1 DEF TypeOK, state, world
  <1>5. CachedWhole' /\ PollsInHand' /\ PolledInForce'
    BY <1>1, <1>2, <1>3 DEF CachedWhole, PollsInHand, PolledInForce
  <1>6. StatusFresh'
    BY <1>2, <1>3 DEF StatusFresh, RoundBegins
  <1>7. QED
    BY <1>4, <1>5, <1>6 DEF RInv

\* Steps of the loop between those of the sources.
LEMMA RoundSteps ==
  ASSUME RInv,
         \/ EndReload \/ EndPolls \/ BeginDispatch
         \/ EndTick \/ Wake
  PROVE  RInv'
  <1>1. TypeOK /\ CachedWhole /\ PollsInHand /\ PolledInForce /\ StatusFresh
    BY DEF RInv
  <1>2. loading = None
    BY <1>1 DEF TypeOK, EndReload, EndPolls, BeginDispatch, EndTick, Wake
  <1>3. TypeOK'
    BY <1>1, <1>2
    DEF TypeOK, EndReload, EndPolls, BeginDispatch, EndTick, Wake, BeginRound,
        config, state, world
  <1>4. CachedWhole'
    BY <1>1
    DEF CachedWhole, EndReload, EndPolls, BeginDispatch, EndTick,
        Wake
  <1>5. PollsInHand' /\ PolledInForce'
    BY <1>1
    DEF PollsInHand, PolledInForce, Wanted, EndReload, EndPolls,
        BeginDispatch, EndTick, Wake, BeginRound,
       config
  <1>6. StatusFresh'
    BY <1>1
    DEF StatusFresh, RoundBegins, EndReload, EndPolls, BeginDispatch,
        EndTick, Wake, BeginRound, config, state, Publish
  <1>7. QED
    BY <1>3, <1>4, <1>5, <1>6 DEF RInv

LEMMA PollStep ==
  ASSUME RInv, NEW s \in Sources,
         PlanPoll(s) \/ FetchSourcePoll(s)
  PROVE  RInv'
  <1>1. TypeOK /\ CachedWhole /\ PollsInHand /\ PolledInForce /\ StatusFresh
    BY DEF RInv
  <1>2. /\ ClientFor(s) = Wanted(s)
        /\ Wanted(s) \in Client /\ Wanted(s) # None
        /\ last_good[s] \in Contents /\ MadeOf(Wanted(s), last_good[s])
    BY <1>1, WantedType, ClientInForce
  <1>3. CASE PlanPoll(s) /\ runtime' = [runtime EXCEPT ![s] = ClientFor(s)]
             /\ poll' = [poll EXCEPT ![s] = [client |-> ClientFor(s), answer |-> "none"]]
             /\ UNCHANGED <<health, disturbances>>
    <2> DEFINE asked == [client |-> Wanted(s), answer |-> "none"]
    <2>1. asked \in Poll /\ asked # None /\ asked.client = Wanted(s)
      BY <1>2, ReloadingAssumption DEF Poll
    <2> HIDE DEF asked
    <2>2. /\ runtime' = [runtime EXCEPT ![s] = Wanted(s)]
          /\ poll' = [poll EXCEPT ![s] = asked]
          /\ runtime \in [Sources -> Client \cup {None}]
          /\ poll \in [Sources -> Poll \cup {None}]
      BY <1>1, <1>2, <1>3 DEF TypeOK, asked
    <2>3. TypeOK'
      BY <1>1, <1>2, <1>3, <2>1, <2>2
      DEF TypeOK, PlanPoll, config, state
    <2>4. CachedWhole'
      BY <1>1, <1>2, <2>2 DEF CachedWhole
    <2>5. PolledInForce'
      BY <1>1, <1>3, <2>1, <2>2
      DEF PolledInForce, PlanPoll, Wanted, config
    <2>6. PollsInHand' /\ StatusFresh'
      BY <1>3 DEF PlanPoll, PollsInHand, StatusFresh, RoundBegins
    <2>7. QED
      BY <2>3, <2>4, <2>5, <2>6 DEF RInv
  <1>4. CASE PlanPoll(s) /\ ~IsCached(s) /\ Disturb
             /\ health' = [health EXCEPT ![s] = "failed"] /\ UNCHANGED <<runtime, poll>>
    <2>1. TypeOK'
      BY <1>1, <1>4, ReloadingAssumption
      DEF TypeOK, PlanPoll, config, state,
          Disturb
    <2>2. QED
      BY <1>1, <1>4, <2>1
      DEF RInv, CachedWhole, PollsInHand, PolledInForce, StatusFresh, RoundBegins,
          PlanPoll,
         Wanted, config
  <1>5. CASE FetchSourcePoll(s)
    <2> DEFINE answer == IF s \in down THEN "failed" ELSE issue[s]
               got == [poll[s] EXCEPT !.answer = answer]
    <2>1. poll[s] \in Poll /\ poll[s] # None
      BY <1>1, <1>5 DEF TypeOK, FetchSourcePoll
    <2>2. answer \in {"none", "failed", "active", "done"}
      BY <1>1 DEF TypeOK
    <2> HIDE DEF answer
    <2>3. got \in Poll /\ got # None /\ got.client = poll[s].client
      BY <2>1, <2>2, ReloadingAssumption DEF Poll
    <2>4. poll' = [poll EXCEPT ![s] = got] /\ poll \in [Sources -> Poll \cup {None}]
      BY <1>1, <1>5 DEF FetchSourcePoll, answer, TypeOK
    <2> HIDE DEF got
    <2>5. TypeOK'
      <3>1. poll' \in [Sources -> Poll \cup {None}]
        BY <2>3, <2>4
      <3>2. /\ health' \in [Sources -> {"none", "ok", "failed"}]
            /\ phase' \in {"reload", "plan", "poll", "apply", "dispatch", "select"}
            /\ todo' \subseteq Sources
        BY <1>1, <1>5 DEF TypeOK, FetchSourcePoll, RecordPollResult
      <3>3. UNCHANGED <<config, runtime, phase, todo, running, retry, dirs, issue, down,
                        disturbances>>
        BY <1>5 DEF FetchSourcePoll, config, state, world
      <3>4. QED
        BY <1>1, <3>1, <3>2, <3>3 DEF TypeOK, config
    <2>6. CachedWhole'
      BY <1>1, <1>5 DEF CachedWhole, FetchSourcePoll
    <2>7. PolledInForce'
      BY <1>1, <1>5, <2>1, <2>3, <2>4
      DEF PolledInForce, FetchSourcePoll, Wanted, config
    <2>8. PollsInHand' /\ StatusFresh'
      BY <1>5 DEF FetchSourcePoll, PollsInHand, StatusFresh, RoundBegins
    <2>9. QED
      BY <2>5, <2>6, <2>7, <2>8 DEF RInv
  <1>6. QED
    BY <1>3, <1>4, <1>5 DEF PlanPoll

\* The entries of one issue change while the loop goes through the sources.
LEMMA TickStepOf ==
  ASSUME RInv, NEW s \in Sources,
         ApplyAnswer(s) \/ Dispatch(s)
  PROVE  RInv'
  <1>1. TypeOK /\ CachedWhole /\ PollsInHand /\ PolledInForce /\ StatusFresh
    BY DEF RInv
  <1>2. /\ phase \in {"apply", "dispatch"} /\ phase' = phase /\ todo' = todo \ {s} /\ s \in todo
        /\ UNCHANGED <<config, runtime, poll, health, published, world>>
    BY DEF ApplyAnswer, Dispatch
  <1>3. /\ running \in [Sources -> RunningEntry \cup {None}]
        /\ retry \in [Sources -> RetryEntry \cup {None}]
        /\ poll[s] \in Poll
    BY <1>1, <1>2 DEF TypeOK, PollsInHand
  <1>4. /\ running' \in [Sources -> RunningEntry \cup {None}]
        /\ retry' \in [Sources -> RetryEntry \cup {None}]
        /\ dirs' \subseteq Sources \X Targets \X Roots
        /\ \A r \in Sources : running'[r] # None => retry'[r] = None
    <2>1. CASE ApplyAnswer(s)
      <3>1. CASE running' = [running EXCEPT ![s] = None] /\ UNCHANGED retry /\ dirs' \subseteq dirs
        BY <1>1, <1>3, <3>1 DEF TypeOK
      <3>2. CASE /\ retry[s] # None /\ UNCHANGED <<running, dirs>>
                 /\ retry' = [retry EXCEPT ![s].failed = TRUE, ![s].due = FALSE]
        <4> DEFINE later == [[retry[s] EXCEPT !.failed = TRUE] EXCEPT !.due = FALSE]
        <4>1. later \in RetryEntry
          BY <1>3, <3>2 DEF RetryEntry
        <4>2. retry' = [retry EXCEPT ![s] = later]
          BY <1>3, <3>2
        <4> HIDE DEF later
        <4>3. running[s] = None /\ \A r \in Sources : running[r] # None => retry[r] = None
          BY <1>1, <3>2 DEF TypeOK
        <4>4. dirs' \subseteq Sources \X Targets \X Roots
          BY <1>1, <3>2 DEF TypeOK
        <4>5. \A r \in Sources : running'[r] # None => retry'[r] = None
          BY <1>3, <3>2, <4>2, <4>3
        <4>6. QED
          BY <1>3, <3>2, <4>1, <4>2, <4>4, <4>5
      <3>3. CASE UNCHANGED <<state, dirs>>
        BY <1>1, <3>3 DEF TypeOK, state
      <3>4. QED
        BY <2>1, <3>1, <3>2, <3>3 DEF ApplyAnswer
    <2>2. CASE Dispatch(s)
      <3>1. ASSUME NEW t \in TargetsFor(s),
                   running' = [running EXCEPT ![s] =
                         [target |-> t, root |-> RootOf[last_good[s]],
                          client |-> poll[s].client, task |-> "spawned"]],
                   retry' = [retry EXCEPT ![s] = None], UNCHANGED dirs
            PROVE  /\ running' \in [Sources -> RunningEntry \cup {None}]
                   /\ retry' \in [Sources -> RetryEntry \cup {None}]
                   /\ dirs' \subseteq Sources \X Targets \X Roots
                   /\ \A r \in Sources : running'[r] # None => retry'[r] = None
        <4> DEFINE entry == [target |-> t, root |-> RootOf[last_good[s]],
                             client |-> poll[s].client, task |-> "spawned"]
        <4>1. /\ t \in Targets /\ RootOf[last_good[s]] \in Roots
              /\ poll[s].client \in Client
          BY <1>1, <1>3, WantedType, TargetsTyped DEF Poll
        <4>2. entry \in RunningEntry
          BY <4>1 DEF RunningEntry
        <4> HIDE DEF entry
        <4>3. running' = [running EXCEPT ![s] = entry]
          BY <3>1 DEF entry
        <4>4. QED
          BY <1>1, <1>3, <3>1, <4>2, <4>3 DEF TypeOK
      <3>2. CASE retry' = [retry EXCEPT ![s] = None] /\ UNCHANGED <<running, dirs>>
        BY <1>1, <1>3, <3>2 DEF TypeOK
      <3>3. CASE UNCHANGED <<state, dirs>>
        BY <1>1, <3>3 DEF TypeOK, state
      <3>4. QED
        BY <2>2, <3>1, <3>2, <3>3 DEF Dispatch
    <2>3. QED
      BY <2>1, <2>2
  <1>5. TypeOK'
    BY <1>1, <1>2, <1>4 DEF TypeOK, config, world
  <1>6. CachedWhole' /\ PollsInHand' /\ PolledInForce' /\ StatusFresh'
    BY <1>1, <1>2
    DEF CachedWhole, PollsInHand, PolledInForce, Wanted, StatusFresh, RoundBegins,
        config
  <1>7. QED
    BY <1>5, <1>6 DEF RInv

\* A run ends in the select: the status is published at once.
LEMMA RunEnds ==
  ASSUME RInv, NEW s \in Sources,
         ReceiveOutcome(s) \/ AbortWorker(s)
  PROVE  RInv'
  <1>1. TypeOK /\ CachedWhole /\ PollsInHand /\ PolledInForce /\ StatusFresh
    BY DEF RInv
  <1>2. /\ phase = "select" /\ phase' = "reload" /\ todo' = Sources /\ running[s] # None
        /\ running' = [running EXCEPT ![s] = None]
        /\ UNCHANGED <<config, runtime, poll, health, issue, down>> /\ Publish
    BY DEF ReceiveOutcome, AbortWorker, BeginRound, PublishChange, world
  <1>3. /\ running \in [Sources -> RunningEntry \cup {None}]
        /\ retry \in [Sources -> RetryEntry \cup {None}]
        /\ running[s] \in RunningEntry
    BY <1>1, <1>2 DEF TypeOK
  <1>4. running[s].target \in Targets
    BY <1>3 DEF RunningEntry
  <1>5. /\ retry' \in [Sources -> RetryEntry \cup {None}]
        /\ \A r \in Sources \ {s} : retry'[r] = retry[r]
    <2>1. ASSUME NEW failed \in BOOLEAN,
                 retry' = [retry EXCEPT ![s] =
                     [target |-> running[s].target, due |-> FALSE, failed |-> failed]]
          PROVE  /\ retry' \in [Sources -> RetryEntry \cup {None}]
                 /\ \A r \in Sources \ {s} : retry'[r] = retry[r]
      <3> DEFINE entry == [target |-> running[s].target, due |-> FALSE, failed |-> failed]
      <3>1. entry \in RetryEntry
        BY <1>4 DEF RetryEntry
      <3> HIDE DEF entry
      <3>2. retry' = [retry EXCEPT ![s] = entry]
        BY <2>1 DEF entry
      <3>3. QED
        BY <1>3, <3>1, <3>2
    <2>2. CASE ReceiveOutcome(s)
      <3>1. CASE UNCHANGED retry
        BY <1>3, <3>1
      <3>2. (running[s].task = "failed") \in BOOLEAN
        OBVIOUS
      <3>3. QED
        BY <2>1, <2>2, <3>1, <3>2 DEF ReceiveOutcome
    <2>3. CASE AbortWorker(s)
      BY <2>1, <2>3 DEF AbortWorker
    <2>4. QED
      BY <2>2, <2>3
  <1>6. /\ running' \in [Sources -> RunningEntry \cup {None}]
        /\ \A r \in Sources : running'[r] # None => retry'[r] = None
    BY <1>1, <1>2, <1>3, <1>5 DEF TypeOK
  <1>7. dirs' \subseteq dirs /\ disturbances' \in 0..MaxDisturbances
    BY <1>1, ReloadingAssumption
    DEF ReceiveOutcome, AbortWorker, Disturb,
        TypeOK, world
  <1>8. TypeOK'
    BY <1>1, <1>2, <1>5, <1>6, <1>7 DEF TypeOK, config
  <1>9. CachedWhole' /\ PollsInHand' /\ PolledInForce'
    BY <1>1, <1>2
    DEF CachedWhole, PollsInHand, PolledInForce, Wanted, config
  <1>10. StatusFresh'
    BY <1>2 DEF StatusFresh, Publish
  <1>11. QED
    BY <1>8, <1>9, <1>10 DEF RInv

\* A task moves on, a retry becomes due: the status still names the same runs and retries.
LEMMA ElsewhereSteps ==
  ASSUME RInv, NEW s \in Sources,
         \/ PrepareWorkspace(s) \/ WorkerEnds(s) \/ BecomeDue(s)
  PROVE  RInv'
  <1>1. TypeOK /\ CachedWhole /\ PollsInHand /\ PolledInForce /\ StatusFresh
    BY DEF RInv
  <1>2. UNCHANGED <<config, runtime, phase, poll, todo, health, published, issue, down>>
    BY DEF PrepareWorkspace, WorkerEnds, BecomeDue, world
  <1>3. /\ running \in [Sources -> RunningEntry \cup {None}]
        /\ retry \in [Sources -> RetryEntry \cup {None}]
    BY <1>1 DEF TypeOK
  <1>4. disturbances' \in 0..MaxDisturbances
    BY <1>1, ReloadingAssumption
    DEF PrepareWorkspace, WorkerEnds, BecomeDue,
        Disturb, TypeOK, world
  <1>5. /\ running' \in [Sources -> RunningEntry \cup {None}]
        /\ retry' \in [Sources -> RetryEntry \cup {None}]
        /\ \A r \in Sources : /\ (running'[r] = None) = (running[r] = None)
                              /\ (retry'[r] = None) = (retry[r] = None)
    <2>1. ASSUME NEW task \in {"working", "normal", "failed", "terminal"},
                 running[s] # None, SetTask(s, task), UNCHANGED retry
          PROVE  /\ running' \in [Sources -> RunningEntry \cup {None}]
                 /\ retry' \in [Sources -> RetryEntry \cup {None}]
                 /\ \A r \in Sources : /\ (running'[r] = None) = (running[r] = None)
                                       /\ (retry'[r] = None) = (retry[r] = None)
      <3> DEFINE entry == [running[s] EXCEPT !.task = task]
      <3>1. entry \in RunningEntry
        BY <1>3, <2>1 DEF RunningEntry
      <3>2. running' = [running EXCEPT ![s] = entry]
        BY <2>1 DEF SetTask
      <3> HIDE DEF entry
      <3>3. entry # None
        BY <3>1, ReloadingAssumption
      <3>4. QED
        BY <1>3, <2>1, <3>1, <3>2, <3>3
    <2>2. CASE BecomeDue(s)
      <3> DEFINE entry == [retry[s] EXCEPT !.due = TRUE]
      <3>1. entry \in RetryEntry
        BY <1>3, <2>2 DEF RetryEntry, BecomeDue
      <3>2. retry' = [retry EXCEPT ![s] = entry] /\ UNCHANGED running /\ retry[s] # None
        BY <2>2 DEF BecomeDue
      <3> HIDE DEF entry
      <3>3. entry # None
        BY <3>1, ReloadingAssumption
      <3>4. QED
        BY <1>3, <3>1, <3>2, <3>3
    <2>3. CASE PrepareWorkspace(s)
      BY <2>1, <2>3 DEF PrepareWorkspace
    <2>4. CASE WorkerEnds(s)
      BY <2>1, <2>4 DEF WorkerEnds
    <2>5. QED
      BY <2>2, <2>3, <2>4
  <1>6. dirs' \subseteq Sources \X Targets \X Roots
    <2>1. CASE PrepareWorkspace(s)
      <3>1. /\ running[s] \in RunningEntry
            /\ dirs' = dirs \cup {<<s, running[s].target, running[s].root>>}
        BY <1>3, <2>1 DEF PrepareWorkspace
      <3>2. running[s].target \in Targets /\ running[s].root \in Roots
        BY <3>1 DEF RunningEntry
      <3>3. QED
        BY <1>1, <3>1, <3>2 DEF TypeOK
    <2>2. CASE WorkerEnds(s) \/ BecomeDue(s)
      BY <1>1, <2>2 DEF WorkerEnds, BecomeDue, TypeOK
    <2>3. QED
      BY <2>1, <2>2
  <1>7. TypeOK'
    BY <1>1, <1>2, <1>4, <1>5, <1>6 DEF TypeOK, config
  <1>8. CachedWhole' /\ PollsInHand' /\ PolledInForce'
    BY <1>1, <1>2
    DEF CachedWhole, PollsInHand, PolledInForce, Wanted, config
  <1>9. StatusFresh'
    BY <1>1, <1>2, <1>5 DEF StatusFresh, RoundBegins, config
  <1>10. QED
    BY <1>7, <1>8, <1>9 DEF RInv

LEMMA PeopleSteps ==
  ASSUME RInv, NEW s \in Sources,
         \/ Edit(s) \/ PeopleMove(s)
         \/ TrackerFails(s) \/ TrackerRecovers(s)
  PROVE  RInv'
  <1>1. TypeOK /\ CachedWhole /\ PollsInHand /\ PolledInForce /\ StatusFresh
    BY DEF RInv
  <1>2. UNCHANGED <<last_good, last_modified, loading, runtime, phase, poll, todo, state, dirs,
                    health, published>>
    BY
    DEF Edit, PeopleMove, TrackerFails, TrackerRecovers,
        config
  <1>3. /\ issue' \in [Sources -> {"active", "done"}] /\ down' \subseteq Sources
        /\ disturbances' \in 0..MaxDisturbances
    BY <1>1, ReloadingAssumption
    DEF Edit, PeopleMove, TrackerFails,
        TrackerRecovers, Disturb, TypeOK, world
  <1>4. clock' \in 0..MaxEdits /\ overtaken' \subseteq Sources
    <2>1. CASE Edit(s)
      <3>1. clock \in 0..MaxEdits /\ clock < MaxEdits /\ MaxEdits \in Nat /\ clock' = clock + 1
        BY <1>1, <2>1, ReloadingAssumption DEF Edit, TypeOK
      <3>2. overtaken' \subseteq Sources
        BY <1>1, <2>1 DEF Edit, TypeOK
      <3>3. QED
        BY <3>1, <3>2
    <2>2. CASE UNCHANGED config
      BY <1>1, <2>2 DEF TypeOK, config
    <2>3. QED
      BY <2>1, <2>2 DEF PeopleMove, TrackerFails, TrackerRecovers
  <1>5. file' \in [Sources -> [content : Contents, modified : 0..MaxEdits]]
    <2>1. CASE Edit(s)
      <3>1. PICK c \in Contents : file' = [file EXCEPT ![s] = [content |-> c, modified |-> clock']]
        BY <2>1 DEF Edit
      <3> DEFINE edited == [content |-> c, modified |-> clock']
      <3>2. edited \in [content : Contents, modified : 0..MaxEdits]
        BY <1>4
      <3> HIDE DEF edited
      <3>3. file' = [file EXCEPT ![s] = edited]
        BY <3>1 DEF edited
      <3>4. QED
        BY <1>1, <3>2, <3>3 DEF TypeOK
    <2>2. CASE UNCHANGED file
      BY <1>1, <2>2 DEF TypeOK
    <2>3. QED
      BY <2>1, <2>2
      DEF PeopleMove, TrackerFails, TrackerRecovers, config
  <1>6. TypeOK'
    BY <1>1, <1>2, <1>3, <1>4, <1>5 DEF TypeOK, state
  <1>7. CachedWhole' /\ PollsInHand' /\ PolledInForce' /\ StatusFresh'
    BY <1>1, <1>2
    DEF CachedWhole, PollsInHand, PolledInForce, Wanted, StatusFresh, RoundBegins,
        state
  <1>8. QED
    BY <1>6, <1>7 DEF RInv

LEMMA RInvNext == RInv /\ [Next]_(vars) => RInv'
  <1> SUFFICES ASSUME RInv, [Next]_(vars) PROVE RInv'
    OBVIOUS
  <1>1. CASE UNCHANGED vars
    <2>1. UNCHANGED <<config, runtime, phase, poll, todo, running, retry,
                      dirs, health, published, issue, down, disturbances>>
      BY <1>1 DEF vars, state, world
    <2>2. TypeOK'
      BY <2>1 DEF RInv, TypeOK, config
    <2>3. QED
      BY <2>1, <2>2
      DEF RInv, CachedWhole, PollsInHand, PolledInForce, Wanted, StatusFresh, RoundBegins, config
  <1>2. QED
    BY <1>1, LoadStep, InstallStep, RoundSteps, PollStep, TickStepOf, RunEnds, ElsewhereSteps, PeopleSteps
    DEF Next, Step

LEMMA RInvInit == Init => RInv
  <1> SUFFICES ASSUME Init PROVE RInv
    OBVIOUS
  <1>1. Initial \in Contents
    BY ReloadingAssumption
  <1>2. TypeOK
    BY <1>1, ReloadingAssumption DEF Init, TypeOK
  <1>3. QED
    BY <1>2
    DEF Init, RInv, CachedWhole, PollsInHand, PolledInForce, StatusFresh,
        RoundBegins, Snapshot

LEMMA ReloadingInductive == Spec => []RInv
  <1>1. RInv /\ [Next]_(vars) => RInv'
    BY RInvNext
  <1>2. Init => RInv
    BY RInvInit
  <1>3. QED
    BY <1>1, <1>2, PTL DEF Spec

\* Whenever the loop waits or begins a round, the published status names every run and every
\* retry there is and the configuration in force, for any number of sources, of contents
\* of their files and of edits (publish_status).
THEOREM StatusFreshAlways == Spec => []StatusFresh
  <1>1. RInv => StatusFresh
    BY DEF RInv
  <1>2. QED
    BY <1>1, ReloadingInductive, PTL

\* No poll is made with a client of settings that a reload has replaced, nor with the
\* transport of another endpoint or key, however often the files change (tracker_for).
THEOREM PolledInForceAlways == Spec => []PolledInForce
  <1>1. RInv => PolledInForce
    BY DEF RInv
  <1>2. QED
    BY <1>1, ReloadingInductive, PTL

\* The variables keep their types, and no issue runs with a retry queued
\* (OrchestratorState::claim_running_on_target_for_source takes the retry out).
THEOREM TypeCorrect == Spec => []TypeOK
  <1>1. RInv => TypeOK
    BY DEF RInv
  <1>2. QED
    BY <1>1, ReloadingInductive, PTL

=============================================================================

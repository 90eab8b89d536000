------------------------------ MODULE Reloading ------------------------------
(***************************************************************************)
(* Several sources whose workflow files are edited while the service runs: *)
(* the reload at the top of a round (src/config.rs), the tracker clients   *)
(* that are cached from one round to the next, the workers, retries and    *)
(* directories that are older than the configuration in force              *)
(* (src/service.rs), and what the HTTP interface knows of all that: the    *)
(* published status and the health of the polls                            *)
(* (src/observability/http.rs).                                            *)
(*                                                                         *)
(* A source has one issue, a poll is one request, and the order in which   *)
(* the loop goes through the sources is arbitrary; limits, stalls and the  *)
(* channels are in Service and Pacing.  The contents of a file are what    *)
(* this depends on: whether it is accepted, the tracker and its transport, *)
(* the hosts, the workspace root.                                          *)
(***************************************************************************)
EXTENDS Integers, FiniteSets, Sequences

CONSTANTS
    Sources,
    Contents,         \* contents a workflow file may have
    Initial,          \* those the service starts with
    InitialState,     \* the state the issues start in
    Accepted,         \* those that are valid and keep source.id
    TrackerOf,        \* their tracker settings
    TransportOf,      \* the part of them the transport depends on
    HostsOf,          \* worker.ssh_hosts in order; none is the local machine
    RootOf,           \* the workspace root
    PerHost,          \* max_concurrent_agents_per_host
    Local,            \* the service's own machine
    None,
    MaxEdits,         \* bound on edits of the files
    MaxDisturbances   \* bound on other people's steps, failures and aborts

VARIABLES
    file,          \* the workflow file of each source, with its modification time
    last_good,     \* the contents in force
    last_modified, \* the modification time remembered
    clock,         \* the time of the last edit
    loading,       \* contents read from a file and not yet in force
    overtaken,     \* history: sources last edited while their file was reloaded
    runtime,       \* the cached tracker client of each source
    phase,         \* where the service loop is
    poll,          \* the answer of each source in this tick
    todo,          \* sources the loop has still to go through
    running,       \* the running entry of each source's issue, with its task
    retry,         \* its retry entry
    dirs,          \* workspaces that exist
    issue,         \* its state on the board
    health,        \* the poll health registry
    down,          \* sources whose tracker does not answer
    published,     \* the status document
    disturbances   \* disturbances so far

config == <<file, clock, last_good, last_modified, loading, overtaken>>
state == <<running, retry>>
world == <<issue, down, disturbances>>
vars == <<config, runtime, phase, poll, todo, state, dirs, health, published, world>>

HostsIn(c) == {HostsOf[c][n] : n \in DOMAIN HostsOf[c]}
Targets == {Local} \cup UNION {HostsIn(c) : c \in Contents}
Roots == {RootOf[c] : c \in Contents}
Client == [tracker : {TrackerOf[c] : c \in Contents}, transport : {TransportOf[c] : c \in Contents}]
Loaded == [source : Sources, content : Accepted]
Poll == [client : Client, answer : {"none", "failed", "active", "done"}]
RunningEntry == [target : Targets, root : Roots, client : Client,
                 task : {"spawned", "working", "normal", "failed", "terminal"}]
RetryEntry == [target : Targets, failed : BOOLEAN, due : BOOLEAN]
Snapshot == [running |-> running, retry |-> retry, configs |-> last_good]

ASSUME ReloadingAssumption ==
    /\ Accepted \subseteq Contents /\ Initial \in Accepted
    /\ InitialState \in {"active", "done"}
    /\ MaxEdits \in Nat /\ MaxDisturbances \in Nat /\ PerHost \in Nat \ {0}
    /\ \A c, d \in Contents : TrackerOf[c] = TrackerOf[d] => TransportOf[c] = TransportOf[d]
    /\ None \notin Client \cup Loaded \cup Poll \cup RunningEntry \cup RetryEntry

TypeOK ==
    /\ file \in [Sources -> [content : Contents, modified : 0..MaxEdits]]
    /\ last_good \in [Sources -> Accepted] /\ last_modified \in [Sources -> 0..MaxEdits]
    /\ clock \in 0..MaxEdits
    /\ loading \in Loaded \cup {None} /\ overtaken \subseteq Sources
    /\ loading # None => phase = "reload" /\ loading.source \in todo
    /\ runtime \in [Sources -> Client \cup {None}]
    /\ phase \in {"reload", "plan", "poll", "apply", "dispatch", "select"}
    /\ poll \in [Sources -> Poll \cup {None}]
    /\ todo \subseteq Sources
    /\ running \in [Sources -> RunningEntry \cup {None}]
    /\ retry \in [Sources -> RetryEntry \cup {None}]
    /\ dirs \subseteq Sources \X Targets \X Roots
    /\ issue \in [Sources -> {"active", "done"}]
    /\ health \in [Sources -> {"none", "ok", "failed"}] /\ down \subseteq Sources
    /\ disturbances \in 0..MaxDisturbances
    /\ \A s \in Sources : running[s] # None => retry[s] = None

Init ==
    /\ file = [s \in Sources |-> [content |-> Initial, modified |-> 0]]
    /\ last_good = [s \in Sources |-> Initial] /\ last_modified = [s \in Sources |-> 0]
    /\ clock = 0 /\ loading = None /\ overtaken = {}
    /\ runtime = [s \in Sources |-> None]
    /\ phase = "reload" /\ poll = [s \in Sources |-> None] /\ todo = Sources
    /\ running = [s \in Sources |-> None] /\ retry = [s \in Sources |-> None]
    /\ dirs = {} /\ issue = [s \in Sources |-> InitialState]
    /\ health = [s \in Sources |-> "none"] /\ down = {}
    /\ published = Snapshot /\ disturbances = 0

Disturb == disturbances < MaxDisturbances /\ disturbances' = disturbances + 1
Publish == published' = [running |-> running', retry |-> retry', configs |-> last_good']

-----------------------------------------------------------------------------
(* The reload: one file after the other.  Its contents are read first and its     *)
(* modification time last, so an edit in between is remembered as seen.            *)

IsEdited(s) == file[s].modified # last_modified[s]

Succeeds(s) == IsEdited(s) /\ file[s].content \in Accepted

\* Mutant: the reload ends with the first file that is refused.
StopAtRefused(s) == IF IsEdited(s) THEN {} ELSE todo \ {s}

\* A file that is refused is looked at again in the next round, the others in this one.
PassOver(s) == todo \ {s}

Load(s) ==
    /\ phase = "reload" /\ s \in todo /\ loading = None
    /\ \/ /\ Succeeds(s)
          /\ loading' = [source |-> s, content |-> file[s].content]
          /\ UNCHANGED todo
       \/ /\ ~Succeeds(s)
          /\ todo' = PassOver(s)
          /\ UNCHANGED loading
    /\ UNCHANGED <<file, clock, last_good, last_modified, overtaken, runtime, phase, poll, state,
                   dirs, health, published, world>>

Install(s) ==
    /\ loading # None /\ loading.source = s
    /\ last_good' = [last_good EXCEPT ![s] = loading.content]
    /\ last_modified' = [last_modified EXCEPT ![s] = file[s].modified]
    /\ loading' = None /\ todo' = todo \ {s}
    /\ UNCHANGED <<file, clock, overtaken, runtime, phase, poll, state, dirs, health, published,
                   world>>

EndReload ==
    /\ phase = "reload" /\ todo = {}
    /\ phase' = "plan" /\ todo' = Sources
    /\ UNCHANGED <<config, runtime, poll, state, dirs, health, published, world>>

-----------------------------------------------------------------------------
(* The tick. *)

Wanted(s) == [tracker |-> TrackerOf[last_good[s]], transport |-> TransportOf[last_good[s]]]

\* A client is reused while the tracker settings are the same.
IsCached(s) == runtime[s] # None /\ runtime[s].tracker = Wanted(s).tracker

\* The transport that is in force is kept for a new client.
ClientFor(s) == IF IsCached(s) THEN runtime[s] ELSE Wanted(s)

PlanPoll(s) ==
    /\ phase = "plan" /\ s \in todo
    /\ \/ /\ runtime' = [runtime EXCEPT ![s] = ClientFor(s)]
          /\ poll' = [poll EXCEPT ![s] = [client |-> ClientFor(s), answer |-> "none"]]
          /\ UNCHANGED <<health, disturbances>>
       \/ /\ ~IsCached(s) /\ Disturb
          /\ health' = [health EXCEPT ![s] = "failed"]
          /\ UNCHANGED <<runtime, poll>>
    /\ todo' = todo \ {s}
    /\ phase' = IF todo' = {} THEN "poll" ELSE "plan"
    /\ UNCHANGED <<config, state, dirs, published, issue, down>>

RecordPollResult(s, ok) == [health EXCEPT ![s] = IF ok THEN "ok" ELSE "failed"]

\* The sources are polled in parallel.
FetchSourcePoll(s) ==
    /\ phase = "poll" /\ poll[s] # None /\ poll[s].answer = "none"
    /\ poll' = [poll EXCEPT ![s].answer = IF s \in down THEN "failed" ELSE issue[s]]
    /\ health' = RecordPollResult(s, s \notin down)
    /\ UNCHANGED <<config, runtime, phase, todo, state, dirs, published, world>>

EndPolls ==
    /\ phase = "poll"
    /\ \A s \in Sources : poll[s] # None => poll[s].answer # "none"
    /\ todo' = {s \in Sources : poll[s] # None} /\ phase' = "apply"
    /\ UNCHANGED <<config, runtime, poll, state, dirs, health, published, world>>

\* A directory is looked for under the root in force.
DirNow(s, target) == <<s, target, RootOf[last_good[s]]>>

\* The issue is done: the worker is aborted, its claim released, its directory removed.
\* A failed poll makes a due retry one of a failed attempt.
ApplyAnswer(s) ==
    /\ phase = "apply" /\ s \in todo
    /\ \/ /\ poll[s].answer = "done" /\ running[s] # None
          /\ running' = [running EXCEPT ![s] = None]
          /\ dirs' = dirs \ {DirNow(s, running[s].target)}
          /\ UNCHANGED retry
       \/ /\ poll[s].answer = "failed" /\ retry[s] # None /\ retry[s].due
          /\ retry' = [retry EXCEPT ![s].failed = TRUE, ![s].due = FALSE]
          /\ UNCHANGED <<running, dirs>>
       \/ /\ ~(poll[s].answer = "done" /\ running[s] # None)
          /\ ~(poll[s].answer = "failed" /\ retry[s] # None /\ retry[s].due)
          /\ UNCHANGED <<state, dirs>>
    /\ todo' = todo \ {s}
    /\ UNCHANGED <<config, runtime, phase, poll, health, published, world>>

BeginDispatch ==
    /\ phase = "apply" /\ todo = {}
    /\ todo' = {s \in Sources : poll[s] # None /\ poll[s].answer # "failed"}
    /\ phase' = "dispatch"
    /\ UNCHANGED <<config, runtime, poll, state, dirs, health, published, world>>

ActiveOn(host) == Cardinality({s \in Sources : running[s] # None /\ running[s].target = host})
HasRoom(host) == ActiveOn(host) < PerHost

\* The first host of the pool with room.
SelectedTargets(s) ==
    LET hosts == HostsOf[last_good[s]]
    IN  IF hosts = <<>> THEN {Local}
        ELSE {hosts[n] : n \in {m \in DOMAIN hosts :
                 HasRoom(hosts[m]) /\ \A l \in 1..m - 1 : ~HasRoom(hosts[l])}}

\* A continuation stays where it was; a new run or one that failed selects its target.
TargetsFor(s) ==
    IF retry[s] = None \/ retry[s].failed THEN SelectedTargets(s)
    ELSE {t \in {retry[s].target} : t = Local \/ HasRoom(t)}

IsWaiting(s) == retry[s] # None /\ ~retry[s].due

\* A candidate is dispatched unless its issue is claimed; a due retry is given up when the
\* issue is no candidate any more, and stays due when there is no room.
Dispatch(s) ==
    LET active == poll[s].answer = "active"
        free == running[s] = None /\ ~IsWaiting(s)
    IN  /\ phase = "dispatch" /\ s \in todo
        /\ \/ /\ active /\ free
              /\ \E t \in TargetsFor(s) :
                     running' = [running EXCEPT ![s] =
                         [target |-> t, root |-> RootOf[last_good[s]],
                          client |-> poll[s].client, task |-> "spawned"]]
              /\ retry' = [retry EXCEPT ![s] = None]
           \/ /\ ~active /\ free /\ retry' = [retry EXCEPT ![s] = None] /\ UNCHANGED running
           \/ /\ ~free \/ (active /\ TargetsFor(s) = {})
              /\ UNCHANGED state
        /\ todo' = todo \ {s}
        /\ UNCHANGED <<config, runtime, phase, poll, dirs, health, published, world>>

EndTick ==
    /\ phase = "dispatch" /\ todo = {}
    /\ poll' = [s \in Sources |-> None] /\ phase' = "select"
    /\ UNCHANGED <<config, runtime, todo, state, dirs, health, world>>
    /\ Publish

-----------------------------------------------------------------------------
(* The select. *)

BeginRound == phase' = "reload" /\ todo' = Sources

\* A timer or a refresh.
Wake ==
    /\ phase = "select" /\ BeginRound
    /\ UNCHANGED <<config, runtime, poll, state, dirs, health, published, world>>

\* Mutant: leaves the publication to the next tick.
KeepsStatus == UNCHANGED published

PublishChange == Publish

ReceiveOutcome(s) ==
    /\ phase = "select" /\ running[s] # None
    /\ running[s].task \in {"normal", "failed", "terminal"}
    /\ running' = [running EXCEPT ![s] = None]
    /\ IF running[s].task = "terminal"
       THEN dirs' = dirs \ {DirNow(s, running[s].target)} /\ UNCHANGED retry
       ELSE /\ retry' = [retry EXCEPT ![s] = [target |-> running[s].target, due |-> FALSE,
                                              failed |-> running[s].task = "failed"]]
            /\ UNCHANGED dirs
    /\ BeginRound
    /\ UNCHANGED <<config, runtime, poll, health, world>>
    /\ PublishChange

\* An operator aborts a worker.
AbortWorker(s) ==
    /\ phase = "select" /\ running[s] # None /\ Disturb
    /\ running' = [running EXCEPT ![s] = None]
    /\ retry' = [retry EXCEPT ![s] = [target |-> running[s].target, due |-> FALSE, failed |-> TRUE]]
    /\ BeginRound
    /\ UNCHANGED <<config, runtime, poll, dirs, health, issue, down>>
    /\ PublishChange

-----------------------------------------------------------------------------
(* Workers, people and the clock. *)

SetTask(s, task) == running' = [running EXCEPT ![s].task = task]

\* The directory is the one of the configuration the worker was dispatched with.
PrepareWorkspace(s) ==
    /\ running[s] # None /\ running[s].task = "spawned"
    /\ SetTask(s, "working")
    /\ dirs' = dirs \cup {<<s, running[s].target, running[s].root>>}
    /\ UNCHANGED <<config, runtime, phase, poll, todo, retry, health, published, world>>

WorkerEnds(s) ==
    /\ running[s] # None /\ running[s].task = "working"
    /\ \/ issue[s] = "done" /\ SetTask(s, "terminal") /\ UNCHANGED disturbances
       \/ issue[s] = "active" /\ SetTask(s, "normal") /\ UNCHANGED disturbances
       \/ SetTask(s, "failed") /\ Disturb
    /\ UNCHANGED <<config, runtime, phase, poll, todo, retry, dirs, health, published, issue, down>>

BecomeDue(s) ==
    /\ retry[s] # None /\ ~retry[s].due
    /\ retry' = [retry EXCEPT ![s].due = TRUE]
    /\ UNCHANGED <<config, runtime, phase, poll, todo, running, dirs, health, published, world>>

Edit(s) ==
    /\ clock < MaxEdits /\ clock' = clock + 1
    /\ \E c \in Contents : file' = [file EXCEPT ![s] = [content |-> c, modified |-> clock']]
    /\ overtaken' = IF loading # None /\ loading.source = s THEN overtaken \cup {s}
                    ELSE overtaken \ {s}
    /\ UNCHANGED <<last_good, last_modified, loading, runtime, phase, poll, todo, state, dirs, health,
                   published, world>>

PeopleMove(s) ==
    /\ Disturb
    /\ \E to \in {"active", "done"} \ {issue[s]} : issue' = [issue EXCEPT ![s] = to]
    /\ UNCHANGED <<config, runtime, phase, poll, todo, state, dirs, health, published, down>>

TrackerFails(s) ==
    /\ s \notin down /\ Disturb /\ down' = down \cup {s}
    /\ UNCHANGED <<config, runtime, phase, poll, todo, state, dirs, health, published, issue>>

TrackerRecovers(s) ==
    /\ s \in down /\ down' = down \ {s}
    /\ UNCHANGED <<config, runtime, phase, poll, todo, state, dirs, health, published, issue,
                   disturbances>>

Step(s) ==
    \/ Load(s) \/ Install(s)
    \/ PlanPoll(s) \/ FetchSourcePoll(s) \/ ApplyAnswer(s) \/ Dispatch(s)

Next ==
    \/ EndReload \/ EndPolls \/ BeginDispatch \/ EndTick \/ Wake
    \/ \E s \in Sources :
          \/ Step(s) \/ ReceiveOutcome(s) \/ AbortWorker(s) \/ PrepareWorkspace(s)
          \/ WorkerEnds(s) \/ BecomeDue(s) \/ Edit(s) \/ PeopleMove(s)
          \/ TrackerFails(s) \/ TrackerRecovers(s)

Spec == Init /\ [][Next]_vars

\* The loop's task is scheduled and its poll timer fires.
Fairness ==
    /\ WF_vars(EndReload) /\ WF_vars(EndPolls) /\ WF_vars(BeginDispatch) /\ WF_vars(EndTick)
    /\ WF_vars(Wake) /\ \A s \in Sources : WF_vars(Step(s))

FairSpec == Spec /\ Fairness

-----------------------------------------------------------------------------
(* Properties. *)

\* No poll is made with a client of settings that a reload has replaced, and a cached
\* client never has the transport of another endpoint or key (tracker_for).
PolledInForce == \A s \in Sources : poll[s] # None => poll[s].client = Wanted(s)

\* Until the first file has been looked at.
RoundBegins == phase = "reload" /\ todo = Sources

\* Whenever the loop waits or begins a round, the status shows every worker and retry
\* there is and the configuration in force (publish_status).
StatusFresh ==
    phase = "select" \/ RoundBegins =>
        /\ published.configs = last_good
        /\ \A s \in Sources :
              /\ (published.running[s] = None) = (running[s] = None)
              /\ (published.retry[s] = None) = (retry[s] = None)

\* SPEC.md:2404: a file that is refused keeps back its own source only; any other edit
\* comes into force unless another one follows (ConfigSetReloader::reload_if_changed) or it
\* falls between the two reads of its file, whose order loses it (reload_now).
EditsTakeEffect ==
    \A s \in Sources :
        file[s].content \in Accepted /\ s \notin overtaken ~>
            \/ last_good[s] = file[s].content
            \/ file[s].content \notin Accepted \/ s \in overtaken

IsReady == \E s \in Sources : health[s] = "ok"

\* Readiness follows the trackers: it goes when none answers, and comes when one does.
ReadinessFollows ==
    /\ down = Sources ~> (~IsReady \/ down # Sources)
    /\ \A s \in Sources : s \notin down ~> (IsReady \/ s \in down)

\* SPEC.md:2202: the configured hosts are the candidates for remote execution, and
\* SPEC.md:583: a reload applies to future dispatch.  A run only starts at a target of
\* the configuration in force.
HostsConfigured ==
    [][\A s \in Sources : running[s] = None /\ running'[s] # None =>
          running'[s].target \in IF HostsOf[last_good[s]] = <<>> THEN {Local}
                                 ELSE HostsIn(last_good[s])]_vars

\* SPEC.md:855: an issue found terminal loses its worker and its workspace, also when the
\* workspace root was changed since its dispatch.
WorkspaceRemoved ==
    [][\A s \in Sources : phase = "apply" /\ running[s] # None /\ running'[s] = None =>
          <<s, running[s].target, running[s].root>> \notin dirs']_vars

=============================================================================

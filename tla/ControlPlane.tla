---------------------------- MODULE ControlPlane ----------------------------
(***************************************************************************)
(* What surrounds the tick: requests to the HTTP interface, each on a      *)
(* thread of its own, with the atomics and channels they share with the    *)
(* service (src/observability/http.rs), the loop of the service that       *)
(* receives them (src/service.rs), and the reload of the workflow file at  *)
(* the top of every round (src/config.rs).                                 *)
(***************************************************************************)
EXTENDS Integers, SequencesExt, Functions

CONSTANTS
    MaxRequests,   \* bound on the requests made
    Cooldown,      \* server.refresh_cooldown_ms
    MaxTime,       \* bound on the clock
    QueueSize,     \* capacity of the control channel
    MaxEdits,      \* bound on the edits of the workflow file
    ValidVersions  \* contents of the file that pass validation

ASSUME ControlAssumption ==
    /\ MaxRequests \in Nat /\ Cooldown \in Nat \ {0} /\ MaxTime \in Nat
    /\ QueueSize \in Nat \ {0} /\ MaxEdits \in Nat
    /\ ValidVersions \subseteq 0..MaxEdits /\ 0 \in ValidVersions

VARIABLES
    pc,             \* where each request is, or how it was answered
    what,           \* what it asks for
    stamp,          \* the time it took at the start of its claim
    seen,           \* the last claim it has loaded
    pending,        \* refresh_pending
    last,           \* refresh_last_accepted_ms: time of the last claim plus one, or 0
    now,            \* the monotonic clock
    refreshes,      \* messages in the refresh channel
    controls,       \* requests in the control channel
    phase,          \* where the service loop is
    applied,        \* commands applied, in order
    owed,           \* refreshes acknowledged since the last poll began
    file,           \* version of the workflow file, and its modification time
    loaded,         \* version read by a reload that is under way
    last_good,      \* version in force
    last_modified   \* modification time remembered

atomics == <<pending, last>>
requests == <<pc, what, stamp, seen>>
config == <<file, loaded, last_good, last_modified>>
service == <<phase, applied>>
channels == <<refreshes, controls>>
vars == <<requests, atomics, now, channels, service, owed, config>>

RequestId == 1..MaxRequests
Version == 0..MaxEdits
Answers == {"queued", "coalesced", "limited", "unavailable", "applied", "gone"}

TypeOK ==
    /\ pc \in [RequestId -> Answers \cup
                   {"new", "claim", "exchange", "swap", "send", "enqueue", "wait"}]
    /\ what \in [RequestId -> {"none", "refresh", "control"}]
    /\ stamp \in [RequestId -> 0..MaxTime] /\ seen \in [RequestId -> 0..MaxTime + 1]
    /\ pending \in BOOLEAN /\ last \in 0..MaxTime + 1 /\ now \in 0..MaxTime
    /\ refreshes \in 0..1
    /\ controls \in Seq(RequestId) /\ Len(controls) <= QueueSize
    /\ phase \in {"stat", "read", "restat", "tick", "select", "clear",
                  "stopping", "stopped"}
    /\ applied \in Seq(RequestId)
    /\ owed \subseteq RequestId
    /\ file \in Version /\ loaded \in Version /\ last_good \in Version /\ last_modified \in Version

Init ==
    /\ pc = [r \in RequestId |-> "new"] /\ what = [r \in RequestId |-> "none"]
    /\ stamp = [r \in RequestId |-> 0] /\ seen = [r \in RequestId |-> 0]
    /\ pending = FALSE /\ last = 0 /\ now = 0
    /\ refreshes = 0 /\ controls = <<>>
    /\ phase = "stat" /\ applied = <<>>
    /\ owed = {}
    /\ file = 0 /\ loaded = 0 /\ last_good = 0 /\ last_modified = 0

-----------------------------------------------------------------------------
(* Requests. *)

Goto(r, place) == pc' = [pc EXCEPT ![r] = place]

Acknowledge(r, how) == Goto(r, how) /\ owed' = owed \cup {r}

\* A claim takes the time first.
BeginClaim(r) ==
    /\ Goto(r, "claim")
    /\ stamp' = [stamp EXCEPT ![r] = now]

\* A refresh that finds one pending is answered at once.
BeginRefresh(r) ==
    /\ pc[r] = "new" /\ phase # "stopped"
    /\ what' = [what EXCEPT ![r] = "refresh"]
    /\ \/ pending /\ Acknowledge(r, "coalesced") /\ UNCHANGED stamp
       \/ ~pending /\ BeginClaim(r) /\ UNCHANGED owed
    /\ UNCHANGED <<seen, atomics, now, channels, service, config>>

BeginControl(r) ==
    /\ pc[r] = "new" /\ phase # "stopped"
    /\ what' = [what EXCEPT ![r] = "control"]
    /\ BeginClaim(r)
    /\ UNCHANGED <<seen, atomics, now, channels, service, owed, config>>

\* Subtraction saturates: a claim newer than the stamp leaves nothing elapsed.
Elapsed(r) == IF stamp[r] >= last - 1 THEN stamp[r] - (last - 1) ELSE 0

LoadLast(r) ==
    /\ pc[r] = "claim"
    /\ seen' = [seen EXCEPT ![r] = last]
    /\ Goto(r, IF last # 0 /\ Elapsed(r) < Cooldown THEN "limited" ELSE "exchange")
    /\ UNCHANGED <<what, stamp, atomics, now, channels, service, owed, config>>

\* Mutant: stores without comparing.
AlwaysStores(r) == TRUE

Unchanged(r) == last = seen[r]

CompareExchange(r) ==
    /\ pc[r] = "exchange"
    /\ \/ /\ Unchanged(r)
          /\ last' = stamp[r] + 1
          /\ Goto(r, IF what[r] = "refresh" THEN "swap" ELSE "enqueue")
          /\ stamp' = [stamp EXCEPT ![r] = 0]
       \/ ~Unchanged(r) /\ Goto(r, "claim") /\ UNCHANGED <<last, stamp>>
    /\ seen' = [seen EXCEPT ![r] = 0]
    /\ UNCHANGED <<what, pending, now, channels, service, owed, config>>

\* Only who finds the flag clear sends a message.
AfterSwap(r) ==
    \/ pending /\ Acknowledge(r, "coalesced")
    \/ ~pending /\ Goto(r, "send") /\ UNCHANGED owed

Swap(r) ==
    /\ pc[r] = "swap"
    /\ pending' = TRUE
    /\ AfterSwap(r)
    /\ UNCHANGED <<what, stamp, seen, last, now, channels, service, config>>

SendRefresh(r) ==
    /\ pc[r] = "send"
    /\ refreshes' = refreshes + 1
    /\ Acknowledge(r, "queued")
    /\ UNCHANGED <<what, stamp, seen, atomics, now, controls, service, config>>

\* Mutant: a command that is refused stays in the queue.
EnqueueWaiting(r) ==
    /\ controls' = Append(controls, r)
    /\ Goto(r, IF Len(controls) < QueueSize THEN "wait" ELSE "unavailable")

TrySend(r) ==
    \/ /\ Len(controls) < QueueSize /\ phase # "stopped"
       /\ controls' = Append(controls, r) /\ Goto(r, "wait")
    \/ /\ Len(controls) >= QueueSize \/ phase = "stopped"
       /\ Goto(r, "unavailable") /\ UNCHANGED controls

SubmitControl(r) ==
    /\ pc[r] = "enqueue"
    /\ TrySend(r)
    /\ UNCHANGED <<what, stamp, seen, atomics, now, refreshes, service, owed, config>>

\* The client closes the connection: its handler is dropped, the command is not.
Disconnect(r) ==
    /\ pc[r] = "wait" /\ Goto(r, "gone")
    /\ UNCHANGED <<what, stamp, seen, atomics, now, channels, service, owed, config>>

HandlerStep(r) ==
    LoadLast(r) \/ CompareExchange(r) \/ Swap(r) \/ SendRefresh(r) \/ SubmitControl(r)

-----------------------------------------------------------------------------
(* The reload at the top of a round, and the tick. *)

BeginTick == phase' = "tick" /\ owed' = {}

\* An unchanged modification time means nothing to do.
Stat ==
    /\ phase = "stat"
    /\ \/ file = last_modified /\ BeginTick
       \/ file # last_modified /\ phase' = "read" /\ UNCHANGED owed
    /\ UNCHANGED <<requests, atomics, now, channels, applied, config>>

IsValid(v) == v \in ValidVersions

\* An invalid file keeps the last good configuration, and is read again next time.
ReadWorkflow ==
    /\ phase = "read"
    /\ loaded' = file
    /\ \/ IsValid(file) /\ phase' = "restat" /\ UNCHANGED owed
       \/ ~IsValid(file) /\ BeginTick
    /\ UNCHANGED <<requests, atomics, now, channels, applied>>
    /\ UNCHANGED <<file, last_good, last_modified>>

\* The modification time is taken after the contents have been read.
ApplyWorkflow ==
    /\ phase = "restat"
    /\ last_modified' = file /\ last_good' = loaded
    /\ BeginTick
    /\ UNCHANGED <<requests, atomics, now, channels, applied, file, loaded>>

\* The tick, as Service has it, and the publishing of the status.
EndTick ==
    /\ phase = "tick" /\ phase' = "select"
    /\ UNCHANGED <<requests, atomics, now, channels, applied, owed, config>>

-----------------------------------------------------------------------------
(* The select. *)

\* A timer, an event or an outcome.
Wake ==
    /\ phase = "select" /\ phase' = "stat"
    /\ UNCHANGED <<requests, atomics, now, channels, applied, owed, config>>

\* The command is applied (Service has its effects) and answered if somebody waits.
ReceiveControl ==
    /\ phase = "select" /\ controls # <<>>
    /\ LET r == Head(controls) IN
          /\ applied' = Append(applied, r)
          /\ pc' = IF pc[r] = "wait" THEN [pc EXCEPT ![r] = "applied"] ELSE pc
    /\ controls' = Tail(controls)
    /\ phase' = "stat"
    /\ UNCHANGED <<what, stamp, seen, atomics, now, refreshes, owed, config>>

\* Mutant: the next round waits for a timer.
DrainWithoutPoll ==
    \/ phase = "select" /\ refreshes > 0 /\ refreshes' = 0 /\ phase' = "clear" /\ UNCHANGED pending
    \/ phase = "clear" /\ pending' = FALSE /\ phase' = "select" /\ UNCHANGED refreshes

\* Mutant: the flag is cleared before the channel is emptied.
ClearThenDrain ==
    \/ phase = "select" /\ refreshes > 0 /\ pending' = FALSE /\ phase' = "clear" /\ UNCHANGED refreshes
    \/ phase = "clear" /\ refreshes' = 0 /\ phase' = "stat" /\ UNCHANGED pending

DrainThenClear ==
    \/ phase = "select" /\ refreshes > 0 /\ refreshes' = 0 /\ phase' = "clear" /\ UNCHANGED pending
    \/ phase = "clear" /\ pending' = FALSE /\ phase' = "stat" /\ UNCHANGED refreshes

\* The channel is emptied and the flag cleared; the poll comes after both.
ReceiveRefresh ==
    /\ DrainThenClear
    /\ UNCHANGED <<requests, last, now, controls, applied, owed, config>>

Shutdown ==
    /\ phase = "select" /\ phase' = "stopping"
    /\ UNCHANGED <<requests, atomics, now, channels, applied, owed, config>>

\* The channel is closed with the loop: who still waits is told so.
CloseControls ==
    /\ pc' = [r \in RequestId |-> IF pc[r] = "wait" THEN "unavailable" ELSE pc[r]]
    /\ controls' = <<>>

\* Once the workers have ended or the drain timeout is over; commands are not
\* received in the meantime.
Stop ==
    /\ phase = "stopping" /\ phase' = "stopped"
    /\ CloseControls
    /\ UNCHANGED <<what, stamp, seen, atomics, now, refreshes, applied, owed, config>>

-----------------------------------------------------------------------------

Time ==
    /\ now < MaxTime /\ now' = now + 1
    /\ UNCHANGED <<requests, atomics, channels, service, owed, config>>

\* Somebody writes the workflow file.
Edit ==
    /\ file < MaxEdits /\ file' = file + 1
    /\ UNCHANGED <<requests, atomics, now, channels, service, owed, loaded, last_good, last_modified>>

Rest == phase = "stopped" /\ UNCHANGED vars

LoopStep == Stat \/ ReadWorkflow \/ ApplyWorkflow \/ EndTick \/ Stop

Next ==
    \/ \E r \in RequestId : BeginRefresh(r) \/ BeginControl(r) \/ HandlerStep(r) \/ Disconnect(r)
    \/ LoopStep \/ Wake \/ ReceiveControl \/ ReceiveRefresh \/ Shutdown
    \/ Time \/ Edit \/ Rest

Spec == Init /\ [][Next]_vars

\* Threads run, ticks end, and the select draws among the branches that are ready at
\* random; its timers are hours away.
FairSpec ==
    /\ Spec
    /\ \A r \in RequestId : WF_vars(HandlerStep(r))
    /\ WF_vars(LoopStep) /\ SF_vars(ReceiveControl) /\ SF_vars(ReceiveRefresh)

\* The poll timer fires as well.
TimedSpec == FairSpec /\ WF_vars(Wake)

-----------------------------------------------------------------------------
(* Properties. *)

\* However many threads claim at once, two accepted claims are a cooldown apart: none
\* slips in between the load and the exchange (claim_refresh_cooldown).
CooldownHolds == [][last' # last /\ last # 0 => last' - last >= Cooldown]_vars

\* The flag is set only while somebody will act on it, and one message is enough: a
\* refresh that relies on the flag is never left alone (refresh_api and the select).
RefreshNotLost ==
    /\ pending => refreshes > 0 \/ phase = "clear" \/ \E r \in RequestId : pc[r] = "send"
    /\ refreshes > 0 => pending

\* README.md:82: an acknowledged refresh, queued or coalesced, is followed by a poll
\* that began after it, without help of the poll timer.
RefreshServed == owed # {} ~> (owed = {} \/ phase \in {"stopping", "stopped"})

\* A command is applied once or never, and its client is not told otherwise, also when
\* the queue is full, the client hangs up or the service stops (submit_control).
AnsweredTruthfully ==
    /\ IsInjective(applied)
    /\ \A r \in RequestId : pc[r] = "applied" => r \in Range(applied)
    /\ \A n \in DOMAIN applied : pc[applied[n]] \in {"applied", "gone"}

\* Nobody waits for ever for the answer to a command.
CommandsAnswered == \A r \in RequestId : pc[r] = "wait" ~> pc[r] # "wait"

\* SPEC.md:590-591: an invalid file never comes into force, and no reload goes back to
\* an earlier version.
ReloadKeepsGood ==
    [][last_good' # last_good => last_good' > last_good /\ last_good' \in ValidVersions]_vars

\* SPEC.md:577-578: a change of the workflow file is detected and applied.
ConfigPickedUp ==
    \A v \in ValidVersions :
        (file = v) ~> (file # v \/ last_good = v \/ phase \in {"stopping", "stopped"})

=============================================================================

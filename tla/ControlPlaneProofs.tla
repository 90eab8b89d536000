------------------------- MODULE ControlPlaneProofs ------------------------
(***************************************************************************)
(* For every number of requests, every queue, cooldown and workflow file:  *)
(* the variables keep their types, accepted claims are a cooldown apart,   *)
(* no refresh is lost, every command is answered truthfully, and no        *)
(* invalid or older configuration comes into force.                        *)
(*                                                                         *)
(* Then, for every number of workers, turns and tokens, the events that    *)
(* the same loop receives: the totals of TokenAccounting count no token    *)
(* more than once per turn of its thread, and never twice when a worker    *)
(* has one turn; the session of a first turn ends up with all that its     *)
(* thread has used.                                                        *)
(***************************************************************************)
EXTENDS ControlPlane, TokenAccounting, SequenceTheorems, WellFoundedInduction, TLAPS

\* The flag, the channel, the thread that is about to send and the loop that clears.
FlagKept ==
    /\ RefreshNotLost
    /\ phase = "clear" => pending /\ refreshes = 0
    /\ \A r \in RequestId : pc[r] = "send" =>
         /\ pending /\ refreshes = 0 /\ phase # "clear"
         /\ \A s \in RequestId : pc[s] = "send" => s = r

\* A thread that may exchange has seen the cooldown over; times are not in the future.
ClaimsApart ==
    \A r \in RequestId : pc[r] = "exchange" /\ seen[r] # 0 => stamp[r] - (seen[r] - 1) >= Cooldown

\* A command is in the queue, or was applied, once.
QueueKept ==
    /\ \A m, n \in 1..Len(controls) : controls[m] = controls[n] => m = n
    /\ \A m, n \in 1..Len(applied) : applied[m] = applied[n] => m = n
    /\ \A m \in 1..Len(controls) : pc[controls[m]] \in {"wait", "gone"}
    /\ \A m \in 1..Len(controls), n \in 1..Len(applied) : controls[m] # applied[n]
    /\ \A n \in 1..Len(applied) : pc[applied[n]] \in {"applied", "gone"}
    /\ \A r \in RequestId : pc[r] = "applied" => \E n \in 1..Len(applied) : applied[n] = r

IInv == TypeOK /\ FlagKept /\ ClaimsApart /\ QueueKept

LEMMA InitEstablishes == Init => IInv
  <1> SUFFICES ASSUME Init PROVE IInv
    OBVIOUS
  <1>1. /\ controls \in Seq(RequestId) /\ Len(controls) = 0
        /\ applied \in Seq(RequestId) /\ Len(applied) = 0
    BY DEF Init
  <1>2. /\ pc \in [RequestId -> Answers \cup
                     {"new", "claim", "exchange", "swap", "send", "enqueue", "wait"}]
        /\ what \in [RequestId -> {"none", "refresh", "control"}]
        /\ stamp \in [RequestId -> 0..MaxTime] /\ seen \in [RequestId -> 0..MaxTime + 1]
    BY ControlAssumption DEF Init
  <1>3. now \in 0..MaxTime /\ last \in 0..MaxTime + 1 /\ 0 \in Version
    BY ControlAssumption DEF Init, Version
  <1>4. TypeOK
    <2>1. pending \in BOOLEAN
      BY DEF Init
    <2>2. refreshes \in 0..1 /\ Len(controls) <= QueueSize
      BY <1>1, ControlAssumption DEF Init
    <2>3. /\ phase \in {"stat", "read", "restat", "tick", "select", "clear", "stopping", "stopped"}
          /\ owed \subseteq RequestId
          /\ file \in Version /\ loaded \in Version /\ last_good \in Version
          /\ last_modified \in Version
      BY <1>3 DEF Init
    <2>4. QED
      BY <1>1, <1>2, <1>3, <2>1, <2>2, <2>3 DEF TypeOK
  <1>5. QED
    BY <1>1, <1>2, <1>4, ControlAssumption
    DEF Init, IInv, FlagKept, RefreshNotLost, ClaimsApart, QueueKept

-----------------------------------------------------------------------------
(* Requests. *)

\* A request that moves on without a part in the refresh leaves the flag as it was.
LEMMA FlagUntouched ==
  ASSUME FlagKept, TypeOK, NEW r \in RequestId, NEW x,
         pc' = [pc EXCEPT ![r] = x], pc[r] # "send", x # "send",
         UNCHANGED <<pending, refreshes, phase>>
  PROVE  FlagKept'
  BY DEF FlagKept, RefreshNotLost, TypeOK

\* A request that was not in the queue and is not put there leaves it as it was.
LEMMA QueueUntouched ==
  ASSUME QueueKept, TypeOK, NEW r \in RequestId, NEW x,
         pc' = [pc EXCEPT ![r] = x], pc[r] \notin {"wait", "gone", "applied"}, x # "applied",
         UNCHANGED <<controls, applied>>
  PROVE  QueueKept'
  <1>1. \A m \in 1..Len(controls) : controls[m] \in RequestId /\ controls[m] # r
    BY DEF QueueKept, TypeOK
  <1>2. \A n \in 1..Len(applied) : applied[n] \in RequestId /\ applied[n] # r
    BY DEF QueueKept, TypeOK
  <1>3. \A q \in RequestId : q # r => pc'[q] = pc[q]
    BY DEF TypeOK
  <1>4. QED
    BY <1>1, <1>2, <1>3 DEF QueueKept

LEMMA RequestTypes ==
  ASSUME TypeOK, NEW r \in RequestId, BeginRefresh(r) \/ BeginControl(r) \/ LoadLast(r)
             \/ CompareExchange(r) \/ Swap(r) \/ SubmitControl(r) \/ Disconnect(r)
  PROVE  TypeOK'
  <1> USE ControlAssumption DEF Goto, atomics, channels, service, config
  <1>1. ASSUME NEW x \in Answers \cup {"new", "claim", "exchange", "swap", "send", "enqueue", "wait"},
               pc' = [pc EXCEPT ![r] = x]
        PROVE  pc' \in [RequestId -> Answers \cup
                          {"new", "claim", "exchange", "swap", "send", "enqueue", "wait"}]
    BY <1>1 DEF TypeOK
  <1>2. CASE BeginRefresh(r)
    <2>1. /\ pc' = [pc EXCEPT ![r] = "coalesced"] \/ pc' = [pc EXCEPT ![r] = "claim"]
          /\ what' = [what EXCEPT ![r] = "refresh"]
          /\ stamp' \in {stamp, [stamp EXCEPT ![r] = now]}
          /\ owed' \in {owed, owed \cup {r}}
      BY <1>2 DEF BeginRefresh, BeginClaim, Acknowledge
    <2>2. pc' \in [RequestId -> Answers \cup
                     {"new", "claim", "exchange", "swap", "send", "enqueue", "wait"}]
      BY <1>1, <2>1 DEF Answers
    <2>3. stamp' \in [RequestId -> 0..MaxTime] /\ owed' \subseteq RequestId
          /\ what' \in [RequestId -> {"none", "refresh", "control"}]
      BY <2>1 DEF TypeOK
    <2>4. UNCHANGED <<seen, pending, last, now, refreshes, controls, phase, applied,
                      file, loaded, last_good, last_modified>>
      BY <1>2 DEF BeginRefresh
    <2>5. QED
      BY <2>2, <2>3, <2>4 DEF TypeOK
  <1>3. CASE BeginControl(r)
    BY <1>1, <1>3 DEF TypeOK, BeginControl, BeginClaim, Answers
  <1>4. CASE LoadLast(r)
    BY <1>1, <1>4 DEF TypeOK, LoadLast, Answers
  <1>5. CASE CompareExchange(r)
    <2>1. stamp' \in [RequestId -> 0..MaxTime] /\ seen' \in [RequestId -> 0..MaxTime + 1]
      <3>1. stamp' \in {stamp, [stamp EXCEPT ![r] = 0]} /\ seen' = [seen EXCEPT ![r] = 0]
        BY <1>5 DEF CompareExchange
      <3>2. stamp' \in [RequestId -> 0..MaxTime]
        <4>1. stamp \in [RequestId -> 0..MaxTime] /\ 0 \in 0..MaxTime
          BY DEF TypeOK
        <4>2. QED
          BY <3>1, <4>1
      <3>3. seen' \in [RequestId -> 0..MaxTime + 1]
        BY <3>1 DEF TypeOK
      <3>4. QED
        BY <3>2, <3>3
    <2>2. last' \in 0..MaxTime + 1
      BY <1>5 DEF TypeOK, CompareExchange
    <2>3. QED
      BY <1>1, <1>5, <2>1, <2>2 DEF TypeOK, CompareExchange, Answers
  <1>6. CASE Swap(r)
    BY <1>1, <1>6 DEF TypeOK, Swap, AfterSwap, Acknowledge, Answers
  <1>7. CASE SubmitControl(r)
    <2>1. controls' \in Seq(RequestId) /\ Len(controls') <= QueueSize
      <3>1. CASE UNCHANGED controls
        BY <3>1 DEF TypeOK
      <3>2. CASE controls' = Append(controls, r) /\ Len(controls) < QueueSize
        <4>1. controls' \in Seq(RequestId) /\ Len(controls') = Len(controls) + 1
          BY <3>2 DEF TypeOK
        <4>2. QED
          BY <3>2, <4>1 DEF TypeOK
      <3>3. QED
        BY <1>7, <3>1, <3>2 DEF SubmitControl, TrySend
    <2>2. pc' \in [RequestId -> Answers \cup
                     {"new", "claim", "exchange", "swap", "send", "enqueue", "wait"}]
      BY <1>1, <1>7 DEF SubmitControl, TrySend, Answers
    <2>3. QED
      BY <1>7, <2>1, <2>2 DEF TypeOK, SubmitControl
  <1>8. CASE Disconnect(r)
    BY <1>1, <1>8 DEF TypeOK, Disconnect, Answers
  <1>9. QED
    BY <1>2, <1>3, <1>4, <1>5, <1>6, <1>7, <1>8

LEMMA RequestClaims ==
  ASSUME IInv, NEW r \in RequestId,
         BeginRefresh(r) \/ BeginControl(r) \/ HandlerStep(r) \/ Disconnect(r)
  PROVE  ClaimsApart'
  <1> USE ControlAssumption DEF IInv, TypeOK, ClaimsApart, Goto
  <1>1. CASE BeginRefresh(r)
    BY <1>1 DEF BeginRefresh, BeginClaim, Acknowledge
  <1>2. CASE BeginControl(r)
    BY <1>2 DEF BeginControl, BeginClaim
  <1>3. CASE LoadLast(r)
    <2>1. pc'[r] = "exchange" /\ seen'[r] # 0 => Elapsed(r) >= Cooldown
      BY <1>3 DEF LoadLast, Elapsed
    <2>2. Elapsed(r) >= Cooldown => stamp[r] - (last - 1) >= Cooldown
      BY DEF Elapsed
    <2>3. QED
      BY <1>3, <2>1, <2>2 DEF LoadLast
  <1>4. CASE CompareExchange(r)
    BY <1>4 DEF CompareExchange
  <1>5. CASE Swap(r)
    BY <1>5 DEF Swap, AfterSwap, Acknowledge
  <1>6. CASE SendRefresh(r)
    BY <1>6 DEF SendRefresh, Acknowledge
  <1>7. CASE SubmitControl(r)
    BY <1>7 DEF SubmitControl, TrySend
  <1>8. CASE Disconnect(r)
    BY <1>8 DEF Disconnect
  <1>9. QED
    BY <1>1, <1>2, <1>3, <1>4, <1>5, <1>6, <1>7, <1>8 DEF HandlerStep

LEMMA RequestPreserves ==
  ASSUME IInv, NEW r \in RequestId,
         BeginRefresh(r) \/ BeginControl(r) \/ HandlerStep(r) \/ Disconnect(r)
  PROVE  IInv'
  <1> USE DEF IInv, Goto, atomics, channels, service, config
  <1>2. ClaimsApart'
    BY RequestClaims
  <1>3. CASE BeginRefresh(r)
    <2>1. TypeOK'
      BY <1>3, RequestTypes
    <2>2. PICK x \in {"coalesced", "claim"} : pc' = [pc EXCEPT ![r] = x]
      BY <1>3 DEF BeginRefresh, BeginClaim, Acknowledge
    <2>3. FlagKept' /\ QueueKept'
      BY <1>3, <2>2, FlagUntouched, QueueUntouched DEF BeginRefresh
    <2>4. QED
      BY <1>2, <2>1, <2>3
  <1>4. CASE BeginControl(r)
    <2>1. TypeOK'
      BY <1>4, RequestTypes
    <2>2. FlagKept' /\ QueueKept'
      BY <1>4, FlagUntouched, QueueUntouched DEF BeginControl, BeginClaim
    <2>3. QED
      BY <1>2, <2>1, <2>2
  <1>5. CASE LoadLast(r)
    <2>1. TypeOK'
      BY <1>5, RequestTypes
    <2>2. PICK x \in {"limited", "exchange"} : pc' = [pc EXCEPT ![r] = x]
      BY <1>5 DEF LoadLast
    <2>3. FlagKept' /\ QueueKept'
      BY <1>5, <2>2, FlagUntouched, QueueUntouched DEF LoadLast
    <2>4. QED
      BY <1>2, <2>1, <2>3
  <1>6. CASE CompareExchange(r)
    <2>1. TypeOK'
      BY <1>6, RequestTypes
    <2>2. PICK x \in {"swap", "enqueue", "claim"} : pc' = [pc EXCEPT ![r] = x]
      BY <1>6 DEF CompareExchange
    <2>3. FlagKept' /\ QueueKept'
      BY <1>6, <2>2, FlagUntouched, QueueUntouched DEF CompareExchange
    <2>4. QED
      BY <1>2, <2>1, <2>3
  <1>7. CASE Swap(r)
    <2>1. TypeOK'
      BY <1>7, RequestTypes
    <2>2. PICK x \in {"coalesced", "send"} : pc' = [pc EXCEPT ![r] = x]
      BY <1>7 DEF Swap, AfterSwap, Acknowledge
    <2>3. QueueKept'
      BY <1>7, <2>2, QueueUntouched DEF Swap
    <2>4. FlagKept'
      BY <1>7 DEF Swap, AfterSwap, Acknowledge, FlagKept, RefreshNotLost, TypeOK
    <2>5. QED
      BY <1>2, <2>1, <2>3, <2>4
  <1>8. CASE SendRefresh(r)
    <2>1. refreshes = 0
      BY <1>8 DEF SendRefresh, FlagKept
    <2>2. TypeOK'
      BY <1>8, <2>1 DEF SendRefresh, Acknowledge, TypeOK, Answers
    <2>3. QueueKept'
      BY <1>8, QueueUntouched DEF SendRefresh, Acknowledge
    <2>4. FlagKept'
      BY <1>8, <2>1 DEF SendRefresh, Acknowledge, FlagKept, RefreshNotLost, TypeOK
    <2>5. QED
      BY <1>2, <2>2, <2>3, <2>4
  <1>9. CASE SubmitControl(r)
    <2>1. TypeOK'
      BY <1>9, RequestTypes
    <2>2. PICK x \in {"wait", "unavailable"} : pc' = [pc EXCEPT ![r] = x]
      BY <1>9 DEF SubmitControl, TrySend
    <2>3. FlagKept'
      BY <1>9, <2>2, FlagUntouched DEF SubmitControl, TrySend
    <2>4. QueueKept'
      <3>1. CASE UNCHANGED controls
        BY <1>9, <2>2, <3>1, QueueUntouched DEF SubmitControl
      <3>2. CASE controls' = Append(controls, r) /\ pc' = [pc EXCEPT ![r] = "wait"]
        <4>1. /\ Len(controls') = Len(controls) + 1 /\ controls'[Len(controls) + 1] = r
              /\ \A m \in 1..Len(controls) : controls'[m] = controls[m]
              /\ Len(controls) \in Nat
          BY <3>2 DEF TypeOK
        <4>2. /\ \A m \in 1..Len(controls) : controls[m] # r
              /\ \A n \in 1..Len(applied) : applied[n] # r
          BY <1>9 DEF SubmitControl, QueueKept
        <4>3. UNCHANGED applied /\ pc[r] = "enqueue"
          BY <1>9 DEF SubmitControl
        <4>4. \A m \in 1..Len(controls') : m = Len(controls) + 1 \/ m \in 1..Len(controls)
          BY <4>1
        <4>5. /\ \A q \in RequestId : q # r => pc'[q] = pc[q]
              /\ pc'[r] = "wait"
          BY <3>2 DEF TypeOK
        <4>6. /\ \A m \in 1..Len(controls) : controls[m] \in RequestId
              /\ \A n \in 1..Len(applied) : applied[n] \in RequestId
          BY DEF TypeOK
        <4>7. \A m, n \in 1..Len(controls') : controls'[m] = controls'[n] => m = n
          BY <4>1, <4>2, <4>4 DEF QueueKept
        <4>8. \A m \in 1..Len(controls') : pc'[controls'[m]] \in {"wait", "gone"}
          BY <4>1, <4>2, <4>4, <4>5, <4>6 DEF QueueKept
        <4>9. \A m \in 1..Len(controls'), n \in 1..Len(applied) : controls'[m] # applied[n]
          BY <4>1, <4>2, <4>4 DEF QueueKept
        <4>10. \A n \in 1..Len(applied) : pc'[applied[n]] \in {"applied", "gone"}
          BY <4>2, <4>5, <4>6 DEF QueueKept
        <4>11. \A q \in RequestId : pc'[q] = "applied" => \E n \in 1..Len(applied) : applied[n] = q
          BY <4>5 DEF QueueKept
        <4>12. QED
          BY <4>3, <4>7, <4>8, <4>9, <4>10, <4>11 DEF QueueKept
      <3>3. QED
        BY <1>9, <3>1, <3>2 DEF SubmitControl, TrySend
    <2>5. QED
      BY <1>2, <2>1, <2>3, <2>4
  <1>10. CASE Disconnect(r)
    <2>1. TypeOK'
      BY <1>10, RequestTypes
    <2>2. FlagKept'
      BY <1>10, FlagUntouched DEF Disconnect
    <2>3. QueueKept'
      <3>1. /\ pc[r] = "wait" /\ pc' = [pc EXCEPT ![r] = "gone"]
            /\ UNCHANGED <<controls, applied>>
        BY <1>10 DEF Disconnect
      <3>2. /\ \A q \in RequestId : q # r => pc'[q] = pc[q]
            /\ pc'[r] = "gone"
        BY <3>1 DEF TypeOK
      <3>3. /\ \A m \in 1..Len(controls) : controls[m] \in RequestId
            /\ \A n \in 1..Len(applied) : applied[n] \in RequestId
        BY DEF TypeOK
      <3>4. QED
        BY <3>1, <3>2, <3>3 DEF QueueKept
    <2>4. QED
      BY <1>2, <2>1, <2>2, <2>3
  <1>11. QED
    BY <1>3, <1>4, <1>5, <1>6, <1>7, <1>8, <1>9, <1>10 DEF HandlerStep

-----------------------------------------------------------------------------
(* The loop of the service. *)

LEMMA LoopPreserves ==
  ASSUME IInv, LoopStep \/ Wake \/ ReceiveControl \/ ReceiveRefresh \/ Shutdown \/ Time \/ Edit \/ Rest
  PROVE  IInv'
  <1> USE ControlAssumption DEF IInv, requests, atomics, channels, service, config, BeginTick
  <1>1. CASE Stat \/ EndTick \/ Wake \/ Shutdown
    <2>1. TypeOK'
      BY <1>1 DEF Stat, EndTick, Wake, Shutdown, TypeOK
    <2>2. UNCHANGED <<pc, stamp, seen, pending, refreshes, controls, applied>> /\ phase' # "clear"
          /\ phase # "clear"
      BY <1>1 DEF Stat, EndTick, Wake, Shutdown
    <2>3. QED
      BY <2>1, <2>2 DEF FlagKept, RefreshNotLost, ClaimsApart, QueueKept
  <1>2. CASE ReadWorkflow \/ ApplyWorkflow \/ Edit \/ Time
    <2>1. CASE ReadWorkflow
      <3>1. /\ UNCHANGED <<pc, what, stamp, seen, pending, last, now, refreshes, controls, applied,
                           file, last_good, last_modified>>
            /\ loaded' = file /\ phase = "read" /\ phase' \in {"restat", "tick"} /\ owed' \in {owed, {}}
        BY <2>1 DEF ReadWorkflow
      <3>2. QED
        BY <3>1 DEF TypeOK, FlagKept, RefreshNotLost, ClaimsApart, QueueKept
    <2>2. CASE ApplyWorkflow
      <3>1. /\ UNCHANGED <<pc, what, stamp, seen, pending, last, now, refreshes, controls, applied,
                           file, loaded>>
            /\ last_good' = loaded /\ last_modified' = file /\ owed' = {}
            /\ phase = "restat" /\ phase' = "tick"
        BY <2>2 DEF ApplyWorkflow
      <3>2. QED
        BY <3>1 DEF TypeOK, FlagKept, RefreshNotLost, ClaimsApart, QueueKept
    <2>3. CASE Edit
      <3>1. file' \in Version
        BY <2>3 DEF Edit, TypeOK, Version
      <3>2. QED
        BY <2>3, <3>1 DEF Edit, TypeOK, FlagKept, RefreshNotLost, ClaimsApart, QueueKept
    <2>4. CASE Time
      <3>1. now' \in 0..MaxTime
        BY <2>4 DEF Time, TypeOK
      <3>2. QED
        BY <2>4, <3>1 DEF Time, TypeOK, FlagKept, RefreshNotLost, ClaimsApart, QueueKept
    <2>5. QED
      BY <1>2, <2>1, <2>2, <2>3, <2>4
  <1>3. CASE ReceiveControl
    <2> DEFINE r == Head(controls)
    <2>1. /\ controls \in Seq(RequestId) /\ controls # <<>> /\ Len(controls) \in Nat \ {0}
          /\ r \in RequestId /\ r = controls[1] /\ pc[r] \in {"wait", "gone"}
      BY <1>3 DEF ReceiveControl, TypeOK, QueueKept
    <2>2. pc' = IF pc[r] = "wait" THEN [pc EXCEPT ![r] = "applied"] ELSE pc
      BY <1>3 DEF ReceiveControl
    <2>3. /\ controls' \in Seq(RequestId) /\ Len(controls') = Len(controls) - 1
          /\ \A m \in 1..Len(controls') : controls'[m] = controls[m + 1]
      BY <1>3, <2>1 DEF ReceiveControl
    <2>4. /\ applied' \in Seq(RequestId) /\ Len(applied') = Len(applied) + 1
          /\ applied'[Len(applied) + 1] = r /\ Len(applied) \in Nat
          /\ \A m \in 1..Len(applied) : applied'[m] = applied[m]
      BY <1>3, <2>1 DEF ReceiveControl, TypeOK
    <2>5. /\ UNCHANGED <<what, stamp, seen, pending, last, now, refreshes, owed, file, loaded,
                         last_good, last_modified>>
          /\ phase = "select" /\ phase' = "stat"
      BY <1>3 DEF ReceiveControl
    <2> HIDE DEF r
    <2>6. pc' \in [RequestId -> Answers \cup
                     {"new", "claim", "exchange", "swap", "send", "enqueue", "wait"}]
      BY <2>1, <2>2 DEF TypeOK, Answers
    <2>7. TypeOK'
      <3>1. controls' \in Seq(RequestId) /\ Len(controls') <= QueueSize
        <4>1. Len(controls) \in Nat /\ Len(controls) <= QueueSize /\ QueueSize \in Nat
          BY ControlAssumption DEF TypeOK
        <4>2. QED
          BY <2>3, <4>1
      <3>2. phase' \in {"stat", "read", "restat", "tick", "select", "clear", "stopping", "stopped"}
        BY <2>5
      <3>3. QED
        BY <2>4, <2>5, <2>6, <3>1, <3>2 DEF TypeOK
    <2>8. FlagKept' /\ ClaimsApart'
      BY <2>1, <2>2, <2>5 DEF TypeOK, FlagKept, RefreshNotLost, ClaimsApart
    <2>9. \A m \in 1..Len(controls') : controls'[m] # r
      BY <2>1, <2>3 DEF QueueKept
    <2>10. \A n \in 1..Len(applied) : applied[n] # r
      BY <2>1 DEF QueueKept
    <2>11. \A q \in RequestId : q # r => pc'[q] = pc[q]
      BY <2>1, <2>2 DEF TypeOK
    <2>12. pc'[r] \in {"applied", "gone"}
      BY <2>1, <2>2 DEF TypeOK
    <2>13. \A m \in 1..Len(controls') : /\ m + 1 \in 1..Len(controls)
                                        /\ controls'[m] = controls[m + 1] /\ controls'[m] \in RequestId
      BY <2>1, <2>3
    <2>14. /\ \A m, n \in 1..Len(controls') : controls'[m] = controls'[n] => m = n
           /\ \A m \in 1..Len(controls') : pc'[controls'[m]] \in {"wait", "gone"}
      <3>1. ASSUME NEW m \in 1..Len(controls'), NEW n \in 1..Len(controls'),
                   controls'[m] = controls'[n]
            PROVE  m = n
        <4>1. m + 1 = n + 1
          BY <2>13, <3>1 DEF QueueKept
        <4>2. QED
          BY <4>1
      <3>2. ASSUME NEW m \in 1..Len(controls') PROVE pc'[controls'[m]] \in {"wait", "gone"}
        <4>1. controls'[m] = controls[m + 1] /\ pc[controls[m + 1]] \in {"wait", "gone"}
          BY <2>13 DEF QueueKept
        <4>2. pc'[controls'[m]] = pc[controls'[m]]
          BY <2>9, <2>11, <2>13
        <4>3. QED
          BY <4>1, <4>2
      <3>3. QED
        BY <3>1, <3>2
    <2>15. \A n \in 1..Len(applied') : n = Len(applied) + 1 \/ n \in 1..Len(applied)
      BY <2>4
    <2>16. /\ \A m, n \in 1..Len(applied') : applied'[m] = applied'[n] => m = n
           /\ \A n \in 1..Len(applied') : pc'[applied'[n]] \in {"applied", "gone"}
      <3>1. \A n \in 1..Len(applied) : applied[n] \in RequestId
        BY DEF TypeOK
      <3>2. \A m, n \in 1..Len(applied') : applied'[m] = applied'[n] => m = n
        BY <2>4, <2>10, <2>15 DEF QueueKept
      <3>3. \A n \in 1..Len(applied') : pc'[applied'[n]] \in {"applied", "gone"}
        BY <2>4, <2>10, <2>11, <2>12, <2>15, <3>1 DEF QueueKept
      <3>4. QED
        BY <3>2, <3>3
    <2>17. \A m \in 1..Len(controls'), n \in 1..Len(applied') : controls'[m] # applied'[n]
      BY <2>4, <2>9, <2>13, <2>15 DEF QueueKept
    <2>18. \A q \in RequestId : pc'[q] = "applied" => \E n \in 1..Len(applied') : applied'[n] = q
      <3> SUFFICES ASSUME NEW q \in RequestId, pc'[q] = "applied"
                   PROVE  \E n \in 1..Len(applied') : applied'[n] = q
        OBVIOUS
      <3>1. CASE q = r
        BY <2>4, <3>1
      <3>2. CASE q # r
        BY <2>4, <2>11, <3>2 DEF QueueKept
      <3>3. QED
        BY <3>1, <3>2
    <2>19. QueueKept'
      BY <2>14, <2>16, <2>17, <2>18 DEF QueueKept
    <2>20. QED
      BY <2>7, <2>8, <2>19
  <1>4. CASE ReceiveRefresh
    <2>1. UNCHANGED <<pc, what, stamp, seen, last, now, controls, applied, owed, file, loaded,
                      last_good, last_modified>>
      BY <1>4 DEF ReceiveRefresh
    <2>2. /\ refreshes' \in {0, refreshes} /\ pending' \in {FALSE, pending}
          /\ phase' \in {"clear", "stat"}
      BY <1>4 DEF ReceiveRefresh, DrainThenClear
    <2>3. TypeOK' /\ ClaimsApart' /\ QueueKept'
      <3>1. pending' \in BOOLEAN
        BY <2>2 DEF TypeOK
      <3>2. refreshes' \in 0..1
        BY <2>2 DEF TypeOK
      <3>3. QED
        BY <2>1, <2>2, <3>1, <3>2 DEF TypeOK, ClaimsApart, QueueKept
    <2>4. FlagKept'
      BY <1>4, <2>1 DEF ReceiveRefresh, DrainThenClear, TypeOK, FlagKept, RefreshNotLost
    <2>5. QED
      BY <2>3, <2>4
  <1>5. CASE Stop
    <2>1. controls' \in Seq(RequestId) /\ Len(controls') = 0
      BY <1>5 DEF Stop, CloseControls
    <2>2. pc' \in [RequestId -> Answers \cup
                     {"new", "claim", "exchange", "swap", "send", "enqueue", "wait"}]
      BY <1>5 DEF Stop, CloseControls, TypeOK, Answers
    <2>3. TypeOK'
      BY <1>5, <2>1, <2>2 DEF Stop, TypeOK
    <2>4. /\ UNCHANGED <<stamp, seen, pending, refreshes, applied>>
          /\ phase = "stopping" /\ phase' = "stopped"
          /\ pc' = [q \in RequestId |-> IF pc[q] = "wait" THEN "unavailable" ELSE pc[q]]
      BY <1>5 DEF Stop, CloseControls
    <2>5. FlagKept' /\ ClaimsApart'
      BY <2>4 DEF TypeOK, FlagKept, RefreshNotLost, ClaimsApart
    <2>6. QueueKept'
      <3>1. \A n \in 1..Len(applied) : applied[n] \in RequestId
        BY DEF TypeOK
      <3>2. \A n \in 1..Len(applied) : pc'[applied[n]] \in {"applied", "gone"}
        BY <2>4, <3>1 DEF QueueKept
      <3>3. \A q \in RequestId : pc'[q] = "applied" => \E n \in 1..Len(applied) : applied[n] = q
        BY <2>4 DEF QueueKept
      <3>4. QED
        BY <2>1, <2>4, <3>2, <3>3 DEF QueueKept
    <2>7. QED
      BY <2>3, <2>5, <2>6
  <1>6. CASE Rest
    BY <1>6 DEF Rest, vars, TypeOK, FlagKept, RefreshNotLost, ClaimsApart, QueueKept
  <1>7. QED
    BY <1>1, <1>2, <1>3, <1>4, <1>5, <1>6 DEF LoopStep

LEMMA NextPreserves == IInv /\ [Next]_vars => IInv'
  <1> SUFFICES ASSUME IInv, [Next]_vars PROVE IInv'
    OBVIOUS
  <1>1. CASE UNCHANGED vars
    BY <1>1 DEF vars, requests, atomics, channels, service, config,
                IInv, TypeOK, FlagKept, RefreshNotLost, ClaimsApart, QueueKept
  <1>2. QED
    BY <1>1, RequestPreserves, LoopPreserves DEF Next

LEMMA Inductive == Spec => []IInv
  BY InitEstablishes, NextPreserves, PTL DEF Spec

\* Every variable keeps its type (src/observability/http.rs, src/service.rs, src/config.rs).
THEOREM TypeCorrect == Spec => []TypeOK
  <1>1. IInv => TypeOK
    BY DEF IInv
  <1>2. QED
    BY <1>1, Inductive, PTL

\* For any number of threads the flag is set only while somebody will act on it, and
\* never more than one message waits (refresh_api).
THEOREM RefreshNotLostAlways == Spec => []RefreshNotLost
  <1>1. IInv => RefreshNotLost
    BY DEF IInv, FlagKept
  <1>2. QED
    BY <1>1, Inductive, PTL

\* For any number of commands and any queue a command is applied once or never, and its
\* client is told which (submit_control, CloseControls at the end of the loop).
THEOREM AnsweredTruthfullyAlways == Spec => []AnsweredTruthfully
  <1>1. ASSUME IInv PROVE AnsweredTruthfully
    <2>1. DOMAIN applied = 1..Len(applied)
      BY <1>1 DEF IInv, TypeOK
    <2>2. QED
      BY <1>1, <2>1 DEF IInv, QueueKept, AnsweredTruthfully, IsInjective, Range
  <1>2. QED
    BY <1>1, Inductive, PTL

\* For any number of threads two accepted claims are a cooldown apart
\* (claim_refresh_cooldown).
THEOREM CooldownHoldsAlways == Spec => CooldownHolds
  <1>1. IInv /\ [Next]_vars => [last' # last /\ last # 0 => last' - last >= Cooldown]_vars
    <2> SUFFICES ASSUME IInv, Next, last' # last, last # 0
                 PROVE  last' - last >= Cooldown
      BY DEF vars
    <2>1. PICK r \in RequestId : CompareExchange(r)
      BY DEF Next, BeginRefresh, BeginControl, HandlerStep, Disconnect, LoadLast, Swap, SendRefresh,
             SubmitControl, LoopStep, Stat, ReadWorkflow, ApplyWorkflow, EndTick, Stop, Wake,
             ReceiveControl, ReceiveRefresh, Shutdown, Time, Edit, Rest, vars, atomics
    <2>2. last = seen[r] /\ last' = stamp[r] + 1 /\ pc[r] = "exchange"
      BY <2>1 DEF CompareExchange, Unchanged
    <2>3. last \in Nat /\ stamp[r] \in Nat /\ Cooldown \in Nat
      BY ControlAssumption DEF IInv, TypeOK
    <2>4. stamp[r] - (last - 1) >= Cooldown
      BY <2>2 DEF IInv, ClaimsApart
    <2>5. QED
      BY <2>2, <2>3, <2>4
  <1>2. QED
    BY <1>1, Inductive, PTL DEF Spec, CooldownHolds

-----------------------------------------------------------------------------
(* The reload. *)

\* What a reload has read is not newer than the file, nor older than what is in force,
\* and it passed validation if it is about to be put in force.
ReloadInOrder ==
    /\ last_good <= loaded /\ loaded <= file
    /\ phase = "restat" => loaded \in ValidVersions

\* Only the reload and the people who edit the file touch its versions.
LEMMA VersionsKept ==
  ASSUME Next
  PROVE  \/ ReadWorkflow \/ ApplyWorkflow \/ Edit
         \/ UNCHANGED <<loaded, file, last_good>> /\ phase' # "restat"
         \/ UNCHANGED <<loaded, file, last_good, phase>>
  BY DEF Next, BeginRefresh, BeginControl, HandlerStep, Disconnect, LoadLast, CompareExchange, Swap,
         SendRefresh, SubmitControl, LoopStep, Stat, BeginTick, EndTick, Stop, Wake, ReceiveControl,
         ReceiveRefresh, DrainThenClear, Shutdown, Time, Rest, vars, service, config

LEMMA ReloadPreserves == TypeOK /\ ReloadInOrder /\ [Next]_vars => ReloadInOrder'
  <1> SUFFICES ASSUME TypeOK, ReloadInOrder, [Next]_vars PROVE ReloadInOrder'
    OBVIOUS
  <1> USE ControlAssumption DEF TypeOK, Version, ReloadInOrder
  <1>1. CASE ReadWorkflow
    BY <1>1 DEF ReadWorkflow, IsValid, BeginTick
  <1>2. CASE ApplyWorkflow
    BY <1>2 DEF ApplyWorkflow, BeginTick
  <1>3. CASE Edit
    BY <1>3 DEF Edit, service
  <1>4. CASE UNCHANGED vars
    BY <1>4 DEF vars, config, service
  <1>5. QED
    BY <1>1, <1>2, <1>3, <1>4, VersionsKept

\* For any edits of the workflow file, also between the reading of its contents and of
\* its modification time, the configuration in force is valid and never goes back
\* (reload_if_changed).
THEOREM ReloadKeepsGoodAlways == Spec => ReloadKeepsGood
  <1>1. Init => ReloadInOrder
    BY DEF Init, ReloadInOrder
  <1>2. Spec => []ReloadInOrder
    BY <1>1, ReloadPreserves, TypeCorrect, PTL DEF Spec
  <1>3. TypeOK /\ ReloadInOrder /\ [Next]_vars =>
          [last_good' # last_good => last_good' > last_good /\ last_good' \in ValidVersions]_vars
    <2> SUFFICES ASSUME TypeOK, ReloadInOrder, Next, last_good' # last_good
                 PROVE  last_good' > last_good /\ last_good' \in ValidVersions
      BY DEF vars
    <2>1. ApplyWorkflow
      BY VersionsKept DEF ReadWorkflow, Edit
    <2>2. QED
      BY <2>1 DEF ApplyWorkflow, ReloadInOrder, TypeOK, Version
  <1>4. QED
    BY <1>2, <1>3, TypeCorrect, PTL DEF Spec, ReloadKeepsGood

-----------------------------------------------------------------------------
(* The accounting of tokens. *)

IsRunning == generation # None
HasSession == live_session # None

\* A session is the current worker's; what is to come has not been used yet.
WorkersInOrder ==
    /\ IsRunning => generation = dispatched
    /\ HasSession => /\ IsRunning /\ live_session.thread = generation
                     /\ live_session.turn <= turn[generation]
                     /\ live_session.last_reported_tokens <= usage[generation]
    /\ \A w \in Workers : dispatched < w => turn[w] = 0 /\ usage[w] = 0

\* An event was sent by a worker, in a turn it has started, of tokens it has used.
EventTrue(e) ==
    /\ e.thread <= dispatched
    /\ e.turn <= turn[e.thread]
    /\ e.total # None => e.total <= usage[e.thread]

\* Turns and totals only grow along the channel.
Follows(d, e) ==
    d.thread = e.thread => /\ d.turn <= e.turn
                           /\ d.total # None /\ e.total # None => d.total <= e.total

\* What the channel holds continues the session.
Continues(e) ==
    HasSession /\ e.thread = generation =>
        /\ live_session.turn <= e.turn
        /\ e.total # None => live_session.last_reported_tokens <= e.total

ChannelInOrder ==
    /\ \A m \in DOMAIN events : EventTrue(events[m]) /\ Continues(events[m])
    /\ \A m, n \in DOMAIN events : m < n => Follows(events[m], events[n])

LastReported == IF HasSession THEN live_session.last_reported_tokens ELSE 0

\* The usage of a first turn is recorded, or its report is under way.
FirstTurnCounted ==
    IsRunning /\ turn[generation] <= 1 =>
        \/ LastReported = usage[generation]
        \/ \E m \in DOMAIN events : /\ events[m].thread = generation
                                    /\ events[m].total = usage[generation]

\* Each turn may count all of its thread's usage once.
Allowed == [w \in Workers |-> turn[w] * usage[w]]

\* What the current worker's session and later turns may still count.
Due ==
    IF ~IsRunning THEN 0
    ELSE IF ~HasSession THEN turn[generation] * usage[generation]
    ELSE (turn[generation] - live_session.turn) * usage[generation]
             + (usage[generation] - live_session.last_reported_tokens)

Slack == codex_totals + Due <= SumOver(Allowed)

TokenInv == TokenTypeOK /\ WorkersInOrder /\ ChannelInOrder /\ FirstTurnCounted /\ Slack

\* The totals count a token once in each turn of its thread at most.
OncePerTurn == codex_totals <= SumOver(Allowed)


-----------------------------------------------------------------------------
(* Sums over the workers: induction in the form of least counterexamples. *)

LEMMA LeastNumber ==
  ASSUME NEW T \in SUBSET Nat, T # {}
  PROVE  \E m \in T : \A k \in T : m <= k
  <1>1. PICK m \in T : \A k \in T : ~(<<k, m>> \in OpToRel(<, Nat))
    BY NatLessThanWellFounded, WFMin, Zenon
  <1>2. ASSUME NEW k \in T
        PROVE  m <= k
    <2>1. m \in Nat /\ k \in Nat
      OBVIOUS
    <2>2. ~(k < m)
      BY <1>1, <2>1, Zenon DEF OpToRel
    <2>3. QED
      BY <2>1, <2>2
  <1>3. QED
    BY <1>2

\* s holds the partial sums of f up to m.
IsSum(s, f, m) ==
    /\ s \in [0..m -> Nat] /\ s[0] = 0
    /\ \A n \in 1..m : s[n] = s[n - 1] + f[n]

LEMMA SumExists ==
  ASSUME NEW f \in [Workers -> Nat]
  PROVE  \E s : IsSum(s, f, MaxWorkers)
  <1> DEFINE T == {m \in 0..MaxWorkers : ~ \E s : IsSum(s, f, m)}
  <1>1. MaxWorkers \in Nat
    BY TokenAssumption
  <1>2. SUFFICES ASSUME T # {}
                 PROVE  FALSE
    BY <1>1
  <1>3. PICK m \in T : \A k \in T : m <= k
    <2>1. T \in SUBSET Nat
      BY <1>1
    <2> HIDE DEF T
    <2>2. QED
      BY <1>2, <2>1, LeastNumber
  <1>4. m \in 0..MaxWorkers /\ ~ \E s : IsSum(s, f, m)
    BY <1>3
  <1>5. CASE m = 0
    <2>1. IsSum([n \in 0..0 |-> 0], f, 0)
      BY DEF IsSum
    <2>2. QED
      BY <1>4, <1>5, <2>1
  <1>6. CASE m # 0
    <2>1. m \in Nat /\ m - 1 \in 0..MaxWorkers /\ m \in Workers
      BY <1>1, <1>4, <1>6 DEF Workers
    <2>2. m - 1 \notin T
      BY <1>3, <2>1
    <2>3. PICK s : IsSum(s, f, m - 1)
      BY <2>1, <2>2
    <2> DEFINE t == [n \in 0..m |-> IF n = m THEN s[m - 1] + f[m] ELSE s[n]]
    <2>4. f[m] \in Nat /\ \A n \in 0..m - 1 : s[n] \in Nat
      BY <2>1, <2>3 DEF IsSum
    <2>5. t \in [0..m -> Nat]
      <3>1. ASSUME NEW n \in 0..m
            PROVE  (IF n = m THEN s[m - 1] + f[m] ELSE s[n]) \in Nat
        <4>1. n # m => n \in 0..m - 1
          BY <2>1
        <4>2. m - 1 \in 0..m - 1
          BY <2>1, <1>6
        <4>3. QED
          BY <2>4, <4>1, <4>2
      <3>2. QED
        BY <3>1
    <2>6. t[0] = 0
      BY <1>6, <2>1, <2>3 DEF IsSum
    <2>7. ASSUME NEW n \in 1..m
          PROVE  t[n] = t[n - 1] + f[n]
      <3>1. n \in 0..m /\ n - 1 \in 0..m /\ n - 1 # m
        BY <2>1
      <3>2. t[n - 1] = s[n - 1]
        BY <3>1
      <3>3. CASE n = m
        BY <3>1, <3>2, <3>3
      <3>4. CASE n # m
        <4>1. n \in 1..m - 1 /\ t[n] = s[n]
          BY <2>1, <3>1, <3>4
        <4>2. QED
          BY <2>3, <3>2, <4>1 DEF IsSum
      <3>5. QED
        BY <3>3, <3>4
    <2> HIDE DEF t
    <2>8. IsSum(t, f, m)
      BY <2>5, <2>6, <2>7 DEF IsSum
    <2>9. QED
      BY <1>4, <2>8
  <1>7. QED
    BY <1>5, <1>6

\* What a recursive definition says of its values, proved for the sum.
LEMMA SumIs ==
  ASSUME NEW f \in [Workers -> Nat]
  PROVE  \E s : IsSum(s, f, MaxWorkers) /\ SumOver(f) = s[MaxWorkers]
  <1> DEFINE Partial(s) == s = [n \in 0..MaxWorkers |-> IF n = 0 THEN 0 ELSE s[n - 1] + f[n]]
             sum == CHOOSE s : Partial(s)
  <1>1. MaxWorkers \in Nat
    BY TokenAssumption
  <1>2. PICK r : IsSum(r, f, MaxWorkers)
    BY SumExists
  <1>3. Partial(r)
    <2>1. ASSUME NEW n \in 0..MaxWorkers
          PROVE  r[n] = IF n = 0 THEN 0 ELSE r[n - 1] + f[n]
      <3>1. n # 0 => n \in 1..MaxWorkers
        BY <1>1
      <3>2. QED
        BY <1>2, <3>1 DEF IsSum
    <2>2. QED
      BY <1>2, <2>1 DEF IsSum
  <1>4. Partial(sum)
    <2> HIDE DEF Partial
    <2>1. QED
      BY <1>3, Zenon
  <1>5. SumOver(f) = sum[MaxWorkers]
    BY DEF SumOver
  <1> HIDE DEF sum
  <1>6. sum[0] = 0
    <2>1. 0 \in 0..MaxWorkers
      BY <1>1
    <2>2. sum[0] = IF 0 = 0 THEN 0 ELSE sum[0 - 1] + f[0]
      BY <1>4, <2>1
    <2>3. QED
      BY <2>2
  <1>7. \A n \in 1..MaxWorkers : sum[n] = sum[n - 1] + f[n]
    <2>1. ASSUME NEW n \in 1..MaxWorkers
          PROVE  sum[n] = sum[n - 1] + f[n]
      <3>1. n \in 0..MaxWorkers /\ n # 0
        BY <1>1
      <3>2. QED
        BY <1>4, <3>1
    <2>2. QED
      BY <2>1
  <1>8. sum = [n \in 0..MaxWorkers |-> sum[n]]
    BY <1>4
  <1>9. \A n \in 0..MaxWorkers : sum[n] \in Nat
    <2> DEFINE T == {n \in 0..MaxWorkers : sum[n] \notin Nat}
    <2>1. SUFFICES ASSUME T # {}
                   PROVE  FALSE
      OBVIOUS
    <2>2. PICK m \in T : \A k \in T : m <= k
      <3>1. T \in SUBSET Nat
        BY <1>1
      <3> HIDE DEF T
      <3>2. QED
        BY <2>1, <3>1, LeastNumber
    <2>3. m \in 0..MaxWorkers /\ sum[m] \notin Nat
      BY <2>2
    <2>4. m # 0
      BY <1>6, <2>3
    <2>5. m - 1 \in 0..MaxWorkers /\ m \in 1..MaxWorkers /\ m \in Workers /\ m \in Nat
      BY <1>1, <2>3, <2>4 DEF Workers
    <2>6. sum[m - 1] \in Nat
      BY <2>2, <2>5
    <2>7. f[m] \in Nat /\ sum[m] = sum[m - 1] + f[m]
      BY <1>7, <2>5
    <2>8. QED
      BY <2>3, <2>6, <2>7
  <1>10. IsSum(sum, f, MaxWorkers)
    <2>1. sum \in [0..MaxWorkers -> Nat]
      BY <1>9, <1>8
    <2>2. QED
      BY <1>6, <1>7, <2>1 DEF IsSum
  <1>11. QED
    BY <1>5, <1>10

\* Sums of functions of which one is nowhere greater, and of functions that differ
\* for one worker.
LEMMA SumIsMonotone ==
  ASSUME NEW f \in [Workers -> Nat], NEW g \in [Workers -> Nat],
         \A w \in Workers : f[w] <= g[w]
  PROVE  SumOver(f) <= SumOver(g)
  <1>1. MaxWorkers \in Nat
    BY TokenAssumption
  <1>2. PICK s : IsSum(s, f, MaxWorkers) /\ SumOver(f) = s[MaxWorkers]
    BY SumIs
  <1>3. PICK t : IsSum(t, g, MaxWorkers) /\ SumOver(g) = t[MaxWorkers]
    BY SumIs
  <1> DEFINE T == {n \in 0..MaxWorkers : ~(s[n] <= t[n])}
  <1>4. SUFFICES ASSUME T # {}
                 PROVE  FALSE
    BY <1>1, <1>2, <1>3
  <1>5. PICK m \in T : \A k \in T : m <= k
    <2>1. T \in SUBSET Nat
      BY <1>1
    <2> HIDE DEF T
    <2>2. QED
      BY <1>4, <2>1, LeastNumber
  <1>6. m \in 0..MaxWorkers /\ ~(s[m] <= t[m])
    BY <1>5
  <1>7. m # 0
    BY <1>2, <1>3, <1>6 DEF IsSum
  <1>8. m - 1 \in 0..MaxWorkers /\ m \in 1..MaxWorkers /\ m \in Workers /\ m \in Nat
    BY <1>1, <1>6, <1>7 DEF Workers
  <1>9. s[m - 1] <= t[m - 1] /\ s[m - 1] \in Nat /\ t[m - 1] \in Nat
    BY <1>2, <1>3, <1>5, <1>8 DEF IsSum
  <1>10. s[m] = s[m - 1] + f[m] /\ t[m] = t[m - 1] + g[m]
    BY <1>2, <1>3, <1>8 DEF IsSum
  <1>11. f[m] \in Nat /\ g[m] \in Nat /\ f[m] <= g[m]
    BY <1>8
  <1>12. QED
    BY <1>6, <1>9, <1>10, <1>11

LEMMA SumOfChanged ==
  ASSUME NEW f \in [Workers -> Nat], NEW g \in [Workers -> Nat], NEW w \in Workers,
         \A v \in Workers \ {w} : g[v] = f[v]
  PROVE  SumOver(g) = SumOver(f) + (g[w] - f[w])
  <1> DEFINE more == g[w] - f[w]
  <1>1. MaxWorkers \in Nat /\ w \in 1..MaxWorkers /\ more \in Int
    BY TokenAssumption DEF Workers
  <1>2. PICK s : IsSum(s, f, MaxWorkers) /\ SumOver(f) = s[MaxWorkers]
    BY SumIs
  <1>3. PICK t : IsSum(t, g, MaxWorkers) /\ SumOver(g) = t[MaxWorkers]
    BY SumIs
  <1> DEFINE Shifted(n) == t[n] = s[n] + (IF w <= n THEN more ELSE 0)
             T == {n \in 0..MaxWorkers : ~Shifted(n)}
  <1>4. SUFFICES ASSUME T # {}
                 PROVE  FALSE
    <2>1. Shifted(MaxWorkers)
      BY <1>1, <1>4
    <2>2. QED
      BY <1>1, <1>2, <1>3, <2>1
  <1>5. PICK m \in T : \A k \in T : m <= k
    <2>1. T \in SUBSET Nat
      BY <1>1
    <2> HIDE DEF T
    <2>2. QED
      BY <1>4, <2>1, LeastNumber
  <1>6. m \in 0..MaxWorkers /\ ~Shifted(m)
    BY <1>5
  <1>7. m # 0
    BY <1>1, <1>2, <1>3, <1>6 DEF IsSum
  <1>8. m - 1 \in 0..MaxWorkers /\ m \in 1..MaxWorkers /\ m \in Workers /\ m \in Nat
    BY <1>1, <1>6, <1>7 DEF Workers
  <1>9. Shifted(m - 1) /\ s[m - 1] \in Nat /\ t[m - 1] \in Nat
    BY <1>2, <1>3, <1>5, <1>8 DEF IsSum
  <1>10. s[m] = s[m - 1] + f[m] /\ t[m] = t[m - 1] + g[m]
    BY <1>2, <1>3, <1>8 DEF IsSum
  <1>11. f[m] \in Nat /\ g[m] \in Nat /\ w \in Nat
    BY <1>1, <1>8
  <1>12. CASE m = w
    BY <1>6, <1>8, <1>9, <1>10, <1>11, <1>12
  <1>13. CASE m # w
    <2>1. g[m] = f[m]
      BY <1>8, <1>13
    <2>2. w <= m <=> w <= m - 1
      BY <1>8, <1>11, <1>13
    <2>3. QED
      BY <1>1, <1>6, <1>9, <1>10, <1>11, <2>1, <2>2
  <1>14. QED
    BY <1>12, <1>13

LEMMA SumOfSame ==
  ASSUME NEW f, NEW g, f = g
  PROVE  SumOver(f) = SumOver(g)
  OBVIOUS


-----------------------------------------------------------------------------
(* Products, types and the channel. *)

LEMMA Products ==
  ASSUME NEW a \in Nat, NEW u \in Nat
  PROVE  a * u \in Nat /\ (a + 1) * u = a * u + u /\ 0 * u = 0
  OBVIOUS

LEMMA ProductIsMonotone ==
  ASSUME NEW a \in Nat, NEW b \in Nat, NEW u \in Nat, a <= b
  PROVE  a * u <= b * u
  <1>1. b - a \in Nat /\ (b - a) * u \in Nat
    OBVIOUS
  <1>2. b * u = a * u + (b - a) * u
    OBVIOUS
  <1>3. QED
    BY <1>1, <1>2, Products

\* A session of a later turn leaves a turn's usage uncounted.
LEMMA LaterTurn ==
  ASSUME NEW a \in Nat, NEW b \in Nat, NEW u \in Nat, b < a
  PROVE  b * u + u <= a * u
  <1>1. b + 1 \in Nat /\ b + 1 <= a
    OBVIOUS
  <1>2. (b + 1) * u = b * u + u
    BY Products
  <1>3. (b + 1) * u <= a * u
    BY <1>1, ProductIsMonotone
  <1>4. QED
    BY <1>2, <1>3

LEMMA TypeFacts ==
  ASSUME TokenTypeOK
  PROVE  /\ MaxWorkers \in Nat /\ MaxTurns \in Nat /\ MaxUsage \in Nat
         /\ dispatched \in 0..MaxWorkers /\ codex_totals \in Nat
         /\ generation # None => generation \in Workers /\ generation \in Nat
         /\ \A w \in Workers : turn[w] \in Nat /\ usage[w] \in Nat /\ w \in Nat
         /\ HasSession => /\ live_session \in Session
                          /\ live_session.turn \in Nat /\ 1 <= live_session.turn
                          /\ live_session.last_reported_tokens \in Nat
                          /\ live_session.turn_count \in Nat
         /\ events \in Seq(Event)
         /\ None \notin Nat /\ None \notin Session
  <1>1. /\ MaxWorkers \in Nat /\ MaxTurns \in Nat /\ MaxUsage \in Nat
        /\ None \notin Nat /\ None \notin Session
    BY TokenAssumption
  <1>2. \A w \in Workers : turn[w] \in 0..MaxTurns /\ usage[w] \in 0..MaxUsage /\ w \in Nat
    BY <1>1 DEF TokenTypeOK, Workers
  <1>3. \A w \in Workers : turn[w] \in Nat /\ usage[w] \in Nat /\ w \in Nat
    BY <1>1, <1>2
  <1>4. HasSession => live_session \in Session
    BY DEF TokenTypeOK, HasSession
  <1>5. \A x \in Session : /\ x.turn \in 1..MaxTurns /\ x.last_reported_tokens \in Nat
                           /\ x.turn_count \in Nat
    BY DEF Session
  <1>6. \A k \in 1..MaxTurns : k \in Nat /\ 1 <= k
    BY <1>1
  <1>7. generation # None => generation \in Workers /\ generation \in Nat
    BY <1>2 DEF TokenTypeOK
  <1>8. dispatched \in 0..MaxWorkers /\ codex_totals \in Nat /\ events \in Seq(Event)
    BY DEF TokenTypeOK
  <1>9. QED
    BY <1>1, <1>3, <1>4, <1>5, <1>6, <1>7, <1>8

LEMMA EventFields ==
  ASSUME NEW e \in Event
  PROVE  /\ e.thread \in Workers /\ e.turn \in 1..MaxTurns /\ e.turn \in Nat /\ 1 <= e.turn
         /\ e.total # None => e.total \in Nat
  <1>1. e.thread \in Workers /\ e.turn \in 1..MaxTurns /\ e.total \in Nat \cup {None}
    BY DEF Event
  <1>2. MaxTurns \in Nat
    BY TokenAssumption
  <1>3. QED
    BY <1>1, <1>2

LEMMA EventsAreEvents ==
  ASSUME TokenTypeOK
  PROVE  /\ \A m \in DOMAIN events : events[m] \in Event
         /\ DOMAIN events = 1..Len(events) /\ Len(events) \in Nat
  BY DEF TokenTypeOK

LEMMA Appended ==
  ASSUME TokenTypeOK, NEW e \in Event, events' = Append(events, e)
  PROVE  /\ events' \in Seq(Event)
         /\ \A m \in DOMAIN events : m \in DOMAIN events' /\ events'[m] = events[m]
         /\ \A m \in DOMAIN events' :
              m \in DOMAIN events \/ (m = Len(events) + 1 /\ events'[m] = e)
         /\ Len(events) + 1 \in DOMAIN events' /\ events'[Len(events) + 1] = e
         /\ \A m \in DOMAIN events : m < Len(events) + 1
  <1>1. events \in Seq(Event) /\ Len(events) \in Nat /\ DOMAIN events = 1..Len(events)
    BY DEF TokenTypeOK
  <1>2. /\ events' \in Seq(Event) /\ DOMAIN events' = 1..Len(events) + 1
        /\ events'[Len(events) + 1] = e
        /\ \A m \in 1..Len(events) : events'[m] = events[m]
    BY <1>1, AppendProperties
  <1>3. /\ Len(events) + 1 \in 1..Len(events) + 1
        /\ \A m \in 1..Len(events) : m \in 1..Len(events) + 1 /\ m < Len(events) + 1
        /\ \A m \in 1..Len(events) + 1 : m \in 1..Len(events) \/ m = Len(events) + 1
    BY <1>1
  <1>4. /\ \A m \in DOMAIN events : m \in DOMAIN events' /\ events'[m] = events[m]
        /\ \A m \in DOMAIN events : m < Len(events) + 1
    BY <1>1, <1>2, <1>3
  <1>5. \A m \in DOMAIN events' :
              m \in DOMAIN events \/ (m = Len(events) + 1 /\ events'[m] = e)
    <2>1. ASSUME NEW m \in DOMAIN events', m \notin DOMAIN events
          PROVE  m = Len(events) + 1 /\ events'[m] = e
      <3>1. m \in 1..Len(events) + 1 /\ m \notin 1..Len(events)
        BY <1>1, <1>2, <2>1
      <3>2. m = Len(events) + 1
        BY <1>3, <3>1
      <3>3. QED
        BY <1>2, <3>2
    <2>2. QED
      BY <2>1
  <1>6. Len(events) + 1 \in DOMAIN events'
    BY <1>2, <1>3
  <1>7. QED
    BY <1>2, <1>4, <1>5, <1>6

LEMMA Received ==
  ASSUME TokenTypeOK, events # <<>>, events' = Tail(events)
  PROVE  /\ events' \in Seq(Event)
         /\ 1 \in DOMAIN events /\ Head(events) = events[1] /\ Head(events) \in Event
         /\ \A m \in DOMAIN events' : /\ m + 1 \in DOMAIN events /\ events'[m] = events[m + 1]
                                       /\ m \in Nat /\ 1 <= m
         /\ \A m \in DOMAIN events : m = 1 \/ (m - 1 \in DOMAIN events' /\ events'[m - 1] = events[m])
  <1>1. events \in Seq(Event)
    BY DEF TokenTypeOK
  <1>2. QED
    BY <1>1

\* An event that is sent comes after all the others.
LEMMA SendKeepsOrder ==
  ASSUME TokenTypeOK, NEW e \in Event, events' = Append(events, e),
         \A m \in DOMAIN events : \A d : d = events[m] =>
             EventTrue(d)' /\ Continues(d)' /\ Follows(d, e),
         EventTrue(e)', Continues(e)', ChannelInOrder
  PROVE  ChannelInOrder'
  <1>1. /\ \A m \in DOMAIN events : m \in DOMAIN events' /\ events'[m] = events[m]
        /\ \A m \in DOMAIN events' : m \in DOMAIN events \/ (m = Len(events) + 1 /\ events'[m] = e)
        /\ DOMAIN events = 1..Len(events) /\ Len(events) \in Nat
    BY Appended, EventsAreEvents
  <1>2. ASSUME NEW m \in DOMAIN events', NEW d, d = events'[m]
        PROVE  EventTrue(d)' /\ Continues(d)'
    BY <1>1, <1>2
  <1>3. ASSUME NEW m \in DOMAIN events', NEW n \in DOMAIN events', m < n
        PROVE  Follows(events'[m], events'[n])
    <2>1. m \in DOMAIN events
      <3>1. m # Len(events) + 1
        BY <1>1, <1>3
      <3>2. QED
        BY <1>1, <3>1
    <2>2. CASE n \in DOMAIN events
      BY <1>1, <1>3, <2>1, <2>2 DEF ChannelInOrder
    <2>3. CASE events'[n] = e
      BY <1>1, <2>1, <2>3
    <2>4. QED
      BY <1>1, <2>2, <2>3
  <1>4. QED
    BY <1>2, <1>3 DEF ChannelInOrder

\* An event that is taken is followed by all the others.
LEMMA ReceiveKeepsOrder ==
  ASSUME TokenTypeOK, ChannelInOrder, events # <<>>, events' = Tail(events),
         \A m \in DOMAIN events : \A d : d = events[m] /\ Follows(Head(events), d) =>
             EventTrue(d)' /\ Continues(d)'
  PROVE  ChannelInOrder'
  <1>1. /\ 1 \in DOMAIN events /\ Head(events) = events[1]
        /\ \A m \in DOMAIN events' : /\ m + 1 \in DOMAIN events /\ events'[m] = events[m + 1]
                                      /\ m \in Nat /\ 1 <= m
    BY Received
  <1>2. ASSUME NEW m \in DOMAIN events', NEW d, d = events'[m]
        PROVE  EventTrue(d)' /\ Continues(d)'
    <2>1. m + 1 \in DOMAIN events /\ events'[m] = events[m + 1] /\ 1 < m + 1
      BY <1>1
    <2>2. Follows(Head(events), d) /\ d = events[m + 1]
      BY <1>1, <1>2, <2>1 DEF ChannelInOrder
    <2>3. QED
      BY <2>1, <2>2
  <1>3. ASSUME NEW m \in DOMAIN events', NEW n \in DOMAIN events', m < n
        PROVE  Follows(events'[m], events'[n])
    <2>1. m + 1 \in DOMAIN events /\ n + 1 \in DOMAIN events /\ m + 1 < n + 1
      BY <1>1, <1>3
    <2>2. QED
      BY <1>1, <2>1 DEF ChannelInOrder
  <1>4. QED
    BY <1>2, <1>3 DEF ChannelInOrder

LEMMA AllowedTypes ==
  ASSUME TokenTypeOK
  PROVE  /\ Allowed \in [Workers -> Nat] /\ SumOver(Allowed) \in Nat
         /\ \A w \in Workers : Allowed[w] = turn[w] * usage[w]
  <1>1. \A w \in Workers : turn[w] * usage[w] \in Nat
    BY TypeFacts, Products
  <1>2. Allowed \in [Workers -> Nat]
    BY <1>1 DEF Allowed
  <1>3. PICK s : IsSum(s, Allowed, MaxWorkers) /\ SumOver(Allowed) = s[MaxWorkers]
    BY <1>2, SumIs
  <1>4. MaxWorkers \in Nat
    BY TokenAssumption
  <1>5. SumOver(Allowed) \in Nat
    BY <1>3, <1>4 DEF IsSum
  <1>6. QED
    BY <1>2, <1>5 DEF Allowed


-----------------------------------------------------------------------------
(* One lemma per action. *)

LEMMA TokensBegin ==
  ASSUME TokenInit
  PROVE  TokenInv
  <1>1. MaxWorkers \in Nat /\ MaxTurns \in Nat /\ MaxUsage \in Nat
    BY TokenAssumption
  <1>2. TokenTypeOK
    <2>1. 0 \in 0..MaxWorkers /\ 0 \in 0..MaxTurns /\ 0 \in 0..MaxUsage /\ 0 \in Nat
      BY <1>1
    <2>2. events \in Seq(Event)
      BY DEF TokenInit
    <2>3. QED
      BY <2>1, <2>2 DEF TokenInit, TokenTypeOK
  <1>3. WorkersInOrder
    BY DEF TokenInit, WorkersInOrder, HasSession, IsRunning
  <1>4. ChannelInOrder
    <2>1. DOMAIN events = {}
      BY DEF TokenInit
    <2>2. QED
      BY <2>1 DEF ChannelInOrder
  <1>5. FirstTurnCounted
    BY DEF TokenInit, FirstTurnCounted, IsRunning
  <1>6. Slack
    <2>1. codex_totals = 0 /\ Due = 0
      BY DEF TokenInit, Due, IsRunning
    <2>2. SumOver(Allowed) \in Nat
      BY <1>2, AllowedTypes
    <2>3. QED
      BY <2>1, <2>2 DEF Slack
  <1>7. QED
    BY <1>2, <1>3, <1>4, <1>5, <1>6 DEF TokenInv

LEMMA DispatchKeeps ==
  ASSUME TokenInv, Dispatch
  PROVE  TokenInv'
  <1> DEFINE w == dispatched + 1
  <1>1. /\ generation = None /\ dispatched < MaxWorkers /\ dispatched' = w /\ generation' = w
        /\ live_session' = None /\ turn' = turn /\ usage' = usage /\ events' = events
        /\ codex_totals' = codex_totals
    BY DEF Dispatch
  <1>2. TokenTypeOK /\ WorkersInOrder /\ ChannelInOrder /\ Slack
    BY DEF TokenInv
  <1>3. w \in Workers /\ w \in 0..MaxWorkers /\ dispatched < w /\ w \in Nat /\ dispatched \in Nat
    BY <1>1, <1>2, TypeFacts DEF Workers
  <1>4. turn[w] = 0 /\ usage[w] = 0
    BY <1>2, <1>3 DEF WorkersInOrder
  <1>5. TokenTypeOK'
    BY <1>1, <1>2, <1>3 DEF TokenTypeOK
  <1>6. WorkersInOrder'
    <2>1. \A v \in Workers : v \in Nat
      BY <1>2, TypeFacts
    <2>2. \A v \in Workers : w < v => dispatched < v
      BY <1>3, <2>1
    <2>3. QED
      BY <1>1, <1>2, <2>2 DEF WorkersInOrder, HasSession, IsRunning
  <1>7. ChannelInOrder'
    <2>1. \A m \in DOMAIN events : EventTrue(events[m])'
      <3>1. ASSUME NEW m \in DOMAIN events
            PROVE  events[m].thread <= w
        <4>1. events[m].thread \in Workers /\ events[m].thread <= dispatched
          BY <1>2, EventsAreEvents, EventFields DEF ChannelInOrder, EventTrue
        <4>2. events[m].thread \in Nat
          BY <1>2, <4>1, TypeFacts
        <4>3. QED
          BY <1>3, <4>1, <4>2
      <3>2. QED
        BY <1>1, <1>2, <3>1 DEF ChannelInOrder, EventTrue
    <2>2. QED
      BY <1>1, <1>2, <2>1 DEF ChannelInOrder, Continues, HasSession, Follows
  <1>8. FirstTurnCounted'
    BY <1>1, <1>4 DEF FirstTurnCounted, LastReported, HasSession
  <1>9. Slack'
    <2>1. Due = 0 /\ Due' = 0 * 0
      BY <1>1, <1>4 DEF Due, IsRunning, HasSession
    <2>2. Allowed' = Allowed
      BY <1>1 DEF Allowed
    <2>3. SumOver(Allowed)' = SumOver(Allowed)
      BY <2>2 DEF SumOver
    <2>4. QED
      BY <1>1, <1>2, <2>1, <2>3 DEF Slack
  <1>10. QED
    BY <1>5, <1>6, <1>7, <1>8, <1>9 DEF TokenInv

\* What a change of one worker's turn or usage adds to what may be counted.
LEMMA AllowedGrows ==
  ASSUME TokenTypeOK, TokenTypeOK', NEW w \in Workers,
         \A v \in Workers \ {w} : turn'[v] = turn[v] /\ usage'[v] = usage[v]
  PROVE  SumOver(Allowed)' = SumOver(Allowed) + (turn'[w] * usage'[w] - turn[w] * usage[w])
  <1> DEFINE f == Allowed
             g == Allowed'
  <1>1. f \in [Workers -> Nat] /\ \A v \in Workers : f[v] = turn[v] * usage[v]
    BY AllowedTypes
  <1>2. g \in [Workers -> Nat] /\ \A v \in Workers : g[v] = turn'[v] * usage'[v]
    <2>1. \A v \in Workers : turn'[v] \in Nat /\ usage'[v] \in Nat
      <3>1. turn' \in [Workers -> 0..MaxTurns] /\ usage' \in [Workers -> 0..MaxUsage]
        BY DEF TokenTypeOK
      <3>2. MaxTurns \in Nat /\ MaxUsage \in Nat
        BY TokenAssumption
      <3>3. QED
        BY <3>1, <3>2
    <2>2. \A v \in Workers : turn'[v] * usage'[v] \in Nat
      BY <2>1, Products
    <2>3. QED
      BY <2>2 DEF Allowed
  <1>3. \A v \in Workers \ {w} : g[v] = f[v]
    BY <1>1, <1>2
  <1> HIDE DEF f, g
  <1>4. SumOver(g) = SumOver(f) + (g[w] - f[w])
    BY <1>1, <1>2, <1>3, SumOfChanged
  <1>5. SumOver(Allowed)' = SumOver(g)
    BY DEF g, SumOver
  <1>6. QED
    BY <1>1, <1>2, <1>4, <1>5 DEF f

LEMMA StartTurnKeeps ==
  ASSUME TokenInv, StartTurn
  PROVE  TokenInv'
  <1> DEFINE g == generation
  <1>0. PICK e : e = [thread |-> g, turn |-> turn[g] + 1, event |-> "turn_started", total |-> None]
    OBVIOUS
  <1>1. /\ g # None /\ turn[g] < MaxTurns /\ turn' = [turn EXCEPT ![g] = turn[g] + 1]
        /\ events' = Append(events, e) /\ generation' = g /\ dispatched' = dispatched
        /\ usage' = usage /\ live_session' = live_session /\ codex_totals' = codex_totals
    BY <1>0 DEF StartTurn
  <1>2. TokenTypeOK /\ WorkersInOrder /\ ChannelInOrder /\ FirstTurnCounted /\ Slack
    BY DEF TokenInv
  <1>3. /\ g \in Workers /\ g \in Nat /\ g = dispatched /\ MaxTurns \in Nat
        /\ turn[g] \in Nat /\ usage[g] \in Nat
    BY <1>1, <1>2, TypeFacts DEF WorkersInOrder, IsRunning
  <1>4. /\ turn[g] + 1 \in 1..MaxTurns /\ turn[g] + 1 \in 0..MaxTurns
        /\ turn[g] + 1 \in Nat /\ turn[g] <= turn[g] + 1
    BY <1>1, <1>3
  <1>5. e \in Event
    BY <1>0, <1>3, <1>4 DEF Event
  <1>6. /\ turn'[g] = turn[g] + 1 /\ turn' \in [Workers -> 0..MaxTurns]
        /\ \A v \in Workers \ {g} : turn'[v] = turn[v]
    BY <1>1, <1>2, <1>3, <1>4 DEF TokenTypeOK
  <1>7. \A v \in Workers : turn[v] \in Nat /\ turn'[v] \in Nat /\ turn[v] <= turn'[v]
    BY <1>2, <1>3, <1>6, TypeFacts
  <1>8. TokenTypeOK'
    <2>1. events' \in Seq(Event)
      BY <1>1, <1>2, <1>5, Appended
    <2>2. QED
      BY <1>1, <1>2, <1>6, <2>1 DEF TokenTypeOK
  <1>9. WorkersInOrder'
    <2>1. HasSession => live_session.turn <= turn'[g]
      <3>1. HasSession => live_session.turn \in Nat /\ live_session.turn <= turn[g]
        BY <1>2, TypeFacts DEF WorkersInOrder
      <3>2. QED
        BY <1>3, <1>7, <3>1
    <2>2. \A v \in Workers : dispatched < v => v # g
      BY <1>3
    <2>3. QED
      BY <1>1, <1>2, <1>6, <2>1, <2>2 DEF WorkersInOrder, HasSession, IsRunning
  <1>10. ChannelInOrder'
    <2>1. ASSUME NEW m \in DOMAIN events, NEW d, d = events[m]
          PROVE  EventTrue(d)' /\ Continues(d)' /\ Follows(d, e)
      <3>1. d \in Event /\ EventTrue(d) /\ Continues(d)
        BY <1>2, <2>1, EventsAreEvents DEF ChannelInOrder
      <3>2. d.thread \in Workers /\ d.turn \in Nat /\ d.turn <= turn[d.thread]
        BY <3>1, EventFields DEF EventTrue
      <3>3. d.turn <= turn'[d.thread]
        BY <1>7, <3>2
      <3>4. EventTrue(d)'
        BY <1>1, <3>1, <3>3 DEF EventTrue
      <3>5. Continues(d)'
        BY <1>1, <3>1 DEF Continues, HasSession
      <3>6. Follows(d, e)
        BY <1>0, <1>3, <1>4, <3>2 DEF Follows
      <3>7. QED
        BY <3>4, <3>5, <3>6
    <2>2. EventTrue(e)'
      BY <1>0, <1>1, <1>3, <1>4, <1>6 DEF EventTrue
    <2>3. Continues(e)'
      <3>1. HasSession => live_session.turn \in Nat /\ live_session.turn <= turn[g]
        BY <1>2, TypeFacts DEF WorkersInOrder
      <3>2. HasSession => live_session.turn <= turn[g] + 1
        BY <1>3, <1>4, <3>1
      <3>3. QED
        BY <1>0, <1>1, <3>2 DEF Continues, HasSession
    <2>4. QED
      BY <1>1, <1>2, <1>5, <2>1, <2>2, <2>3, SendKeepsOrder
  <1>11. FirstTurnCounted'
    <2>1. turn'[g] <= 1 => turn[g] <= 1
      BY <1>3, <1>6
    <2>2. \A m \in DOMAIN events : m \in DOMAIN events' /\ events'[m] = events[m]
      BY <1>1, <1>2, <1>5, Appended
    <2>3. LastReported' = LastReported
      BY <1>1 DEF LastReported, HasSession
    <2>4. QED
      BY <1>1, <1>2, <2>1, <2>2, <2>3 DEF FirstTurnCounted, IsRunning
  <1>12. Slack'
    <2>1. turn'[g] * usage'[g] = turn[g] * usage[g] + usage[g]
      BY <1>1, <1>3, <1>6, Products
    <2>2. SumOver(Allowed)' = SumOver(Allowed) + (turn'[g] * usage'[g] - turn[g] * usage[g])
      BY <1>1, <1>2, <1>3, <1>6, <1>8, AllowedGrows
    <2>3. SumOver(Allowed) \in Nat /\ turn[g] * usage[g] \in Nat
      BY <1>2, <1>3, AllowedTypes, Products
    <2>4. SumOver(Allowed)' = SumOver(Allowed) + usage[g]
      BY <1>3, <2>1, <2>2, <2>3
    <2>5. Due' = Due + usage[g] /\ Due \in Int
      <3>1. CASE ~HasSession
        BY <1>1, <1>3, <1>6, <2>1, <2>3, <3>1 DEF Due, IsRunning, HasSession
      <3>2. CASE HasSession
        <4> DEFINE k == turn[g] - live_session.turn
        <4>1. /\ live_session.turn \in Nat /\ live_session.turn <= turn[g]
              /\ live_session.last_reported_tokens \in Nat
          BY <1>2, <3>2, TypeFacts DEF WorkersInOrder
        <4>2. k \in Nat /\ turn'[g] - live_session.turn = k + 1
          BY <1>3, <1>6, <4>1
        <4> HIDE DEF k
        <4>3. (k + 1) * usage[g] = k * usage[g] + usage[g] /\ k * usage[g] \in Nat
          BY <1>3, <4>2, Products
        <4>4. Due = k * usage[g] + (usage[g] - live_session.last_reported_tokens)
          BY <1>1, <3>2 DEF Due, IsRunning, k
        <4>5. Due' = (turn'[g] - live_session.turn) * usage[g]
                         + (usage[g] - live_session.last_reported_tokens)
          BY <1>1, <3>2 DEF Due, IsRunning, HasSession
        <4>6. Due' = (k + 1) * usage[g] + (usage[g] - live_session.last_reported_tokens)
          BY <4>2, <4>5
        <4>7. QED
          BY <1>3, <4>1, <4>3, <4>4, <4>6
      <3>3. QED
        BY <3>1, <3>2
    <2>6. codex_totals \in Nat /\ codex_totals' = codex_totals
      BY <1>1, <1>2, TypeFacts
    <2>7. QED
      BY <1>2, <1>3, <2>3, <2>4, <2>5, <2>6 DEF Slack
  <1>13. QED
    BY <1>8, <1>9, <1>10, <1>11, <1>12 DEF TokenInv

LEMMA ReportUsageKeeps ==
  ASSUME TokenInv, ReportUsage
  PROVE  TokenInv'
  <1> DEFINE g == generation
  <1>1. /\ g # None /\ turn[g] > 0 /\ generation' = g /\ dispatched' = dispatched
        /\ turn' = turn /\ live_session' = live_session /\ codex_totals' = codex_totals
    BY DEF ReportUsage
  <1>2. PICK total \in usage[g]..MaxUsage :
          /\ total > 0
          /\ usage' = [usage EXCEPT ![g] = total]
          /\ events' = Append(events, [thread |-> g, turn |-> turn[g],
                                       event |-> "token_totals", total |-> total])
    BY DEF ReportUsage
  <1>3. PICK e : e = [thread |-> g, turn |-> turn[g], event |-> "token_totals", total |-> total]
    OBVIOUS
  <1>4. TokenTypeOK /\ WorkersInOrder /\ ChannelInOrder /\ FirstTurnCounted /\ Slack
    BY DEF TokenInv
  <1>5. /\ g \in Workers /\ g \in Nat /\ g = dispatched /\ MaxTurns \in Nat /\ MaxUsage \in Nat
        /\ turn[g] \in Nat /\ usage[g] \in Nat /\ turn[g] \in 0..MaxTurns
    BY <1>1, <1>4, TypeFacts DEF WorkersInOrder, IsRunning, TokenTypeOK
  <1>6. /\ total \in Nat /\ total \in 0..MaxUsage /\ usage[g] <= total /\ turn[g] \in 1..MaxTurns
    BY <1>1, <1>5
  <1>7. e \in Event
    BY <1>3, <1>5, <1>6 DEF Event
  <1>8. /\ usage'[g] = total /\ usage' \in [Workers -> 0..MaxUsage]
        /\ \A v \in Workers \ {g} : usage'[v] = usage[v]
    BY <1>2, <1>4, <1>5, <1>6 DEF TokenTypeOK
  <1>9. \A v \in Workers : usage[v] \in Nat /\ usage'[v] \in Nat /\ usage[v] <= usage'[v]
    BY <1>4, <1>6, <1>8, TypeFacts
  <1>10. TokenTypeOK'
    <2>1. events' \in Seq(Event)
      BY <1>2, <1>3, <1>4, <1>7, Appended
    <2>2. QED
      BY <1>1, <1>4, <1>8, <2>1 DEF TokenTypeOK
  <1>11. HasSession => /\ live_session.turn \in Nat /\ 1 <= live_session.turn
                       /\ live_session.turn <= turn[g]
                       /\ live_session.last_reported_tokens \in Nat
                       /\ live_session.last_reported_tokens <= usage[g]
                       /\ live_session.last_reported_tokens <= total
    <2>1. HasSession => /\ live_session.turn \in Nat /\ 1 <= live_session.turn
                        /\ live_session.turn <= turn[g]
                        /\ live_session.last_reported_tokens \in Nat
                        /\ live_session.last_reported_tokens <= usage[g]
      BY <1>4, TypeFacts DEF WorkersInOrder
    <2>2. QED
      BY <1>5, <1>6, <2>1
  <1>12. WorkersInOrder'
    <2>1. \A v \in Workers : dispatched < v => v # g
      BY <1>5
    <2>2. QED
      BY <1>1, <1>4, <1>8, <1>11, <2>1 DEF WorkersInOrder, HasSession, IsRunning
  <1>13. ChannelInOrder'
    <2>1. ASSUME NEW m \in DOMAIN events, NEW d, d = events[m]
          PROVE  EventTrue(d)' /\ Continues(d)' /\ Follows(d, e)
      <3>1. d \in Event /\ EventTrue(d) /\ Continues(d)
        BY <1>4, <2>1, EventsAreEvents DEF ChannelInOrder
      <3>2. /\ d.thread \in Workers /\ d.turn \in Nat /\ d.turn <= turn[d.thread]
            /\ d.total # None => d.total \in Nat /\ d.total <= usage[d.thread]
        BY <3>1, EventFields DEF EventTrue
      <3>3. d.total # None => d.total <= usage'[d.thread]
        BY <1>9, <3>2
      <3>4. EventTrue(d)'
        BY <1>1, <3>1, <3>3 DEF EventTrue
      <3>5. Continues(d)'
        BY <1>1, <3>1 DEF Continues, HasSession
      <3>6. d.thread = g => d.turn <= turn[g] /\ (d.total # None => d.total <= total)
        BY <1>5, <1>6, <3>2
      <3>7. Follows(d, e)
        BY <1>3, <3>6 DEF Follows
      <3>8. QED
        BY <3>4, <3>5, <3>7
    <2>2. EventTrue(e)'
      BY <1>1, <1>3, <1>5, <1>6, <1>8 DEF EventTrue
    <2>3. Continues(e)'
      BY <1>1, <1>3, <1>11 DEF Continues, HasSession
    <2>4. QED
      BY <1>2, <1>3, <1>4, <1>7, <2>1, <2>2, <2>3, SendKeepsOrder
  <1>14. FirstTurnCounted'
    <2>1. Len(events) + 1 \in DOMAIN events' /\ events'[Len(events) + 1] = e
      BY <1>2, <1>3, <1>4, <1>7, Appended
    <2>2. e.thread = g /\ e.total = usage'[g]
      BY <1>3, <1>8
    <2>3. QED
      BY <1>1, <2>1, <2>2 DEF FirstTurnCounted
  <1>15. Slack'
    <2> DEFINE more == total - usage[g]
    <2>1. more \in Nat /\ total = usage[g] + more
      BY <1>5, <1>6
    <2>2. turn'[g] * usage'[g] = turn[g] * total
      BY <1>1, <1>8
    <2> HIDE DEF more
    <2>3. turn[g] * total = turn[g] * usage[g] + turn[g] * more
      BY <1>5, <2>1
    <2>4. turn[g] * usage[g] \in Nat /\ turn[g] * more \in Nat
      BY <1>5, <2>1, Products
    <2>5. SumOver(Allowed)' = SumOver(Allowed) + (turn'[g] * usage'[g] - turn[g] * usage[g])
      BY <1>1, <1>4, <1>5, <1>8, <1>10, AllowedGrows
    <2>6. SumOver(Allowed) \in Nat /\ codex_totals \in Nat
      BY <1>4, AllowedTypes, TypeFacts
    <2>7. SumOver(Allowed)' = SumOver(Allowed) + turn[g] * more
      BY <2>2, <2>3, <2>4, <2>5, <2>6
    <2>8. Due \in Int /\ Due' \in Int /\ Due' <= Due + turn[g] * more
      <3>1. CASE ~HasSession
        <4>1. Due = turn[g] * usage[g]
          BY <1>1, <3>1 DEF Due, IsRunning
        <4>2. Due' = turn[g] * total
          BY <1>1, <1>8, <3>1 DEF Due, IsRunning, HasSession
        <4>3. QED
          BY <2>3, <2>4, <4>1, <4>2
      <3>2. CASE HasSession
        <4> DEFINE k == turn[g] - live_session.turn
                   known == live_session.last_reported_tokens
        <4>1. k \in Nat /\ k < turn[g] /\ known \in Nat
          BY <1>5, <1>11, <3>2
        <4>2. Due = k * usage[g] + (usage[g] - known)
          BY <1>1, <3>2 DEF Due, IsRunning
        <4>3. Due' = k * total + (total - known)
          BY <1>1, <1>8, <3>2 DEF Due, IsRunning, HasSession
        <4> HIDE DEF k, known
        <4>4. k * total = k * usage[g] + k * more
          BY <1>5, <2>1, <4>1
        <4>5. k * more + more <= turn[g] * more
          BY <1>5, <2>1, <4>1, LaterTurn
        <4>6. k * usage[g] \in Nat /\ k * more \in Nat
          BY <1>5, <2>1, <4>1, Products
        <4>7. QED
          BY <1>5, <2>1, <2>4, <4>1, <4>2, <4>3, <4>4, <4>5, <4>6
      <3>3. QED
        BY <3>1, <3>2
    <2>9. QED
      BY <1>1, <1>4, <2>4, <2>6, <2>7, <2>8 DEF Slack
  <1>16. QED
    BY <1>10, <1>12, <1>13, <1>14, <1>15 DEF TokenInv

\* What an event of the current worker makes of the session and of the totals.
LEMMA Applied ==
  ASSUME TokenInv, NEW e \in Event, e.thread = generation, EventTrue(e), Continues(e),
         ApplyCodexEvent(e)
  PROVE  LET same == HasSession /\ live_session.turn = e.turn
             before == IF same THEN live_session.last_reported_tokens ELSE 0
             known == live_session'.last_reported_tokens
         IN  /\ live_session' \in Session /\ live_session' # None
             /\ live_session'.thread = generation /\ live_session'.turn = e.turn
             /\ before \in Nat /\ known \in Nat /\ before <= known /\ known <= usage[generation]
             /\ codex_totals' = codex_totals + (known - before)
             /\ e.total = None => known = before
             /\ e.total # None => known = e.total
  <1> DEFINE same == HasSession /\ live_session.turn = e.turn
             before == IF same THEN live_session.last_reported_tokens ELSE 0
             session == SessionFor(e)
             counted == IF e.event = "turn_started"
                        THEN [session EXCEPT !.turn_count = @ + 1] ELSE session
  <1>1. TokenTypeOK /\ WorkersInOrder
    BY DEF TokenInv
  <1>2. /\ e.thread \in Workers /\ e.turn \in 1..MaxTurns
        /\ e.total # None => e.total \in Nat /\ e.total <= usage[generation]
        /\ usage[generation] \in Nat /\ codex_totals \in Nat
    BY <1>1, EventFields, TypeFacts DEF EventTrue
  <1>3. HasSession => /\ live_session \in Session /\ live_session.thread = e.thread
                      /\ live_session.last_reported_tokens \in Nat
                      /\ live_session.last_reported_tokens <= usage[generation]
    BY <1>1, TypeFacts DEF WorkersInOrder
  <1>4. /\ session \in Session /\ session.thread = generation /\ session.turn = e.turn
        /\ session.last_reported_tokens = before /\ session.turn_count \in Nat
    <2>1. CASE same
      <3>1. session = live_session
        BY <1>3, <2>1 DEF SessionFor, HasSession
      <3>2. live_session.turn_count \in Nat
        BY <1>1, <2>1, TypeFacts
      <3>3. QED
        BY <1>3, <2>1, <3>1, <3>2
    <2>2. CASE ~same
      <3>1. session = NewSession(e.thread, e.turn)
        BY <1>3, <2>2 DEF SessionFor, HasSession
      <3>2. NewSession(e.thread, e.turn) =
                [thread |-> e.thread, turn |-> e.turn, turn_count |-> 0, last_reported_tokens |-> 0]
        BY DEF NewSession
      <3>3. QED
        BY <1>2, <2>2, <3>1, <3>2 DEF Session
    <2>3. QED
      BY <2>1, <2>2
  <1>5. /\ before \in Nat /\ before <= usage[generation]
        /\ e.total # None => before <= e.total
    <2>1. CASE same
      BY <1>3, <2>1 DEF Continues
    <2>2. CASE ~same
      BY <1>2, <2>2
    <2>3. QED
      BY <2>1, <2>2
  <1> HIDE DEF session, before
  <1>6. /\ counted \in Session /\ counted.thread = generation /\ counted.turn = e.turn
        /\ counted.last_reported_tokens = before
    <2>1. session.turn_count + 1 \in Nat
      BY <1>4
    <2>2. CASE e.event = "turn_started"
      BY <1>4, <2>1, <2>2 DEF Session
    <2>3. CASE e.event # "turn_started"
      BY <1>4, <2>3
    <2>4. QED
      BY <2>2, <2>3
  <1>7. None \notin Session
    BY TokenAssumption
  <1>8. CASE e.total = None
    <2>1. live_session' = counted /\ codex_totals' = codex_totals
      BY <1>8 DEF ApplyCodexEvent, session
    <2> HIDE DEF counted
    <2>2. /\ live_session'.last_reported_tokens = before
          /\ codex_totals' = codex_totals + (live_session'.last_reported_tokens - before)
      BY <1>2, <1>5, <1>6, <2>1
    <2>3. QED
      BY <1>5, <1>6, <1>7, <1>8, <2>1, <2>2 DEF before
  <1>9. CASE e.total # None
    <2>1. /\ codex_totals' = codex_totals + TokenDelta(session, e.total)
          /\ live_session' = Remember(counted, e.total)
      BY <1>9 DEF ApplyCodexEvent, session
    <2> HIDE DEF counted
    <2>2. /\ live_session' \in Session /\ live_session'.thread = generation
          /\ live_session'.turn = e.turn /\ live_session'.last_reported_tokens = e.total
      BY <1>2, <1>6, <1>9, <2>1 DEF Remember, Session
    <2>3. TokenDelta(session, e.total) = e.total - before
      BY <1>2, <1>4, <1>5, <1>9 DEF TokenDelta
    <2>4. QED
      BY <1>2, <1>5, <1>7, <1>9, <2>1, <2>2, <2>3 DEF before
  <1>10. QED
    BY <1>8, <1>9

LEMMA ReceiveEventKeeps ==
  ASSUME TokenInv, ReceiveEvent
  PROVE  TokenInv'
  <1> DEFINE g == generation
  <1>1. PICK e : e = Head(events)
    OBVIOUS
  <1>2. /\ events # <<>> /\ events' = Tail(events) /\ generation' = g
        /\ dispatched' = dispatched /\ turn' = turn /\ usage' = usage
        /\ g = e.thread => ApplyCodexEvent(e)
        /\ g # e.thread => live_session' = live_session /\ codex_totals' = codex_totals
    BY <1>1 DEF ReceiveEvent
  <1>3. TokenTypeOK /\ WorkersInOrder /\ ChannelInOrder /\ FirstTurnCounted /\ Slack
    BY DEF TokenInv
  <1>4. /\ events' \in Seq(Event) /\ 1 \in DOMAIN events /\ e = events[1] /\ e \in Event
        /\ \A m \in DOMAIN events' : m + 1 \in DOMAIN events /\ events'[m] = events[m + 1]
        /\ \A m \in DOMAIN events :
              m = 1 \/ (m - 1 \in DOMAIN events' /\ events'[m - 1] = events[m])
    BY <1>1, <1>2, <1>3, Received
  <1>5. EventTrue(e) /\ Continues(e)
    BY <1>3, <1>4 DEF ChannelInOrder
  <1>6. Allowed' = Allowed /\ SumOver(Allowed)' = SumOver(Allowed)
    <2>1. Allowed' = Allowed
      BY <1>2 DEF Allowed
    <2>2. QED
      BY <2>1 DEF SumOver
  <1>7. CASE g # e.thread
    <2>1. live_session' = live_session /\ codex_totals' = codex_totals
      BY <1>2, <1>7
    <2>2. TokenTypeOK'
      BY <1>2, <1>3, <1>4, <2>1 DEF TokenTypeOK
    <2>3. WorkersInOrder'
      BY <1>2, <1>3, <2>1 DEF WorkersInOrder, HasSession, IsRunning
    <2>4. ChannelInOrder'
      <3>1. ASSUME NEW m \in DOMAIN events, NEW d, d = events[m]
            PROVE  EventTrue(d)' /\ Continues(d)'
        BY <1>2, <1>3, <2>1, <3>1 DEF ChannelInOrder, EventTrue, Continues, HasSession
      <3>2. QED
        BY <1>2, <1>3, <3>1, ReceiveKeepsOrder
    <2>5. FirstTurnCounted'
      <3>1. LastReported' = LastReported
        BY <2>1 DEF LastReported, HasSession
      <3>2. \A m \in DOMAIN events : events[m].thread = g =>
                \E n \in DOMAIN events' : events'[n] = events[m]
        BY <1>4, <1>7
      <3>3. QED
        BY <1>2, <1>3, <3>1, <3>2 DEF FirstTurnCounted, IsRunning
    <2>6. Slack'
      <3>1. Due' = Due
        BY <1>2, <2>1 DEF Due, IsRunning, HasSession
      <3>2. QED
        BY <1>3, <1>6, <2>1, <3>1 DEF Slack
    <2>7. QED
      BY <2>2, <2>3, <2>4, <2>5, <2>6 DEF TokenInv
  <1>8. CASE g = e.thread
    <2> DEFINE same == HasSession /\ live_session.turn = e.turn
               before == IF same THEN live_session.last_reported_tokens ELSE 0
               known == live_session'.last_reported_tokens
    <2>1. /\ live_session' \in Session /\ live_session' # None
          /\ live_session'.thread = g /\ live_session'.turn = e.turn
          /\ before \in Nat /\ known \in Nat /\ before <= known /\ known <= usage[g]
          /\ codex_totals' = codex_totals + (known - before)
          /\ e.total = None => known = before
          /\ e.total # None => known = e.total
      BY <1>2, <1>4, <1>5, <1>8, Applied
    <2>2. /\ g \in Workers /\ g # None /\ turn[g] \in Nat /\ usage[g] \in Nat
          /\ codex_totals \in Nat
      <3>1. g \in Workers
        BY <1>4, <1>8, EventFields
      <3>2. g \in Nat
        BY <1>3, <3>1, TypeFacts
      <3>3. QED
        BY <1>3, <3>1, <3>2, TypeFacts
    <2>3. e.turn \in Nat /\ 1 <= e.turn /\ e.turn <= turn[g]
      BY <1>4, <1>5, <1>8, EventFields DEF EventTrue
    <2>4. HasSession' /\ IsRunning' /\ IsRunning
      BY <1>2, <2>1, <2>2 DEF HasSession, IsRunning
    <2>5. TokenTypeOK'
      <3>1. codex_totals' \in Nat
        BY <2>1, <2>2
      <3>2. QED
        BY <1>2, <1>3, <1>4, <2>1, <3>1 DEF TokenTypeOK
    <2>6. WorkersInOrder'
      BY <1>2, <1>3, <2>1, <2>3, <2>4 DEF WorkersInOrder
    <2>7. ChannelInOrder'
      <3>1. ASSUME NEW m \in DOMAIN events, NEW d, d = events[m], Follows(Head(events), d)
            PROVE  EventTrue(d)' /\ Continues(d)'
        <4>1. EventTrue(d) /\ Continues(d) /\ d \in Event
          BY <1>3, <3>1, EventsAreEvents DEF ChannelInOrder
        <4>2. EventTrue(d)'
          BY <1>2, <4>1 DEF EventTrue
        <4>3. ASSUME d.thread = g
              PROVE  e.turn <= d.turn /\ (d.total # None => known <= d.total)
          <5>1. /\ e.turn <= d.turn
                /\ e.total # None /\ d.total # None => e.total <= d.total
            BY <1>1, <1>8, <3>1, <4>3 DEF Follows
          <5>2. d.total # None => before <= d.total
            <6>1. d.total # None => d.total \in Nat
              BY <4>1, EventFields
            <6>2. CASE same
              BY <4>1, <4>3, <6>2 DEF Continues
            <6>3. CASE ~same
              BY <6>1, <6>3
            <6>4. QED
              BY <6>2, <6>3
          <5>3. QED
            BY <2>1, <5>1, <5>2
        <4>4. Continues(d)'
          BY <1>2, <2>1, <4>3 DEF Continues
        <4>5. QED
          BY <4>2, <4>4
      <3>2. QED
        BY <1>2, <1>3, <3>1, ReceiveKeepsOrder
    <2>8. FirstTurnCounted'
      <3> SUFFICES ASSUME turn[g] <= 1
                   PROVE  \/ known = usage[g]
                          \/ \E m \in DOMAIN events' : /\ events'[m].thread = g
                                                       /\ events'[m].total = usage[g]
        BY <1>2, <2>4 DEF FirstTurnCounted, LastReported
      <3>1. LastReported = before
        <4>1. HasSession => /\ live_session.turn \in Nat /\ 1 <= live_session.turn
                            /\ live_session.turn <= turn[g]
          BY <1>3, TypeFacts DEF WorkersInOrder
        <4>2. HasSession => live_session.turn = e.turn
          BY <2>2, <2>3, <4>1
        <4>3. QED
          BY <4>2 DEF LastReported
      <3>2. CASE before = usage[g]
        BY <2>1, <2>2, <3>2
      <3>3. CASE \E m \in DOMAIN events : /\ events[m].thread = g
                                          /\ events[m].total = usage[g]
        <4>1. PICK m \in DOMAIN events : events[m].thread = g /\ events[m].total = usage[g]
          BY <3>3
        <4>2. CASE m = 1
          <5>1. e.total = usage[g] /\ e.total # None
            <6>1. None \notin Nat
              BY TokenAssumption
            <6>2. QED
              BY <1>4, <2>2, <4>1, <4>2, <6>1
          <5>2. QED
            BY <2>1, <5>1
        <4>3. CASE m # 1
          BY <1>4, <4>1, <4>3
        <4>4. QED
          BY <4>2, <4>3
      <3>4. QED
        BY <1>3, <2>4, <3>1, <3>2, <3>3 DEF FirstTurnCounted
    <2>9. Slack'
      <3> DEFINE k == turn[g] - e.turn
                 u == usage[g]
      <3>1. k \in Nat /\ u \in Nat /\ k < turn[g] /\ k * u \in Nat
        <4>1. k \in Nat /\ u \in Nat /\ k < turn[g]
          BY <2>2, <2>3
        <4> HIDE DEF k, u
        <4>2. k * u \in Nat
          BY <4>1, Products
        <4>3. QED
          BY <4>1, <4>2
      <3>2. Due' = k * u + (u - known)
        BY <1>2, <2>1, <2>4 DEF Due
      <3>3. SumOver(Allowed) \in Nat
        BY <1>3, AllowedTypes
      <3>4. HasSession => /\ live_session.turn \in Nat /\ live_session.turn <= turn[g]
                          /\ live_session.turn <= e.turn
                          /\ live_session.last_reported_tokens \in Nat
                          /\ live_session.last_reported_tokens <= u
        BY <1>3, <1>5, <1>8, TypeFacts DEF WorkersInOrder, Continues
      <3>5. Due \in Int /\ k * u + (u - before) <= Due
        <4>1. CASE ~HasSession
          <5>1. Due = turn[g] * u /\ before = 0
            BY <2>4, <4>1 DEF Due
          <5> HIDE DEF k, u
          <5>2. k * u + u <= turn[g] * u /\ turn[g] * u \in Nat
            BY <2>2, <3>1, LaterTurn, Products
          <5>3. QED
            BY <3>1, <5>1, <5>2
        <4>2. CASE same
          <5>1. Due = k * u + (u - before)
            BY <2>4, <4>2 DEF Due
          <5> HIDE DEF k, u, before
          <5>2. QED
            BY <2>1, <3>1, <5>1
        <4>3. CASE HasSession /\ ~same
          <5> DEFINE l == turn[g] - live_session.turn
                     old == live_session.last_reported_tokens
          <5>1. l \in Nat /\ k < l /\ old \in Nat /\ old <= u /\ before = 0
            BY <2>2, <2>3, <3>4, <4>3
          <5>2. Due = l * u + (u - old)
            BY <2>4, <4>3 DEF Due
          <5> HIDE DEF k, u, l, old, before
          <5>3. k * u + u <= l * u /\ l * u \in Nat
            BY <3>1, <5>1, LaterTurn, Products
          <5>4. QED
            BY <3>1, <5>1, <5>2, <5>3
        <4>4. QED
          BY <4>1, <4>2, <4>3
      <3>6. codex_totals + Due <= SumOver(Allowed)
        BY <1>3 DEF Slack
      <3> HIDE DEF k, u, before, known
      <3>7. codex_totals' + Due' <= SumOver(Allowed)
        BY <2>1, <2>2, <3>1, <3>2, <3>3, <3>5, <3>6
      <3>8. QED
        BY <1>6, <3>7 DEF Slack
    <2>10. QED
      BY <2>5, <2>6, <2>7, <2>8, <2>9 DEF TokenInv
  <1>9. QED
    BY <1>7, <1>8

LEMMA DueIsNatural ==
  ASSUME TokenTypeOK, WorkersInOrder
  PROVE  Due \in Nat
  <1>1. CASE ~IsRunning
    BY <1>1 DEF Due
  <1>2. CASE IsRunning
    <2>1. turn[generation] \in Nat /\ usage[generation] \in Nat
      BY <1>2, TypeFacts DEF IsRunning
    <2>2. CASE ~HasSession
      <3>1. turn[generation] * usage[generation] \in Nat
        BY <2>1, Products
      <3>2. QED
        BY <1>2, <2>2, <3>1 DEF Due
    <2>3. CASE HasSession
      <3> DEFINE k == turn[generation] - live_session.turn
                 rest == usage[generation] - live_session.last_reported_tokens
      <3>1. k \in Nat /\ rest \in Nat
        <4>1. /\ live_session.turn \in Nat /\ live_session.turn <= turn[generation]
              /\ live_session.last_reported_tokens \in Nat
              /\ live_session.last_reported_tokens <= usage[generation]
          BY <2>3, TypeFacts DEF WorkersInOrder
        <4>2. QED
          BY <2>1, <4>1
      <3>2. Due = k * usage[generation] + rest
        BY <1>2, <2>3 DEF Due
      <3> HIDE DEF k, rest
      <3>3. k * usage[generation] \in Nat
        BY <2>1, <3>1, Products
      <3>4. QED
        BY <3>1, <3>2, <3>3
    <2>4. QED
      BY <2>2, <2>3
  <1>3. QED
    BY <1>1, <1>2

LEMMA WorkerEndsKeeps ==
  ASSUME TokenInv, WorkerEnds
  PROVE  TokenInv'
  <1>1. /\ generation' = None /\ live_session' = None /\ dispatched' = dispatched
        /\ turn' = turn /\ usage' = usage /\ events' = events /\ codex_totals' = codex_totals
    BY DEF WorkerEnds
  <1>2. TokenTypeOK /\ WorkersInOrder /\ ChannelInOrder /\ Slack
    BY DEF TokenInv
  <1>3. TokenTypeOK'
    BY <1>1, <1>2 DEF TokenTypeOK
  <1>4. WorkersInOrder'
    BY <1>1, <1>2 DEF WorkersInOrder, HasSession, IsRunning
  <1>5. ChannelInOrder'
    BY <1>1, <1>2 DEF ChannelInOrder, EventTrue, Continues, HasSession, Follows
  <1>6. FirstTurnCounted'
    BY <1>1 DEF FirstTurnCounted, IsRunning
  <1>7. Slack'
    <2>1. Allowed' = Allowed
      BY <1>1 DEF Allowed
    <2>2. SumOver(Allowed)' = SumOver(Allowed)
      BY <2>1 DEF SumOver
    <2>3. Due' = 0 /\ Due \in Nat /\ codex_totals \in Nat /\ SumOver(Allowed) \in Nat
      BY <1>1, <1>2, DueIsNatural, TypeFacts, AllowedTypes DEF Due, IsRunning
    <2>4. QED
      BY <1>1, <1>2, <2>2, <2>3 DEF Slack
  <1>8. QED
    BY <1>3, <1>4, <1>5, <1>6, <1>7 DEF TokenInv


-----------------------------------------------------------------------------
(* The theorems. *)

LEMMA StepKeeps ==
  ASSUME TokenInv, [TokenNext]_accounting
  PROVE  TokenInv'
  <1>1. CASE Dispatch
    BY <1>1, DispatchKeeps
  <1>2. CASE StartTurn
    BY <1>2, StartTurnKeeps
  <1>3. CASE ReportUsage
    BY <1>3, ReportUsageKeeps
  <1>4. CASE ReceiveEvent
    BY <1>4, ReceiveEventKeeps
  <1>5. CASE WorkerEnds
    BY <1>5, WorkerEndsKeeps
  <1>6. CASE UNCHANGED accounting
    <2>1. /\ generation' = generation /\ live_session' = live_session
          /\ dispatched' = dispatched /\ turn' = turn /\ usage' = usage
          /\ events' = events /\ codex_totals' = codex_totals
      BY <1>6 DEF accounting
    <2>2. TokenTypeOK'
      BY <2>1 DEF TokenInv, TokenTypeOK
    <2>3. WorkersInOrder'
      BY <2>1 DEF TokenInv, WorkersInOrder, HasSession, IsRunning
    <2>4. ChannelInOrder'
      BY <2>1 DEF TokenInv, ChannelInOrder, EventTrue, Continues, HasSession, Follows
    <2>5. FirstTurnCounted'
      BY <2>1 DEF TokenInv, FirstTurnCounted, LastReported, HasSession, IsRunning
    <2>6. Slack'
      <3>1. Allowed' = Allowed /\ Due' = Due
        BY <2>1 DEF Allowed, Due, IsRunning, HasSession
      <3>2. SumOver(Allowed)' = SumOver(Allowed)
        BY <3>1 DEF SumOver
      <3>3. QED
        BY <2>1, <3>1, <3>2 DEF TokenInv, Slack
    <2>7. QED
      BY <2>2, <2>3, <2>4, <2>5, <2>6 DEF TokenInv
  <1>7. QED
    BY <1>1, <1>2, <1>3, <1>4, <1>5, <1>6 DEF TokenNext

LEMMA TokensInductive == TokenSpec => []TokenInv
  <1>1. TokenInit => TokenInv
    BY TokensBegin
  <1>2. TokenInv /\ [TokenNext]_accounting => TokenInv'
    BY StepKeeps
  <1>3. QED
    BY <1>1, <1>2, PTL DEF TokenSpec

\* The variables have the types of LiveSession and of the event channel.
THEOREM TokenTypeCorrect == TokenSpec => []TokenTypeOK
  <1>1. TokenInv => TokenTypeOK
    BY DEF TokenInv
  <1>2. QED
    BY <1>1, TokensInductive, PTL

\* apply_codex_event: for every number of workers and turns, a token is counted at
\* most once in each turn of its thread, also when events of an earlier worker are
\* still in the channel: what a new session forgets is the only double count there is.
THEOREM CountedOncePerTurn == TokenSpec => []OncePerTurn
  <1>1. TokenInv => OncePerTurn
    <2> SUFFICES ASSUME TokenInv
                 PROVE  OncePerTurn
      OBVIOUS
    <2>1. Due \in Nat /\ codex_totals \in Nat /\ SumOver(Allowed) \in Nat
      BY DueIsNatural, TypeFacts, AllowedTypes DEF TokenInv
    <2>2. QED
      BY <2>1 DEF TokenInv, Slack, OncePerTurn
  <1>2. QED
    BY <1>1, TokensInductive, PTL

\* SPEC.md:1388: with one turn to a worker the totals never count a token twice.
THEOREM OneTurnCountsOnce == MaxTurns = 1 => (TokenSpec => []NoDoubleCount)
  <1>1. ASSUME MaxTurns = 1, TokenInv
        PROVE  NoDoubleCount
    <2>1. TokenTypeOK
      BY <1>1 DEF TokenInv
    <2>2. Allowed \in [Workers -> Nat] /\ usage \in [Workers -> Nat]
      BY <2>1, AllowedTypes, TokenAssumption DEF TokenTypeOK
    <2>3. ASSUME NEW w \in Workers
          PROVE  Allowed[w] <= usage[w]
      <3>1. turn[w] \in 0..1 /\ usage[w] \in Nat /\ Allowed[w] = turn[w] * usage[w]
        BY <1>1, <2>1, <2>2, AllowedTypes DEF TokenTypeOK
      <3>2. CASE turn[w] = 0
        BY <3>1, <3>2
      <3>3. CASE turn[w] = 1
        BY <3>1, <3>3
      <3>4. QED
        BY <3>1, <3>2, <3>3
    <2>4. SumOver(Allowed) <= SumOver(usage)
      BY <2>2, <2>3, SumIsMonotone
    <2>5. Due \in Nat /\ codex_totals \in Nat /\ SumOver(Allowed) \in Nat
      BY <1>1, <2>1, DueIsNatural, TypeFacts, AllowedTypes DEF TokenInv
    <2>6. SumOver(usage) \in Nat
      <3>1. PICK s : IsSum(s, usage, MaxWorkers) /\ SumOver(usage) = s[MaxWorkers]
        BY <2>2, SumIs
      <3>2. MaxWorkers \in Nat
        BY TokenAssumption
      <3>3. QED
        BY <3>1, <3>2 DEF IsSum
    <2>7. codex_totals + Due <= SumOver(Allowed)
      BY <1>1 DEF TokenInv, Slack
    <2>8. QED
      BY <2>4, <2>5, <2>6, <2>7 DEF NoDoubleCount, Reported
  <1>2. CASE MaxTurns = 1
    <2>1. TokenInv => NoDoubleCount
      BY <1>1, <1>2
    <2>2. QED
      BY <2>1, TokensInductive, PTL
  <1>3. QED
    BY <1>2

\* apply_codex_event: the session of a worker with one turn has recorded all that its
\* thread has used once its events have been applied.
THEOREM OneTurnIsRecorded == MaxTurns = 1 => (TokenSpec => []CurrentUsageCounted)
  <1>1. ASSUME MaxTurns = 1, TokenInv
        PROVE  CurrentUsageCounted
    <2> SUFFICES ASSUME generation # None, events = <<>>, live_session # None
                 PROVE  live_session.last_reported_tokens = usage[generation]
      BY DEF CurrentUsageCounted
    <2>1. generation \in Workers /\ turn[generation] \in 0..1
      BY <1>1, TypeFacts DEF TokenInv, TokenTypeOK
    <2>2. turn[generation] <= 1
      BY <2>1
    <2>3. DOMAIN events = {}
      OBVIOUS
    <2>4. QED
      BY <1>1, <2>2, <2>3 DEF TokenInv, FirstTurnCounted, IsRunning, LastReported, HasSession
  <1>2. CASE MaxTurns = 1
    <2>1. TokenInv => CurrentUsageCounted
      BY <1>1, <1>2
    <2>2. QED
      BY <2>1, TokensInductive, PTL
  <1>3. QED
    BY <1>2

=============================================================================

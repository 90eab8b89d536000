------------------------ MODULE AgentSessionProofs ------------------------
(***************************************************************************)
(* For every number of turns, requests and odd lines and every pipe: the   *)
(* turns a worker counts are those the server completed, each once and in  *)
(* order, no request of the server is left without an answer while the     *)
(* session goes on, the client listens to the turn it asked for, and no    *)
(* server outlives its session.                                            *)
(***************************************************************************)
EXTENDS AgentSession, SequenceTheorems, TLAPS

Line == Message \cup {NoMessage}

\* What is said of a turn is how it ended.
IsTrue(m, ends) == m.kind = "completed" => ends[m.id] = m.what

\* Whatever is in transit is true, also when it is repeated or read in two pieces.
TransitTrue ==
    /\ \A i \in DOMAIN pipe : IsTrue(pipe[i].message, ended)
    /\ IsTrue(line, ended) /\ IsTrue(writing, ended)

\* The client is at most one turn ahead of those it has counted, and a turn it listens
\* to is the last one it asked for.
TurnsCounted ==
    /\ OnlyServedTurnsCount
    /\ stage \in {"initialize", "thread"} => turns = 0 /\ Len(done) = 0
    /\ stage \in {"turn_start", "streaming"} => turns = Len(done) + 1
    /\ stage = "idle" => turns = Len(done)
    /\ StreamsOwnTurn

\* The head of a line is followed by its tail: in the pipe, or by what the server has
\* still to write.
Framed ==
    /\ \A i \in 1..Len(pipe) : pipe[i].part = "head" =>
          IF i = Len(pipe) THEN writing = pipe[i].message
          ELSE pipe[i + 1] = [part |-> "tail", message |-> pipe[i].message]
    /\ line # NoMessage =>
          IF pipe = <<>> THEN writing = line
          ELSE Head(pipe) = [part |-> "tail", message |-> line]

Alive == stage \in Waiting \cup {"streaming", "idle"}

\* The client executes it as a tool call or is writing the answer to it.
InHand(n) == calling = n \/ (sending.kind = "reply" /\ sending.id = n)

\* A request is answered, on its way, or in the client's hands.
RequestsKept ==
    Alive => \A n \in 1..asks : answers[n] # "none" \/ InTransit(n) \/ InHand(n)

CallsInSession ==
    /\ calling # 0 \/ sending # NoLine => InWait
    /\ calling # 0 => sending = NoLine

IInv ==
    TypeOK /\ TransitTrue /\ TurnsCounted /\ Framed /\ RequestsKept /\ CallsInSession /\ ServerGone


-----------------------------------------------------------------------------
(* Lines and pieces. *)

LEMMA MessageParts ==
  ASSUME NEW m \in Message
  PROVE  /\ m # NoMessage /\ m.kind # "none"
         /\ m.kind = "request" => m.id \in Ask
         /\ m.kind = "completed" => m.id \in Turn /\ m.what \in Status
         /\ m.kind = "response" => m.id \in RequestId
  BY DEF Message, NoMessage, Response, Completed, Request, Notification, Malformed

LEMMA Lines ==
  /\ NoMessage \notin Message /\ NoMessage.kind = "none"
  /\ Malformed \in Message /\ Notification \in Message
  /\ Malformed.kind = "malformed" /\ Notification.kind = "notification"
  <1>1. NoMessage.kind = "none"
    BY DEF NoMessage
  <1>2. QED
    BY <1>1, MessageParts DEF Message, Malformed, Notification

LEMMA ClientLines ==
  /\ NoLine.kind = "none" /\ NoLine \notin ClientLine
  /\ \A l \in ClientLine : l.kind = "reply" => l.id \in Ask /\ l.what \in Replies
  /\ \A id \in RequestId : Call(id) \in ClientLine /\ Call(id).kind = "call"
  /\ \A n \in Ask, what \in Replies :
        /\ Reply(n, what) \in ClientLine
        /\ Reply(n, what).kind = "reply" /\ Reply(n, what).id = n
  <1>1. NoLine.kind = "none" /\ NoLine \notin ClientLine
    <2>1. \A l \in ClientLine : l.kind \in {"call", "reply"}
      BY DEF ClientLine, Call, Reply
    <2>2. NoLine.kind = "none"
      BY DEF NoLine
    <2>3. QED
      BY <2>1, <2>2
  <1>2. \A l \in ClientLine : l.kind = "reply" => l.id \in Ask /\ l.what \in Replies
    BY DEF ClientLine, Call, Reply
  <1>3. \A id \in RequestId : Call(id) \in ClientLine /\ Call(id).kind = "call"
    BY DEF ClientLine, Call
  <1>4. \A n \in Ask, what \in Replies :
          /\ Reply(n, what) \in ClientLine
          /\ Reply(n, what).kind = "reply" /\ Reply(n, what).id = n
    BY DEF ClientLine, Reply
  <1>5. QED
    BY <1>1, <1>2, <1>3, <1>4

\* A piece at the end of the pipe leaves those before it where they were.
LEMMA Appended ==
  ASSUME TypeOK, NEW p \in Piece, pipe' = Append(pipe, p)
  PROVE  /\ pipe' \in Seq(Piece) /\ pipe' # <<>> /\ Len(pipe') = Len(pipe) + 1
         /\ Len(pipe) \in Nat
         /\ DOMAIN pipe = 1..Len(pipe) /\ DOMAIN pipe' = 1..Len(pipe) + 1
         /\ \A i \in 1..Len(pipe) : pipe'[i] = pipe[i]
         /\ pipe'[Len(pipe) + 1] = p
         /\ Head(pipe') = IF pipe = <<>> THEN p ELSE Head(pipe)
  <1>1. pipe \in Seq(Piece)
    BY DEF TypeOK
  <1>2. /\ pipe' \in Seq(Piece) /\ pipe' # <<>> /\ Len(pipe') = Len(pipe) + 1
        /\ \A i \in 1..Len(pipe) : pipe'[i] = pipe[i]
        /\ pipe'[Len(pipe) + 1] = p
    BY <1>1, AppendProperties
  <1>3. /\ Len(pipe) \in Nat /\ DOMAIN pipe = 1..Len(pipe)
        /\ DOMAIN pipe' = 1..Len(pipe')
    BY <1>1, <1>2, LenProperties
  <1>4. Head(pipe') = IF pipe = <<>> THEN p ELSE Head(pipe)
    BY <1>1, HeadTailAppend
  <1>5. QED
    BY <1>2, <1>3, <1>4

\* What the server writes of a line is one piece, and the rest of it waits to be written.
LEMMA WritesPiece ==
  ASSUME TypeOK, NEW m \in Message, Write(m)
  PROVE  /\ writing = NoMessage
         /\ \E p \in Piece : /\ pipe' = Append(pipe, p) /\ p.message = m
                             /\ \/ p.part = "whole" /\ writing' = NoMessage
                                \/ p.part = "head" /\ writing' = m
  <1>1. writing = NoMessage
    BY DEF Write
  <1>2. CASE pipe' = Append(pipe, [part |-> "whole", message |-> m]) /\ UNCHANGED writing
    <2> DEFINE p == [part |-> "whole", message |-> m]
    <2>1. p \in Piece /\ p.message = m /\ p.part = "whole"
      BY DEF Piece
    <2>2. pipe' = Append(pipe, p) /\ writing' = NoMessage
      BY <1>1, <1>2
    <2> HIDE DEF p
    <2>3. QED
      BY <1>1, <2>1, <2>2
  <1>3. CASE pipe' = Append(pipe, [part |-> "head", message |-> m]) /\ writing' = m
    <2> DEFINE p == [part |-> "head", message |-> m]
    <2>1. p \in Piece /\ p.message = m /\ p.part = "head"
      BY DEF Piece
    <2>2. pipe' = Append(pipe, p) /\ writing' = m
      BY <1>1, <1>3
    <2> HIDE DEF p
    <2>3. QED
      BY <1>1, <2>1, <2>2
  <1>4. QED
    BY <1>2, <1>3 DEF Write

LEMMA WriteKeepsFrames ==
  ASSUME TypeOK, Framed, NEW m \in Message, Write(m), line' = line
  PROVE  Framed'
  <1>1. PICK p \in Piece : /\ pipe' = Append(pipe, p) /\ p.message = m
                           /\ \/ p.part = "whole" /\ writing' = NoMessage
                              \/ p.part = "head" /\ writing' = m
    BY WritesPiece
  <1>2. writing = NoMessage
    BY WritesPiece
  <1>3. ASSUME NEW i \in 1..Len(pipe'), pipe'[i].part = "head"
        PROVE  IF i = Len(pipe') THEN writing' = pipe'[i].message
               ELSE pipe'[i + 1] = [part |-> "tail", message |-> pipe'[i].message]
    <2>1. CASE i = Len(pipe) + 1
      BY <1>1, <1>3, <2>1, Appended
    <2>2. CASE i # Len(pipe) + 1
      <3>1. i \in 1..Len(pipe) /\ pipe[i].part = "head"
        BY <1>1, <1>3, <2>2, Appended
      <3>2. pipe[i].message \in Message
        <4>1. pipe[i] \in Piece
          BY <3>1, ElementOfSeq DEF TypeOK
        <4>2. QED
          BY <4>1 DEF Piece
      <3>3. i # Len(pipe)
        BY <1>2, <3>1, <3>2, MessageParts DEF Framed
      <3>4. pipe[i + 1] = [part |-> "tail", message |-> pipe[i].message] /\ i + 1 \in 1..Len(pipe)
        BY <3>1, <3>3, <1>1, Appended DEF Framed
      <3>5. QED
        BY <1>1, <2>2, <3>1, <3>4, Appended
    <2>3. QED
      BY <2>1, <2>2
  <1>4. ASSUME line # NoMessage
        PROVE  pipe # <<>> /\ Head(pipe') = [part |-> "tail", message |-> line]
    BY <1>1, <1>2, <1>4, Appended DEF Framed
  <1>5. QED
    BY <1>1, <1>3, <1>4, Appended DEF Framed

\* Lines that were on their way still are, the new one is, and nothing else.
LEMMA WriteTransit ==
  ASSUME TypeOK, NEW m \in Message, Write(m), line' = line
  PROVE  /\ pipe' \in Seq(Piece) /\ writing' \in Line
         /\ \A i \in DOMAIN pipe' : pipe'[i].message = m
                \/ \E j \in DOMAIN pipe : pipe'[i].message = pipe[j].message
         /\ \A j \in DOMAIN pipe : j \in DOMAIN pipe' /\ pipe'[j] = pipe[j]
         /\ \E i \in DOMAIN pipe' : pipe'[i].message = m
         /\ writing = NoMessage /\ writing' \in {NoMessage, m}
  <1>1. PICK p \in Piece : /\ pipe' = Append(pipe, p) /\ p.message = m
                           /\ \/ p.part = "whole" /\ writing' = NoMessage
                              \/ p.part = "head" /\ writing' = m
    BY WritesPiece
  <1>2. /\ pipe' \in Seq(Piece) /\ Len(pipe) \in Nat
        /\ DOMAIN pipe = 1..Len(pipe) /\ DOMAIN pipe' = 1..Len(pipe) + 1
        /\ \A i \in 1..Len(pipe) : pipe'[i] = pipe[i]
        /\ pipe'[Len(pipe) + 1] = p
    BY <1>1, Appended
  <1>3. writing = NoMessage /\ writing' \in {NoMessage, m}
    BY <1>1, WritesPiece
  <1>4. Len(pipe) + 1 \in DOMAIN pipe' /\ pipe'[Len(pipe) + 1].message = m
    BY <1>1, <1>2
  <1>5. ASSUME NEW i \in DOMAIN pipe'
        PROVE  pipe'[i].message = m \/ \E j \in DOMAIN pipe : pipe'[i].message = pipe[j].message
    BY <1>2, <1>4
  <1>6. \A j \in DOMAIN pipe : j \in DOMAIN pipe' /\ pipe'[j] = pipe[j]
    BY <1>2
  <1>7. QED
    BY <1>2, <1>3, <1>4, <1>5, <1>6 DEF Line


LEMMA PipeMessages ==
  ASSUME TypeOK, NEW i \in DOMAIN pipe
  PROVE  pipe[i] \in Piece /\ pipe[i].message \in Message
  <1>1. i \in 1..Len(pipe)
    BY LenProperties DEF TypeOK
  <1>2. pipe[i] \in Piece
    BY <1>1, ElementOfSeq DEF TypeOK
  <1>3. QED
    BY <1>2 DEF Piece

-----------------------------------------------------------------------------
(* The app-server. *)

\* No request is lost from the pipe by what is written after it.
LEMMA WriteKeepsTransit ==
  ASSUME TypeOK, NEW m \in Message, Write(m), line' = line, NEW n \in Ask, InTransit(n)
  PROVE  InTransit(n)'
  <1>1. CASE \E i \in DOMAIN pipe : pipe[i].message.kind = "request" /\ pipe[i].message.id = n
    BY <1>1, WriteTransit DEF InTransit
  <1>2. CASE line.kind = "request" /\ line.id = n
    BY <1>2 DEF InTransit
  <1>3. CASE writing.kind = "request" /\ writing.id = n
    BY <1>3, WriteTransit, Lines
  <1>4. QED
    BY <1>1, <1>2, <1>3 DEF InTransit

LEMMA WriteKeepsTruth ==
  ASSUME TypeOK, TransitTrue, NEW m \in Message, Write(m), line' = line, ended' = ended, IsTrue(m, ended)
  PROVE  TransitTrue'
  <1>1. \A i \in DOMAIN pipe' : IsTrue(pipe'[i].message, ended')
    <2>1. TAKE i \in DOMAIN pipe'
    <2>2. CASE pipe'[i].message = m
      BY <2>2
    <2>3. CASE \E j \in DOMAIN pipe : pipe'[i].message = pipe[j].message
      BY <2>3 DEF TransitTrue
    <2>4. QED
      BY <2>2, <2>3, WriteTransit
  <1>2. IsTrue(line', ended') /\ IsTrue(writing', ended')
    <2>1. IsTrue(NoMessage, ended)
      BY Lines DEF IsTrue
    <2>2. QED
      BY <2>1, WriteTransit DEF TransitTrue
  <1>3. QED
    BY <1>1, <1>2 DEF TransitTrue, IsTrue

\* How a turn ended is decided once, so what was said of earlier turns stays true.
LEMMA EndedOnce ==
  ASSUME TypeOK, TransitTrue, turns > 0, ended[turns] = "none", NEW status \in Status,
         ended' = [ended EXCEPT ![turns] = status], NEW m \in Line, IsTrue(m, ended)
  PROVE  IsTrue(m, ended')
  <1>1. CASE m.kind = "completed"
    <2>1. m.id \in Turn /\ m.what \in Status
      BY <1>1, MessageParts, Lines DEF Line
    <2>2. m.id # turns
      BY <1>1, <2>1 DEF IsTrue, Status
    <2>3. QED
      BY <2>1, <2>2 DEF IsTrue, TypeOK
  <1>2. CASE m.kind # "completed"
    BY <1>2 DEF IsTrue
  <1>3. QED
    BY <1>1, <1>2

LEMMA EndKeepsTruth ==
  ASSUME TypeOK, TransitTrue, turns > 0, ended[turns] = "none", NEW status \in Status,
         Write(Completed(turns, status)), line' = line,
         ended' = [ended EXCEPT ![turns] = status]
  PROVE  TransitTrue'
  <1> DEFINE m == Completed(turns, status)
  <1>1. turns \in Turn
    <2>1. turns \in 0..MaxTurns /\ MaxTurns \in Nat
      BY SessionAssumption DEF TypeOK
    <2>2. QED
      BY <2>1 DEF Turn
  <1>2. m \in Message
    BY <1>1 DEF Message
  <1>3. ended' \in [Turn -> Status \cup {"none"}] /\ ended'[turns] = status
    BY <1>1 DEF TypeOK
  <1>4. m.kind = "completed" => m.id = turns /\ m.what = status
    BY DEF Completed
  <1>5. ended'[m.id] = m.what
    BY <1>3 DEF Completed
  <1> HIDE DEF m
  <1>6. IsTrue(NoMessage, ended')
    BY Lines DEF IsTrue
  <1>7. \A i \in DOMAIN pipe' : m.kind = "completed" => IsTrue(pipe'[i].message, ended')
    <2>1. TAKE i \in DOMAIN pipe'
    <2>2. CASE pipe'[i].message = m
      BY <1>5, <2>2 DEF IsTrue
    <2>3. ASSUME NEW j \in DOMAIN pipe, pipe'[i].message = pipe[j].message
          PROVE  IsTrue(pipe'[i].message, ended')
      <3>1. IsTrue(pipe[j].message, ended) /\ pipe[j].message \in Line
        BY PipeMessages DEF TransitTrue, Line
      <3>2. ASSUME NEW x \in Line, IsTrue(x, ended) PROVE IsTrue(x, ended')
        BY <3>2, EndedOnce
      <3>3. QED
        BY <2>3, <3>1, <3>2 DEF IsTrue
    <2>4. QED
      BY <1>2, <2>2, <2>3, WriteTransit DEF m
  <1>8. IsTrue(line', ended')
    <2>1. ASSUME NEW x \in Line, IsTrue(x, ended) PROVE IsTrue(x, ended')
      BY <2>1, EndedOnce
    <2>2. line \in Line /\ IsTrue(line, ended)
      BY DEF TypeOK, Line, TransitTrue
    <2>3. QED
      BY <2>1, <2>2 DEF IsTrue
  <1>9. IsTrue(writing', ended')
    BY <1>2, <1>5, <1>6, WriteTransit DEF IsTrue, m
  <1>10. m.kind = "completed"
    BY DEF m, Completed
  <1>11. QED
    BY <1>7, <1>8, <1>9, <1>10 DEF TransitTrue, IsTrue


\* What a line the server writes leaves as it was, but for the requests it makes.
LEMMA WriteKeeps ==
  ASSUME IInv, NEW m \in Message, Write(m), UNCHANGED <<client, answers, up, helper, asks>>
  PROVE  /\ Framed' /\ RequestsKept' /\ CallsInSession' /\ ServerGone'
         /\ pipe' \in Seq(Piece) /\ writing' \in Line
  <1> USE DEF IInv
  <1>1. Framed' /\ pipe' \in Seq(Piece) /\ writing' \in Line
    BY WriteKeepsFrames, WriteTransit DEF client
  <1>2. RequestsKept'
    <2> SUFFICES ASSUME Alive', NEW n \in 1..asks'
                 PROVE  answers'[n] # "none" \/ InTransit(n)' \/ InHand(n)'
      BY DEF RequestsKept
    <2>1. Alive /\ n \in 1..asks
      BY DEF Alive, client
    <2>2. n \in Ask
      <3>1. asks \in 0..MaxAsks /\ MaxAsks \in Nat
        BY SessionAssumption DEF TypeOK
      <3>2. QED
        BY <2>1, <3>1 DEF Ask
    <2>3. CASE InTransit(n)
      BY <2>2, <2>3, WriteKeepsTransit DEF client
    <2>4. QED
      BY <2>1, <2>3 DEF RequestsKept, InHand, client
  <1>3. CallsInSession' /\ ServerGone'
    BY DEF CallsInSession, InWait, ServerGone, client
  <1>4. QED
    BY <1>1, <1>2, <1>3

\* The client's own account changes with the turns and how they ended only.
LEMMA CountsUntouched ==
  ASSUME TurnsCounted, UNCHANGED <<client, ended>>
  PROVE  TurnsCounted'
  BY DEF TurnsCounted, OnlyServedTurnsCount, StreamsOwnTurn, client

LEMMA EndKeepsCounts ==
  ASSUME TypeOK, TurnsCounted, ended[turns] = "none", NEW status \in Status, UNCHANGED client,
         ended' = [ended EXCEPT ![turns] = status]
  PROVE  TurnsCounted'
  <1>1. \A n \in DOMAIN done : ended'[n] = ended[n]
    <2>1. \A n \in DOMAIN done : ended[n] = "completed"
      BY DEF TurnsCounted, OnlyServedTurnsCount
    <2>2. ended \in [Turn -> Status \cup {"none"}]
      BY DEF TypeOK
    <2>3. QED
      BY <2>1, <2>2
  <1>2. QED
    BY <1>1 DEF TurnsCounted, OnlyServedTurnsCount, StreamsOwnTurn, client

\* Everything the types say of the client, which a step of the server does not touch.
LEMMA ServerTypes ==
  ASSUME TypeOK, UNCHANGED <<client, answers>>,
         pipe' \in Seq(Piece), writing' \in Line, up' \in BOOLEAN, helper' \in BOOLEAN,
         input' \in Seq(ClientLine), listening' \in BOOLEAN,
         due' \subseteq RequestId, ended' \in [Turn -> Status \cup {"none"}],
         asks' \in 0..MaxAsks, oddities' \in 0..MaxOddities
  PROVE  TypeOK'
  BY DEF TypeOK, client, Line

LEMMA ServerStepKeeps ==
  ASSUME IInv, stage # "ended", ServerStep
  PROVE  IInv'
  <1> USE DEF IInv
  <1>1. /\ asks \in 0..MaxAsks /\ MaxAsks \in Nat
        /\ turns \in 0..MaxTurns /\ MaxTurns \in Nat
        /\ oddities \in 0..MaxOddities /\ MaxOddities \in Nat
        /\ due \subseteq RequestId /\ up \in BOOLEAN /\ helper \in BOOLEAN
        /\ input \in Seq(ClientLine) /\ listening \in BOOLEAN
        /\ ended \in [Turn -> Status \cup {"none"}]
    BY SessionAssumption DEF TypeOK
  <1>2. CASE ServerFinishesLine
    <2> DEFINE p == [part |-> "tail", message |-> writing]
    <2>1. p \in Piece /\ p.message = writing /\ p.part = "tail" /\ writing \in Message
      BY <1>2 DEF ServerFinishesLine, Piece, TypeOK
    <2>2. pipe' = Append(pipe, p) /\ writing' = NoMessage
      BY <1>2 DEF ServerFinishesLine
    <2>3. UNCHANGED <<client, answers, up, helper, input, listening, due, ended, asks, oddities>>
      BY <1>2 DEF ServerFinishesLine
    <2> HIDE DEF p
    <2>4. Framed'
      <3>1. ASSUME NEW i \in 1..Len(pipe'), pipe'[i].part = "head"
            PROVE  IF i = Len(pipe') THEN writing' = pipe'[i].message
                   ELSE pipe'[i + 1] = [part |-> "tail", message |-> pipe'[i].message]
        <4>1. i \in 1..Len(pipe) /\ pipe[i].part = "head" /\ pipe'[i] = pipe[i]
          BY <2>1, <2>2, <3>1, Appended
        <4>2. CASE i = Len(pipe)
          <5>1. writing = pipe[i].message
            BY <4>1, <4>2 DEF Framed
          <5>2. QED
            BY <2>1, <2>2, <4>1, <4>2, <5>1, Appended DEF p
        <4>3. CASE i # Len(pipe)
          <5>1. pipe[i + 1] = [part |-> "tail", message |-> pipe[i].message] /\ i + 1 \in 1..Len(pipe)
            BY <2>1, <2>2, <4>1, <4>3, Appended DEF Framed
          <5>2. QED
            BY <2>1, <2>2, <4>1, <4>3, <5>1, Appended
        <4>4. QED
          BY <4>2, <4>3
      <3>2. ASSUME line # NoMessage
            PROVE  pipe' # <<>> /\ Head(pipe') = [part |-> "tail", message |-> line]
        BY <2>1, <2>2, <3>2, Appended DEF Framed, p
      <3>3. QED
        BY <2>3, <3>1, <3>2 DEF Framed, client
    <2>5. pipe' \in Seq(Piece) /\ Len(pipe) + 1 \in DOMAIN pipe' /\ DOMAIN pipe = 1..Len(pipe)
          /\ pipe'[Len(pipe) + 1].message = writing /\ DOMAIN pipe' = 1..Len(pipe) + 1
          /\ \A i \in DOMAIN pipe : i \in DOMAIN pipe' /\ pipe'[i] = pipe[i]
      BY <2>1, <2>2, Appended
    <2>6. TransitTrue'
      <3>1. IsTrue(writing', ended')
        BY <2>2, Lines DEF IsTrue
      <3>2. \A i \in DOMAIN pipe' : IsTrue(pipe'[i].message, ended')
        BY <2>3, <2>5 DEF TransitTrue
      <3>3. QED
        BY <2>3, <3>1, <3>2 DEF TransitTrue, client
    <2>7. RequestsKept'
      <3>1. \A n : InTransit(n) => InTransit(n)'
        BY <2>3, <2>5 DEF InTransit, client
      <3>2. QED
        BY <2>3, <3>1 DEF RequestsKept, InHand, Alive, client
    <2>8. CallsInSession' /\ ServerGone' /\ TurnsCounted'
      BY <2>3, CountsUntouched DEF CallsInSession, InWait, ServerGone, client
    <2>9. TypeOK'
      BY <1>1, <2>2, <2>3, <2>5, ServerTypes DEF Line
    <2>10. QED
      BY <2>4, <2>6, <2>7, <2>8, <2>9
  <1>3. CASE ServerAnswers
    <2>1. PICK id \in due, ok \in BOOLEAN : Write(Response(id, ok)) /\ due' = due \ {id}
      BY <1>3 DEF ServerAnswers
    <2>2. UNCHANGED <<client, answers, up, helper, input, listening, ended, asks, oddities>>
      BY <1>3 DEF ServerAnswers
    <2>3. Response(id, ok) \in Message /\ IsTrue(Response(id, ok), ended)
      BY <1>1 DEF Message, Response, IsTrue
    <2>4. /\ Framed' /\ RequestsKept' /\ CallsInSession' /\ ServerGone'
          /\ pipe' \in Seq(Piece) /\ writing' \in Line
      BY <2>1, <2>2, <2>3, WriteKeeps
    <2>5. TransitTrue'
      BY <2>1, <2>2, <2>3, WriteKeepsTruth DEF client
    <2>6. TypeOK'
      BY <1>1, <2>1, <2>2, <2>4, ServerTypes
    <2>7. QED
      BY <2>2, <2>4, <2>5, <2>6, CountsUntouched
  <1>4. CASE ServerEndsTurn
    <2>1. PICK status \in Status : /\ Write(Completed(turns, status))
                                   /\ ended' = [ended EXCEPT ![turns] = status]
      BY <1>4 DEF ServerEndsTurn
    <2>2. /\ UNCHANGED <<client, answers, up, helper, input, listening, due, asks, oddities>>
          /\ turns > 0 /\ ended[turns] = "none"
      BY <1>4 DEF ServerEndsTurn
    <2>3. turns \in Turn
      BY <1>1, <2>2 DEF Turn
    <2>4. Completed(turns, status) \in Message
      BY <2>3 DEF Message
    <2>5. /\ Framed' /\ RequestsKept' /\ CallsInSession' /\ ServerGone'
          /\ pipe' \in Seq(Piece) /\ writing' \in Line
      BY <2>1, <2>2, <2>4, WriteKeeps
    <2>6. TransitTrue' /\ TurnsCounted'
      BY <2>1, <2>2, EndKeepsTruth, EndKeepsCounts DEF client
    <2>7. ended' \in [Turn -> Status \cup {"none"}]
      BY <1>1, <2>1
    <2>8. TypeOK'
      BY <1>1, <2>2, <2>5, <2>7, ServerTypes
    <2>9. QED
      BY <2>5, <2>6, <2>8
  <1>5. CASE ServerAsks
    <2>1. PICK what \in Asked : Write(Request(asks + 1, what))
      BY <1>5 DEF ServerAsks
    <2>2. /\ UNCHANGED <<client, answers, up, helper, input, listening, due, ended, oddities>>
          /\ asks < MaxAsks /\ asks' = asks + 1
      BY <1>5 DEF ServerAsks
    <2> DEFINE m == Request(asks + 1, what)
    <2>3. asks + 1 \in Ask /\ m.kind = "request" /\ m.id = asks + 1
      BY <1>1, <2>2 DEF Ask, Request
    <2>4. m \in Message
      BY <2>3 DEF Message
    <2>5. IsTrue(m, ended)
      BY <2>3 DEF IsTrue
    <2>6. Write(m)
      BY <2>1
    <2> HIDE DEF m
    <2>7. /\ Framed' /\ pipe' \in Seq(Piece) /\ writing' \in Line
      BY <2>2, <2>4, <2>6, WriteKeepsFrames, WriteTransit DEF client
    <2>8. RequestsKept'
      <3> SUFFICES ASSUME Alive', NEW n \in 1..asks'
                   PROVE  answers'[n] # "none" \/ InTransit(n)' \/ InHand(n)'
        BY DEF RequestsKept
      <3>1. Alive
        BY <2>2 DEF Alive, client
      <3>2. CASE n = asks + 1
        BY <2>2, <2>3, <2>4, <2>6, <3>2, WriteTransit DEF InTransit, client
      <3>3. CASE n # asks + 1
        <4>1. n \in 1..asks /\ n \in Ask
          BY <1>1, <2>2, <3>3 DEF Ask
        <4>2. InTransit(n) => InTransit(n)'
          BY <2>2, <2>4, <2>6, <4>1, WriteKeepsTransit DEF client
        <4>3. QED
          BY <2>2, <3>1, <4>1, <4>2 DEF RequestsKept, InHand, client
      <3>4. QED
        BY <3>2, <3>3
    <2>9. TransitTrue'
      BY <2>2, <2>4, <2>5, <2>6, WriteKeepsTruth DEF client
    <2>10. CallsInSession' /\ ServerGone' /\ TurnsCounted'
      BY <2>2, CountsUntouched DEF CallsInSession, InWait, ServerGone, client
    <2>11. asks' \in 0..MaxAsks
      BY <1>1, <2>2
    <2>12. TypeOK'
      BY <1>1, <2>2, <2>7, <2>11, ServerTypes
    <2>13. QED
      BY <2>7, <2>8, <2>9, <2>10, <2>12
  <1>6. CASE ServerNotifies
    <2>1. Write(Notification) /\ UNCHANGED <<client, answers, up, helper, input, listening, due, ended, asks, oddities>>
      BY <1>6 DEF ServerNotifies
    <2>2. Notification \in Message /\ IsTrue(Notification, ended)
      BY Lines DEF IsTrue
    <2>3. /\ Framed' /\ RequestsKept' /\ CallsInSession' /\ ServerGone'
          /\ pipe' \in Seq(Piece) /\ writing' \in Line
      BY <2>1, <2>2, WriteKeeps
    <2>4. TransitTrue' /\ TurnsCounted'
      BY <2>1, <2>2, WriteKeepsTruth, CountsUntouched DEF client
    <2>5. TypeOK'
      BY <1>1, <2>1, <2>3, ServerTypes
    <2>6. QED
      BY <2>3, <2>4, <2>5
  <1>7. CASE ServerErrs
    <2>1. /\ UNCHANGED <<client, answers, up, helper, input, listening, due, ended, asks>>
          /\ oddities < MaxOddities /\ oddities' = oddities + 1
      BY <1>7 DEF ServerErrs
    <2>2. \E m \in Message : Write(m) /\ IsTrue(m, ended)
      <3>1. CASE Write(Malformed)
        BY <3>1, Lines DEF IsTrue
      <3>2. ASSUME NEW id \in 1..TurnRequest(turns) \ (due \cup Unheard), Write(Response(id, TRUE))
            PROVE  \E m \in Message : Write(m) /\ IsTrue(m, ended)
        <4>1. id \in RequestId
          BY <1>1 DEF RequestId, TurnRequest
        <4>2. ASSUME NEW ok \in BOOLEAN
              PROVE  Response(id, ok) \in Message
          BY <4>1 DEF Message
        <4>3. Response(id, TRUE) \in Message
          BY <4>2
        <4>4. IsTrue(Response(id, TRUE), ended)
          BY DEF Response, IsTrue
        <4>5. QED
          BY <3>2, <4>3, <4>4
      <3>3. ASSUME NEW t \in Turn, ended[t] # "none", Write(Completed(t, ended[t]))
            PROVE  \E m \in Message : Write(m) /\ IsTrue(m, ended)
        <4>1. ended[t] \in Status
          BY <1>1, <3>3
        <4>2. Completed(t, ended[t]) \in Message /\ IsTrue(Completed(t, ended[t]), ended)
          BY <4>1 DEF Message, Completed, IsTrue
        <4>3. QED
          BY <3>3, <4>2
      <3>4. QED
        BY <1>7, <3>1, <3>2, <3>3 DEF ServerErrs
    <2>3. PICK m \in Message : Write(m) /\ IsTrue(m, ended)
      BY <2>2
    <2>4. /\ Framed' /\ RequestsKept' /\ CallsInSession' /\ ServerGone'
          /\ pipe' \in Seq(Piece) /\ writing' \in Line
      BY <2>1, <2>3, WriteKeeps
    <2>5. TransitTrue' /\ TurnsCounted'
      BY <2>1, <2>3, WriteKeepsTruth, CountsUntouched DEF client
    <2>6. oddities' \in 0..MaxOddities
      BY <1>1, <2>1
    <2>7. TypeOK'
      BY <1>1, <2>1, <2>4, <2>6, ServerTypes
    <2>8. QED
      BY <2>4, <2>5, <2>7
  <1>8. CASE ServerForks \/ ServerExits \/ ServerReads \/ InputCloses
    <2>1. UNCHANGED <<client, answers, pipe, writing, ended, asks, oddities>>
      BY <1>8 DEF ServerForks, ServerExits, ServerReads, InputCloses
    <2>2. up' \in {up, FALSE} /\ helper' \in {helper, TRUE} /\ listening' \in {listening, FALSE}
      BY <1>8 DEF ServerForks, ServerExits, ServerReads, InputCloses
    <2>3. input' \in Seq(ClientLine)
      <3>1. CASE ServerReads
        BY <1>1, <3>1, HeadTailProperties DEF ServerReads
      <3>2. CASE input' = <<>> \/ input' = input
        <4>1. <<>> \in Seq(ClientLine)
          BY EmptySeq
        <4>2. QED
          BY <1>1, <3>2, <4>1
      <3>3. QED
        BY <1>8, <3>1, <3>2 DEF ServerForks, ServerExits, InputCloses
    <2>4. due' \subseteq RequestId
      BY <1>1, <1>8 DEF ServerForks, ServerExits, ServerReads, InputCloses
    <2>5. TypeOK'
      <3>1. up' \in BOOLEAN /\ helper' \in BOOLEAN /\ listening' \in BOOLEAN
        BY <1>1, <2>2
      <3>2. pipe' \in Seq(Piece) /\ writing' \in Line
        BY <2>1 DEF TypeOK, Line
      <3>3. QED
        BY <1>1, <2>1, <2>3, <2>4, <3>1, <3>2, ServerTypes
    <2>6. Framed' /\ TransitTrue' /\ CallsInSession'
      BY <2>1 DEF Framed, TransitTrue, CallsInSession, InWait, client
    <2>7. RequestsKept'
      BY <2>1 DEF RequestsKept, Alive, InTransit, InHand, client
    <2>8. ServerGone'
      BY <2>1, <2>2 DEF ServerGone, client
    <2>9. QED
      BY <2>1, <2>5, <2>6, <2>7, <2>8, CountsUntouched
  <1>9. QED
    BY <1>2, <1>3, <1>4, <1>5, <1>6, <1>7, <1>8 DEF ServerStep


-----------------------------------------------------------------------------
(* The client. *)

Stages == Waiting \cup {"streaming", "idle", "closing", "ended"}

\* What a line may do to the session: nothing, end it, or bring it to its next stage.
LEMMA TakeMoves ==
  ASSUME TypeOK, TurnsCounted, Reading, NEW m \in Message, Take(m)
  PROVE  /\ turns' = turns
         /\ \/ Stays /\ UNCHANGED late
            \/ Fail /\ UNCHANGED late
            \/ /\ stage = "initialize" /\ stage' = "thread" /\ late' = FALSE
               /\ UNCHANGED <<turn, done, outcome>>
            \/ /\ stage = "thread" /\ stage' = "idle" /\ late' = FALSE
               /\ UNCHANGED <<turn, done, outcome>>
            \/ /\ stage = "turn_start" /\ stage' = "streaming" /\ late' = FALSE
               /\ turn' = turns /\ UNCHANGED <<done, outcome>>
            \/ /\ stage = "streaming" /\ stage' = "idle" /\ done' = Append(done, turn)
               /\ m.kind = "completed" /\ m.id = turn /\ m.what = "completed"
               /\ UNCHANGED <<late, turn, outcome>>
  <1> USE DEF Fail, Ends, Stays, Enter
  <1>1. CASE TakeResponse(m)
    <2>1. CASE stage = "streaming"
      BY <1>1, <2>1 DEF TakeResponse
    <2>2. CASE stage # "streaming" /\ ~MatchesRequest(m.id)
      BY <1>1, <2>2 DEF TakeResponse
    <2>3. CASE stage # "streaming" /\ MatchesRequest(m.id)
      <3>1. CASE m.what = "error" /\ Fail /\ UNCHANGED <<late, sending>>
        BY <3>1
      <3>2. CASE /\ m.what = "result" /\ stage = "initialize"
                 /\ Send(ThreadId) /\ Enter("thread") /\ UNCHANGED <<turns, turn, done, outcome>>
        BY <3>2
      <3>3. CASE /\ m.what = "result" /\ stage = "thread"
                 /\ Enter("idle") /\ UNCHANGED <<turns, turn, done, outcome, sending>>
        BY <3>3
      <3>4. CASE /\ m.what = "result" /\ stage = "turn_start"
                 /\ Enter("streaming") /\ turn' = m.id - 2
                 /\ UNCHANGED <<turns, done, outcome, sending>>
        <4>1. m.id = turns + 2
          BY <2>3, <3>4 DEF MatchesRequest, TurnRequest
        <4>2. turns \in 0..MaxTurns
          BY DEF TypeOK
        <4>3. turn' = turns
          BY <3>4, <4>1, <4>2
        <4>4. QED
          BY <3>4, <4>3
      <3>5. QED
        BY <1>1, <2>3, <3>1, <3>2, <3>3, <3>4 DEF TakeResponse
    <2>4. QED
      BY <2>1, <2>2, <2>3
  <1>2. CASE TakeCompletion(m)
    BY <1>2 DEF TakeCompletion, IsActiveTurn
  <1>3. CASE TakeRequest(m)
    BY <1>3 DEF TakeRequest, AnswerUnsupported
  <1>4. CASE m.kind \in {"notification", "malformed"}
    BY <1>4 DEF Take, TakeResponse, TakeCompletion, TakeRequest
  <1>5. QED
    BY <1>1, <1>2, <1>3, <1>4 DEF Take

\* No answer is written while a line is taken: the answer to a request is to be written
\* next, or the request is executed, or it ends the session.
LEMMA TakeAnswersRequests ==
  ASSUME TypeOK, Reading, NEW m \in Message, Take(m)
  PROVE  /\ answers' = answers /\ calling' \in 0..MaxAsks
         /\ sending' \in ClientLine \cup {NoLine}
         /\ m.kind = "request" => stage' = "closing" \/ InHand(m.id)'
         /\ calling' # 0 => UNCHANGED stage /\ sending' = NoLine
         /\ sending' # NoLine => InWait'
  <1>1. calling = 0 /\ sending = NoLine /\ InWait
    BY DEF Reading
  <1>2. MaxAsks \in Nat
    BY SessionAssumption
  <1>3. CASE TakeRequest(m)
    <2>1. m.id \in Ask /\ answers' = answers /\ m.kind = "request"
      BY <1>3, MessageParts DEF TakeRequest
    <2>2. CASE m.what = "query" /\ calling' = m.id /\ Stays /\ UNCHANGED sending
      <3>1. m.id \in 0..MaxAsks
        BY <1>2, <2>1 DEF Ask
      <3>2. InHand(m.id)'
        BY <2>2 DEF InHand
      <3>3. QED
        BY <1>1, <2>1, <2>2, <3>1, <3>2 DEF Stays
    <2>3. CASE Fail /\ UNCHANGED <<calling, sending>>
      BY <1>1, <1>2, <2>1, <2>3 DEF Fail, Ends
    <2>4. ASSUME NEW what \in Replies, Answer(m.id, what), Stays, UNCHANGED calling
          PROVE  /\ calling' = 0 /\ InHand(m.id)' /\ InWait'
                 /\ sending' \in ClientLine \cup {NoLine}
      <3>1. sending' = Reply(m.id, what)
        BY <2>4 DEF Answer
      <3>2. sending' \in ClientLine /\ sending'.kind = "reply" /\ sending'.id = m.id
        BY <2>1, <3>1, ClientLines
      <3>3. QED
        BY <1>1, <2>4, <3>2 DEF InHand, InWait, Stays
    <2>5. CASE \E what \in Replies : Answer(m.id, what) /\ Stays /\ UNCHANGED calling
      BY <1>2, <2>1, <2>4, <2>5
    <2>6. QED
      BY <1>3, <2>2, <2>3, <2>5 DEF TakeRequest, AnswerUnsupported, Replies
  <1>4. CASE TakeResponse(m)
    <2>1. answers' = answers /\ calling' = 0 /\ m.kind # "request"
      BY <1>1, <1>4 DEF TakeResponse
    <2>2. CASE UNCHANGED sending
      BY <1>1, <1>2, <2>1, <2>2
    <2>3. CASE Send(ThreadId) /\ Enter("thread")
      <3>1. ThreadId \in RequestId
        BY SessionAssumption DEF ThreadId, RequestId, TurnRequest
      <3>2. sending' \in ClientLine
        BY <2>3, <3>1, ClientLines DEF Send
      <3>3. InWait'
        BY <2>3 DEF InWait, Enter, Waiting
      <3>4. QED
        BY <1>2, <2>1, <3>2, <3>3
    <2>4. QED
      BY <1>4, <2>2, <2>3 DEF TakeResponse
  <1>5. CASE UNCHANGED <<calling, sending, answers>> /\ m.kind # "request"
    BY <1>1, <1>2, <1>5
  <1>6. QED
    BY <1>3, <1>4, <1>5 DEF Take, TakeCompletion

LEMMA TakeKeepsTypes ==
  ASSUME TypeOK, TurnsCounted, Reading, NEW m \in Message, Take(m),
         pipe' \in Seq(Piece), line' \in Line,
         UNCHANGED <<writing, up, helper, input, listening, due, ended, asks, oddities>>
  PROVE  TypeOK'
  <1>1. /\ answers' = answers /\ calling' \in 0..MaxAsks
        /\ sending' \in ClientLine \cup {NoLine}
    BY TakeAnswersRequests
  <1>2. /\ turns \in 0..MaxTurns /\ turn \in 0..MaxTurns /\ done \in Seq(Turn)
        /\ MaxTurns \in Nat
        /\ stage \in Waiting \cup {"streaming"} /\ outcome = "none" /\ late \in BOOLEAN
    BY SessionAssumption DEF TypeOK, Reading, InWait, Waiting
  <1>3. /\ stage' \in Stages /\ turns' \in 0..MaxTurns /\ turn' \in 0..MaxTurns
        /\ late' \in BOOLEAN
        /\ outcome' \in {"none", "failed"} /\ (stage' \in {"closing", "ended"} <=> outcome' # "none")
    BY <1>2, TakeMoves DEF Stages, Waiting, Stays, Fail, Ends
  <1>4. done' \in Seq(Turn)
    <2>1. CASE UNCHANGED done
      BY <1>2, <2>1
    <2>2. CASE done' = Append(done, turn) /\ m.kind = "completed" /\ m.id = turn
      <3>1. turn \in Turn
        BY <2>2, MessageParts
      <3>2. QED
        BY <1>2, <2>2, <3>1, AppendProperties
    <2>3. QED
      BY <2>1, <2>2, TakeMoves DEF Stays, Fail
  <1>5. QED
    BY <1>1, <1>3, <1>4 DEF TypeOK, Line, Stages

\* A turn is counted when the server has completed it, after those before it.
LEMMA TakeKeepsCounts ==
  ASSUME TypeOK, TurnsCounted, Reading, NEW m \in Message, Take(m), IsTrue(m, ended), ended' = ended
  PROVE  TurnsCounted'
  <1>1. done \in Seq(Turn) /\ DOMAIN done = 1..Len(done) /\ Len(done) \in Nat
    BY LenProperties DEF TypeOK
  <1>2. CASE done' = done
    <2>1. OnlyServedTurnsCount'
      BY <1>2 DEF TurnsCounted, OnlyServedTurnsCount
    <2>2. CASE Stays \/ Fail
      BY <2>1, <2>2, TakeMoves DEF TurnsCounted, StreamsOwnTurn, Stays, Fail, Ends
    <2>3. CASE stage = "initialize" /\ stage' = "thread"
      BY <1>2, <2>1, <2>3, TakeMoves DEF TurnsCounted, StreamsOwnTurn
    <2>4. CASE stage = "thread" /\ stage' = "idle"
      BY <1>2, <2>1, <2>4, TakeMoves DEF TurnsCounted, StreamsOwnTurn
    <2>5. CASE stage = "turn_start" /\ stage' = "streaming" /\ turn' = turns
      BY <1>2, <2>1, <2>5, TakeMoves DEF TurnsCounted, StreamsOwnTurn
    <2>6. CASE done' = Append(done, turn) /\ m.kind = "completed" /\ m.id = turn
      <3>1. turn \in Turn
        BY <2>6, MessageParts
      <3>2. Len(done') = Len(done) + 1
        BY <1>1, <2>6, <3>1, AppendProperties
      <3>3. QED
        BY <1>1, <1>2, <3>2
    <2>7. QED
      BY <2>2, <2>3, <2>4, <2>5, <2>6, TakeMoves
  <1>3. CASE /\ stage = "streaming" /\ stage' = "idle" /\ done' = Append(done, turn)
             /\ m.kind = "completed" /\ m.id = turn /\ m.what = "completed"
    <2>1. turn = turns /\ turns' = turns /\ turns = Len(done) + 1
      BY <1>3, TakeMoves DEF TurnsCounted, StreamsOwnTurn
    <2>2. turn \in Turn /\ ended[turn] = "completed"
      BY <1>3, MessageParts DEF IsTrue
    <2>3. /\ Len(done') = Len(done) + 1 /\ DOMAIN done' = 1..Len(done) + 1
          /\ \A n \in 1..Len(done) : done'[n] = done[n]
          /\ done'[Len(done) + 1] = turn
      <3>1. /\ done' \in Seq(Turn) /\ Len(done') = Len(done) + 1
            /\ \A n \in 1..Len(done) : done'[n] = done[n]
            /\ done'[Len(done) + 1] = turn
        BY <1>1, <1>3, <2>2, AppendProperties
      <3>2. QED
        BY <1>1, <3>1, LenProperties
    <2>4. \A n \in DOMAIN done' : done'[n] = n /\ ended'[n] = "completed"
      <3>1. TAKE n \in DOMAIN done'
      <3>2. CASE n = Len(done) + 1
        BY <2>1, <2>2, <2>3, <3>2
      <3>3. CASE n \in 1..Len(done)
        BY <1>1, <2>3, <3>3 DEF TurnsCounted, OnlyServedTurnsCount
      <3>4. QED
        BY <1>1, <2>3, <3>2, <3>3
    <2>5. QED
      BY <1>3, <2>1, <2>3, <2>4 DEF TurnsCounted, OnlyServedTurnsCount, StreamsOwnTurn
  <1>4. QED
    BY <1>2, <1>3, TakeMoves DEF Stays, Fail


\* Reading a piece takes it from the front of the pipe.
LEMMA Taken ==
  ASSUME TypeOK, pipe # <<>>, pipe' = Tail(pipe)
  PROVE  /\ Len(pipe) \in Nat \ {0} /\ DOMAIN pipe = 1..Len(pipe)
         /\ pipe' \in Seq(Piece) /\ Len(pipe') = Len(pipe) - 1 /\ DOMAIN pipe' = 1..Len(pipe) - 1
         /\ \A i \in 1..Len(pipe) - 1 : pipe'[i] = pipe[i + 1]
         /\ Head(pipe) = pipe[1] /\ Head(pipe) \in Piece /\ Head(pipe).message \in Message
         /\ Len(pipe) > 1 => pipe' # <<>> /\ Head(pipe') = pipe[2]
         /\ Len(pipe) = 1 => pipe' = <<>>
  <1>1. pipe \in Seq(Piece)
    BY DEF TypeOK
  <1>2. /\ pipe' \in Seq(Piece) /\ Len(pipe') = Len(pipe) - 1
        /\ \A i \in 1..Len(pipe') : pipe'[i] = pipe[i + 1]
        /\ Head(pipe) \in Piece
    BY <1>1, HeadTailProperties
  <1>3. Len(pipe) \in Nat \ {0} /\ DOMAIN pipe = 1..Len(pipe) /\ DOMAIN pipe' = 1..Len(pipe')
    BY <1>1, <1>2, LenProperties, EmptySeq
  <1>4. Head(pipe) = pipe[1] /\ Head(pipe).message \in Message
    BY <1>1, <1>2 DEF Piece
  <1>5. Len(pipe) > 1 => pipe' # <<>> /\ Head(pipe') = pipe[2]
    BY <1>2, <1>3
  <1>6. Len(pipe) = 1 => pipe' = <<>>
    BY <1>2, <1>3
  <1>7. QED
    BY <1>2, <1>3, <1>4, <1>5, <1>6

LEMMA TakenFrames ==
  ASSUME TypeOK, Framed, pipe # <<>>, pipe' = Tail(pipe), writing' = writing,
         \/ Head(pipe).part = "head" /\ line' = Head(pipe).message
         \/ line' = NoMessage
  PROVE  Framed'
  <1>1. ASSUME NEW i \in 1..Len(pipe'), pipe'[i].part = "head"
        PROVE  IF i = Len(pipe') THEN writing' = pipe'[i].message
               ELSE pipe'[i + 1] = [part |-> "tail", message |-> pipe'[i].message]
    <2>1. i + 1 \in 1..Len(pipe) /\ pipe'[i] = pipe[i + 1] /\ pipe[i + 1].part = "head"
      BY <1>1, Taken
    <2>2. IF i + 1 = Len(pipe) THEN writing = pipe[i + 1].message
          ELSE pipe[(i + 1) + 1] = [part |-> "tail", message |-> pipe[i + 1].message]
      BY <2>1 DEF Framed
    <2>3. CASE i = Len(pipe')
      BY <2>1, <2>2, <2>3, Taken
    <2>4. CASE i # Len(pipe')
      <3>1. i + 1 \in 1..Len(pipe) - 1 /\ i + 1 # Len(pipe)
        <4>1. Len(pipe) \in Nat /\ Len(pipe') = Len(pipe) - 1
          BY Taken
        <4>2. i \in 1..Len(pipe) - 1
          BY <4>1
        <4>3. i # Len(pipe) - 1
          BY <2>4, <4>1
        <4>4. ASSUME NEW l \in Nat, NEW k \in 1..(l - 1), k # l - 1
              PROVE  k + 1 \in 1..(l - 1) /\ k + 1 # l
          BY <4>4
        <4>5. QED
          BY <4>1, <4>2, <4>3, <4>4
      <3>2. pipe'[i + 1] = pipe[(i + 1) + 1]
        BY <3>1, Taken
      <3>3. QED
        BY <2>1, <2>2, <2>4, <3>1, <3>2
    <2>5. QED
      BY <2>3, <2>4
  <1>2. ASSUME line' # NoMessage
        PROVE  IF pipe' = <<>> THEN writing' = line'
               ELSE Head(pipe') = [part |-> "tail", message |-> line']
    <2>1. pipe[1].part = "head" /\ line' = pipe[1].message /\ 1 \in 1..Len(pipe)
      BY <1>2, Taken
    <2>2. IF 1 = Len(pipe) THEN writing = pipe[1].message
          ELSE pipe[1 + 1] = [part |-> "tail", message |-> pipe[1].message]
      BY <2>1 DEF Framed
    <2>3. CASE Len(pipe) = 1
      BY <2>1, <2>2, <2>3, Taken
    <2>4. CASE Len(pipe) # 1
      <3>1. pipe[2] = [part |-> "tail", message |-> line'] /\ Len(pipe) > 1
        BY <2>1, <2>2, <2>4, Taken
      <3>2. QED
        BY <3>1, Taken
    <2>5. QED
      BY <2>3, <2>4
  <1>3. QED
    BY <1>1, <1>2 DEF Framed

LEMMA TakenTruth ==
  ASSUME TypeOK, TransitTrue, pipe # <<>>, pipe' = Tail(pipe), UNCHANGED <<writing, ended>>,
         line' \in {NoMessage, Head(pipe).message}
  PROVE  TransitTrue' /\ IsTrue(Head(pipe).message, ended)
  <1>1. IsTrue(Head(pipe).message, ended)
    BY Taken DEF TransitTrue
  <1>2. IsTrue(NoMessage, ended)
    BY Lines DEF IsTrue
  <1>3. IsTrue(line', ended')
    BY <1>1, <1>2
  <1>4. \A i \in DOMAIN pipe' : IsTrue(pipe'[i].message, ended')
    <2>1. \A i \in DOMAIN pipe' : i + 1 \in DOMAIN pipe /\ pipe'[i] = pipe[i + 1]
      BY Taken
    <2>2. QED
      BY <2>1 DEF TransitTrue
  <1>5. QED
    BY <1>1, <1>3, <1>4 DEF TransitTrue

\* A request that was on its way still is, or is the line that was read.
LEMMA TakenTransit ==
  ASSUME TypeOK, Framed, pipe # <<>>, pipe' = Tail(pipe), writing' = writing,
         NEW n \in Ask, InTransit(n)
  PROVE  \/ InTransit(n)'
         \/ Head(pipe).message.kind = "request" /\ Head(pipe).message.id = n
  <1>1. ASSUME NEW i \in DOMAIN pipe, pipe[i].message.kind = "request", pipe[i].message.id = n
        PROVE  \/ InTransit(n)'
               \/ Head(pipe).message.kind = "request" /\ Head(pipe).message.id = n
    <2>1. CASE i = 1
      BY <1>1, <2>1, Taken
    <2>2. CASE i # 1
      <3>1. i - 1 \in DOMAIN pipe' /\ pipe'[i - 1] = pipe[i]
        BY <2>2, Taken
      <3>2. QED
        BY <1>1, <3>1 DEF InTransit
    <2>3. QED
      BY <2>1, <2>2
  <1>2. ASSUME line.kind = "request", line.id = n
        PROVE  Head(pipe).message.kind = "request" /\ Head(pipe).message.id = n
    <2>1. Head(pipe) = [part |-> "tail", message |-> line]
      BY <1>2, Lines DEF Framed
    <2>2. Head(pipe).message = line
      BY <2>1
    <2>3. QED
      BY <1>2, <2>2
  <1>3. QED
    BY <1>1, <1>2 DEF InTransit

LEMMA ReadKeeps ==
  ASSUME IInv, Read
  PROVE  IInv'
  <1> USE DEF IInv
  <1> DEFINE m == Head(pipe).message
  <1>1. /\ Reading /\ pipe # <<>> /\ pipe' = Tail(pipe)
        /\ UNCHANGED <<writing, up, helper, input, listening, due, ended, asks, oddities>>
    BY DEF Read
  <1>2. m \in Message /\ pipe' \in Seq(Piece) /\ m \in Line
    BY <1>1, Taken DEF Line
  <1>3. /\ calling = 0 /\ sending = NoLine /\ Alive /\ stage \in Waiting \cup {"streaming"}
        /\ asks \in 0..MaxAsks /\ MaxAsks \in Nat
    BY <1>1, SessionAssumption DEF Reading, InWait, Alive, Waiting, TypeOK
  <1>4. \A n \in 1..asks : n \in Ask /\ (answers[n] # "none" \/ InTransit(n))
    <2>1. \A n \in 1..asks : n \in Ask /\ ~InHand(n)
      BY <1>3, ClientLines DEF Ask, InHand
    <2>2. QED
      BY <1>3, <2>1 DEF RequestsKept
  <1>5. CASE /\ Head(pipe).part = "head" /\ line' = m
             /\ Stays /\ UNCHANGED <<late, sending, calling, answers>>
    <2>1. Framed' /\ TransitTrue'
      BY <1>1, <1>5, TakenFrames, TakenTruth
    <2>2. TypeOK'
      BY <1>1, <1>2, <1>5 DEF TypeOK, Stays, Line
    <2>3. TurnsCounted' /\ CallsInSession' /\ ServerGone'
      BY <1>1, <1>5
      DEF TurnsCounted, OnlyServedTurnsCount, StreamsOwnTurn, CallsInSession, InWait, ServerGone, Stays
    <2>4. RequestsKept'
      <3>1. ASSUME NEW n \in 1..asks', answers'[n] = "none"
            PROVE  InTransit(n)'
        <4>1. n \in Ask /\ InTransit(n)
          BY <1>1, <1>4, <1>5, <3>1
        <4>2. CASE m.kind = "request" /\ m.id = n
          BY <1>5, <4>2 DEF InTransit
        <4>3. QED
          BY <1>1, <4>1, <4>2, TakenTransit
      <3>2. QED
        BY <3>1 DEF RequestsKept
    <2>5. QED
      BY <2>1, <2>2, <2>3, <2>4
  <1>6. ASSUME NEW x \in Message, Take(x), IsTrue(x, ended), line' = NoMessage,
               x = m \/ x.kind = "malformed"
        PROVE  IInv'
    <2>1. Framed' /\ TransitTrue'
      BY <1>1, <1>6, TakenFrames, TakenTruth
    <2>2. TypeOK'
      BY <1>1, <1>2, <1>6, TakeKeepsTypes DEF Line
    <2>3. TurnsCounted'
      BY <1>1, <1>6, TakeKeepsCounts
    <2>4. stage' # "ended"
      BY <1>1, <1>3, <1>6, TakeMoves DEF Stays, Fail, Ends, Waiting
    <2>5. ServerGone' /\ CallsInSession'
      <3>1. /\ calling' # 0 => UNCHANGED stage /\ sending' = NoLine
            /\ sending' # NoLine => InWait'
        BY <1>1, <1>6, TakeAnswersRequests
      <3>2. InWait
        BY <1>1 DEF Reading
      <3>3. QED
        BY <2>4, <3>1, <3>2 DEF ServerGone, CallsInSession, InWait
    <2>6. RequestsKept'
      <3> SUFFICES ASSUME Alive', NEW n \in 1..asks', answers'[n] = "none", ~InHand(n)'
                   PROVE  InTransit(n)'
        BY DEF RequestsKept
      <3>1. n \in Ask /\ InTransit(n)
        <4>1. n \in 1..asks
          BY <1>1
        <4>2. answers[n] = "none"
          BY <1>1, <1>4, <1>6, <4>1, TakeAnswersRequests
        <4>3. QED
          BY <1>4, <4>1, <4>2
      <3>2. x = m
        <4>1. CASE x.kind = "malformed"
          <5>1. stage' = "closing"
            BY <1>6, <4>1 DEF Take, TakeResponse, TakeCompletion, TakeRequest, Fail, Ends
          <5>2. QED
            BY <5>1 DEF Alive, Waiting
        <4>2. QED
          BY <1>6, <4>1
      <3>3. ~(m.kind = "request" /\ m.id = n)
        <4>1. x.kind = "request" => InHand(x.id)'
          BY <1>1, <1>6, TakeAnswersRequests DEF Alive, Waiting
        <4>2. QED
          BY <3>2, <4>1
      <3>4. QED
        BY <1>1, <3>1, <3>3, TakenTransit
    <2>7. QED
      BY <2>1, <2>2, <2>3, <2>5, <2>6
  <1>7. IsTrue(m, ended) /\ Malformed \in Message /\ IsTrue(Malformed, ended)
        /\ Malformed.kind = "malformed"
    <2>1. IsTrue(m, ended)
      BY <1>1, Taken DEF TransitTrue
    <2>2. QED
      BY <2>1, Lines DEF IsTrue
  <1>8. CASE Take(m) /\ line' = NoMessage
    BY <1>2, <1>6, <1>7, <1>8
  <1>9. CASE Take(Malformed) /\ line' = NoMessage
    BY <1>6, <1>7, <1>9
  <1>10. QED
    BY <1>5, <1>8, <1>9 DEF Read


\* While nothing moves in the pipe, what is in transit there stays.
LEMMA PipeUntouched ==
  ASSUME Framed, TransitTrue, UNCHANGED <<pipe, writing, ended>>, line' \in {line, NoMessage}
  PROVE  Framed' /\ TransitTrue'
  <1>1. IsTrue(line', ended')
    BY Lines DEF TransitTrue, IsTrue
  <1>2. QED
    BY <1>1 DEF Framed, TransitTrue

\* The read is given up between the pieces of a line: its tail is still to be written.
LEMMA ReadTimeoutKeeps ==
  ASSUME IInv, ReadTimeout
  PROVE  IInv'
  <1> USE DEF IInv
  <1>1. /\ pipe = <<>> /\ line # NoMessage /\ line' = NoMessage
        /\ UNCHANGED <<stage, turns, turn, done, late, calling, sending, outcome, server, answers>>
    BY DEF ReadTimeout
  <1>2. writing = line
    BY <1>1 DEF Framed
  <1>3. Framed' /\ TransitTrue'
    BY <1>1, PipeUntouched DEF server
  <1>4. TypeOK'
    BY <1>1 DEF TypeOK, server
  <1>5. TurnsCounted' /\ CallsInSession' /\ ServerGone'
    BY <1>1
    DEF TurnsCounted, OnlyServedTurnsCount, StreamsOwnTurn, CallsInSession, InWait, ServerGone, server
  <1>6. RequestsKept'
    <2>1. \A n : InTransit(n) => InTransit(n)'
      BY <1>1, <1>2 DEF InTransit, server
    <2>2. QED
      BY <1>1, <2>1 DEF RequestsKept, InHand, Alive, server
  <1>7. QED
    BY <1>3, <1>4, <1>5, <1>6

LEMMA ToolEndsKeeps ==
  ASSUME IInv, ToolEnds
  PROVE  IInv'
  <1> USE DEF IInv
  <1>1. /\ calling # 0 /\ calling' = 0 /\ Stays /\ UNCHANGED <<late, line, server, answers>>
        /\ \E what \in {"result", "failure"} : sending' = Reply(calling, what)
    BY DEF ToolEnds, Answer
  <1>2. calling \in Ask /\ 0 \in 0..MaxAsks /\ sending = NoLine /\ InWait
    <2>1. calling \in 0..MaxAsks /\ MaxAsks \in Nat
      BY SessionAssumption DEF TypeOK
    <2>2. sending = NoLine /\ InWait
      BY <1>1 DEF CallsInSession
    <2>3. QED
      BY <1>1, <2>1, <2>2 DEF Ask
  <1>3. sending' \in ClientLine /\ sending'.kind = "reply" /\ sending'.id = calling
    <2>1. {"result", "failure"} \subseteq Replies
      BY DEF Replies
    <2>2. QED
      BY <1>1, <1>2, <2>1, ClientLines
  <1>4. Framed' /\ TransitTrue'
    BY <1>1, PipeUntouched DEF server
  <1>5. TypeOK'
    BY <1>1, <1>2, <1>3 DEF TypeOK, Stays, server
  <1>6. TurnsCounted' /\ ServerGone'
    BY <1>1 DEF TurnsCounted, OnlyServedTurnsCount, StreamsOwnTurn, ServerGone, Stays, server
  <1>7. CallsInSession'
    BY <1>1, <1>2 DEF CallsInSession, InWait, Stays
  <1>8. RequestsKept'
    <2> SUFFICES ASSUME Alive', NEW n \in 1..asks'
                 PROVE  answers'[n] # "none" \/ InTransit(n)' \/ InHand(n)'
      BY DEF RequestsKept
    <2>1. n \in 1..asks /\ Alive /\ (InTransit(n) => InTransit(n)')
      BY <1>1 DEF Alive, Stays, InTransit, server
    <2>2. InHand(n) => InHand(n)'
      BY <1>2, <1>3, ClientLines DEF InHand
    <2>3. QED
      BY <1>1, <2>1, <2>2 DEF RequestsKept
  <1>9. QED
    BY <1>4, <1>5, <1>6, <1>7, <1>8

\* What is written answers the request it was in hand for, and no other.
LEMMA WriteLineKeeps ==
  ASSUME IInv, WriteLine
  PROVE  IInv'
  <1> USE DEF IInv
  <1>1. /\ sending # NoLine /\ sending' = NoLine /\ input' = Append(input, sending)
        /\ UNCHANGED <<late, line, calling>>
        /\ UNCHANGED <<pipe, writing, up, helper, listening, due, ended, asks, oddities>>
        /\ \/ sending.kind = "call" /\ Stays /\ UNCHANGED answers
           \/ /\ sending.kind = "reply"
              /\ answers' = [answers EXCEPT ![sending.id] = sending.what]
              /\ Stays \/ Fail
    BY DEF WriteLine
  <1>2. /\ sending \in ClientLine /\ InWait /\ calling = 0 /\ outcome = "none"
        /\ stage' \in {stage, "closing"}
    <2>1. InWait /\ calling = 0
      BY <1>1 DEF CallsInSession
    <2>2. QED
      BY <1>1, <2>1 DEF TypeOK, InWait, Waiting, Stays, Fail, Ends
  <1>3. answers' \in [Ask -> Replies \cup {"none"}]
    <2>1. answers \in [Ask -> Replies \cup {"none"}]
      BY DEF TypeOK
    <2>2. CASE sending.kind = "reply" /\ answers' = [answers EXCEPT ![sending.id] = sending.what]
      <3>1. sending.what \in Replies
        BY <1>2, <2>2, ClientLines
      <3>2. QED
        BY <2>1, <2>2, <3>1
    <2>3. QED
      BY <1>1, <2>1, <2>2
  <1>4. input' \in Seq(ClientLine)
    <2>1. input \in Seq(ClientLine)
      BY DEF TypeOK
    <2>2. QED
      BY <1>1, <1>2, <2>1, AppendProperties
  <1>5. Framed' /\ TransitTrue'
    BY <1>1, PipeUntouched
  <1>6. TypeOK'
    <2>1. CASE Stays
      BY <1>1, <1>3, <1>4, <2>1 DEF TypeOK, Stays
    <2>2. CASE Fail
      BY <1>1, <1>2, <1>3, <1>4, <2>2 DEF TypeOK, Fail, Ends
    <2>3. QED
      BY <1>1, <2>1, <2>2
  <1>7. TurnsCounted' /\ ServerGone' /\ CallsInSession'
    <2>1. CASE Stays
      BY <1>1, <1>2, <2>1
      DEF TurnsCounted, OnlyServedTurnsCount, StreamsOwnTurn, ServerGone, CallsInSession, Stays
    <2>2. CASE Fail
      BY <1>1, <1>2, <2>2
      DEF TurnsCounted, OnlyServedTurnsCount, StreamsOwnTurn, ServerGone, CallsInSession, Fail, Ends
    <2>3. QED
      BY <1>1, <2>1, <2>2
  <1>8. RequestsKept'
    <2> SUFFICES ASSUME Alive', NEW n \in 1..asks'
                 PROVE  answers'[n] # "none" \/ InTransit(n)'
      BY DEF RequestsKept
    <2>1. n \in 1..asks /\ Alive /\ (InTransit(n) => InTransit(n)')
      BY <1>1, <1>2 DEF Alive, InTransit, InWait
    <2>2. n \in Ask
      <3>1. asks \in 0..MaxAsks /\ MaxAsks \in Nat
        BY SessionAssumption DEF TypeOK
      <3>2. QED
        BY <2>1, <3>1 DEF Ask
    <2>3. answers \in [Ask -> Replies \cup {"none"}] /\ "none" \notin Replies
      BY DEF TypeOK, Replies
    <2>4. CASE answers[n] # "none"
      <3>1. CASE sending.kind = "reply" /\ sending.id = n
        BY <1>1, <1>2, <2>2, <2>3, <2>4, <3>1, ClientLines
      <3>2. CASE ~(sending.kind = "reply" /\ sending.id = n)
        BY <1>1, <2>2, <2>3, <2>4, <3>2
      <3>3. QED
        BY <3>1, <3>2
    <2>5. CASE InHand(n)
      <3>1. sending.kind = "reply" /\ sending.id = n
        <4>1. calling = 0 /\ n # 0
          BY <1>2, <2>1
        <4>2. QED
          BY <2>5, <4>1 DEF InHand
      <3>2. sending.what \in Replies /\ answers' = [answers EXCEPT ![n] = sending.what]
        BY <1>1, <1>2, <3>1, ClientLines
      <3>3. QED
        BY <2>2, <2>3, <3>2
    <2>6. QED
      BY <2>1, <2>4, <2>5 DEF RequestsKept
  <1>9. QED
    BY <1>5, <1>6, <1>7, <1>8

LEMMA StartTurnKeeps ==
  ASSUME IInv, StartTurn
  PROVE  IInv'
  <1> USE DEF IInv
  <1>1. /\ stage = "idle" /\ turns < MaxTurns /\ turns' = turns + 1
        /\ sending' = Call(TurnRequest(turns')) /\ stage' = "turn_start" /\ late' = FALSE
        /\ UNCHANGED <<turn, done, line, calling, outcome, server, answers>>
    BY DEF StartTurn, Send, Enter
  <1>2. /\ turns \in 0..MaxTurns /\ MaxTurns \in Nat /\ turns = Len(done)
        /\ calling = 0 /\ sending = NoLine
    BY <1>1, SessionAssumption DEF TypeOK, TurnsCounted, CallsInSession, InWait, Waiting
  <1>3. turns' \in 0..MaxTurns /\ TurnRequest(turns') \in RequestId
    BY <1>1, <1>2 DEF TurnRequest, RequestId
  <1>4. sending' \in ClientLine
    BY <1>1, <1>3, ClientLines
  <1>5. TypeOK'
    BY <1>1, <1>3, <1>4 DEF TypeOK, Waiting, server
  <1>6. Framed' /\ TransitTrue'
    BY <1>1, PipeUntouched DEF server
  <1>7. TurnsCounted'
    BY <1>1, <1>2 DEF TurnsCounted, OnlyServedTurnsCount, StreamsOwnTurn, server
  <1>8. CallsInSession' /\ ServerGone'
    BY <1>1, <1>2 DEF CallsInSession, InWait, Waiting, ServerGone
  <1>9. RequestsKept'
    <2>1. Alive /\ \A n : (InTransit(n) => InTransit(n)') /\ (InHand(n) => n = 0)
      BY <1>1, <1>2, ClientLines DEF Alive, InTransit, InHand, server
    <2>2. \A n \in 1..asks : n # 0
      OBVIOUS
    <2>3. QED
      BY <1>1, <2>1, <2>2 DEF RequestsKept, server
  <1>10. QED
    BY <1>5, <1>6, <1>7, <1>8, <1>9

\* The steps by which a session comes to its end.
LEMMA EndingKeeps ==
  ASSUME IInv, EndOfFile \/ TimedOut \/ WriteFails \/ LeaveLoop \/ Shutdown \/ Abort
  PROVE  IInv'
  <1> USE DEF IInv
  <1>1. /\ UNCHANGED <<turns, turn, done, late, pipe, writing, input, listening, due, ended, asks, oddities, answers>>
        /\ line' \in {line, NoMessage}
        /\ stage' \in {"closing", "ended"} /\ outcome' \in {"normal", "failed", "aborted"}
        /\ calling' = 0 /\ sending' = NoLine
        /\ up' \in {up, FALSE} /\ helper' \in {helper, FALSE}
        /\ stage' = "ended" => ~up'
    <2>1. CASE EndOfFile \/ TimedOut
      BY <2>1 DEF EndOfFile, TimedOut, Reading, Fail, Ends, server
    <2>2. CASE LeaveLoop
      <3>1. calling = 0 /\ sending = NoLine
        BY <2>2 DEF LeaveLoop, CallsInSession, InWait, Waiting
      <3>2. QED
        BY <2>2, <3>1 DEF LeaveLoop, Ends, server
    <2>3. CASE Shutdown
      <3>1. calling = 0 /\ sending = NoLine /\ outcome \in {"normal", "failed", "aborted"}
        BY <2>3 DEF Shutdown, CallsInSession, InWait, Waiting, TypeOK
      <3>2. ~up' /\ stage' = "ended" /\ up' \in {up, FALSE} /\ helper' \in {helper, FALSE}
        <4>1. stage' = "ended"
          BY <2>3 DEF Shutdown
        <4>2. CASE ~up /\ UNCHANGED <<up, helper>>
          BY <4>1, <4>2
        <4>3. CASE up /\ up' = FALSE /\ helper' \in {FALSE, helper}
          BY <4>1, <4>3
        <4>4. QED
          BY <2>3, <4>2, <4>3 DEF Shutdown
      <3>3. /\ UNCHANGED <<turns, turn, done, late, line, calling, sending, outcome>>
            /\ UNCHANGED <<pipe, writing, input, listening, due, ended, asks, oddities, answers>>
        BY <2>3 DEF Shutdown
      <3>4. QED
        BY <3>1, <3>2, <3>3
    <2>4. CASE Abort
      BY <2>4 DEF Abort, DropChild
    <2>5. CASE WriteFails
      <3>1. calling = 0
        BY <2>5 DEF WriteFails, CallsInSession
      <3>2. QED
        BY <2>5, <3>1 DEF WriteFails, Fail, Ends, server
    <2>6. QED
      BY <2>1, <2>2, <2>3, <2>4, <2>5
  <1>2. 0 \in 0..MaxAsks
    BY SessionAssumption
  <1>3. TypeOK'
    <2>1. up' \in BOOLEAN /\ helper' \in BOOLEAN /\ line' \in Line
      BY <1>1 DEF TypeOK, Line
    <2>2. stage' \in {"closing", "ended"} /\ outcome' # "none"
      BY <1>1
    <2>3. QED
      BY <1>1, <1>2, <2>1, <2>2 DEF TypeOK, Line
  <1>4. Framed' /\ TransitTrue'
    BY <1>1, PipeUntouched
  <1>5. TurnsCounted'
    BY <1>1 DEF TurnsCounted, OnlyServedTurnsCount, StreamsOwnTurn
  <1>6. CallsInSession' /\ ServerGone' /\ RequestsKept'
    BY <1>1 DEF CallsInSession, ServerGone, RequestsKept, Alive, Waiting
  <1>7. QED
    BY <1>3, <1>4, <1>5, <1>6

-----------------------------------------------------------------------------
(* The theorems. *)

LEMMA InitEstablishes == Init => IInv
  <1> SUFFICES ASSUME Init PROVE IInv
    OBVIOUS
  <1>1. /\ pipe \in Seq(Piece) /\ DOMAIN pipe = {} /\ Len(pipe) = 0
        /\ done \in Seq(Turn) /\ DOMAIN done = {} /\ Len(done) = 0
    BY DEF Init
  <1>2. /\ MaxTurns \in Nat /\ MaxAsks \in Nat /\ MaxOddities \in Nat
        /\ 0 \in 0..MaxTurns /\ 0 \in 0..MaxAsks /\ 0 \in 0..MaxOddities
        /\ InitializeId \in RequestId
    BY SessionAssumption DEF InitializeId, RequestId, TurnRequest
  <1>3. TypeOK
    <2>1. sending \in ClientLine /\ input \in Seq(ClientLine)
      BY <1>2, ClientLines DEF Init
    <2>2. QED
      BY <1>1, <1>2, <2>1 DEF Init, TypeOK, Waiting
  <1>4. TransitTrue
    BY <1>1, Lines DEF Init, TransitTrue, IsTrue
  <1>5. TurnsCounted
    BY <1>1 DEF Init, TurnsCounted, OnlyServedTurnsCount, StreamsOwnTurn
  <1>6. Framed /\ RequestsKept /\ CallsInSession /\ ServerGone
    BY <1>1 DEF Init, Framed, RequestsKept, CallsInSession, InWait, Waiting, ServerGone
  <1>7. QED
    BY <1>3, <1>4, <1>5, <1>6 DEF IInv

\* What the deadline and a stutter leave alone carries the invariant over.
LEMMA SessionUntouched ==
  ASSUME IInv, TypeOK',
         UNCHANGED <<stage, turns, turn, done, line, calling, sending, outcome, server, answers>>
  PROVE  IInv'
  <1>1. /\ UNCHANGED <<stage, turns, turn, done, line, calling, sending, outcome, answers>>
        /\ UNCHANGED <<pipe, writing, up, helper, input, listening, due, ended, asks>>
    BY DEF server
  <1>2. Framed' /\ TransitTrue'
    BY <1>1, PipeUntouched DEF IInv
  <1>3. TurnsCounted'
    BY <1>1 DEF IInv, TurnsCounted, OnlyServedTurnsCount, StreamsOwnTurn
  <1>4. RequestsKept'
    BY <1>1 DEF IInv, RequestsKept, Alive, InTransit, InHand, Waiting
  <1>5. CallsInSession' /\ ServerGone'
    BY <1>1 DEF IInv, CallsInSession, InWait, ServerGone, Waiting
  <1>6. QED
    BY <1>2, <1>3, <1>4, <1>5 DEF IInv

LEMMA StepKeeps == IInv /\ [Next]_vars => IInv'
  <1> SUFFICES ASSUME IInv, [Next]_vars PROVE IInv'
    OBVIOUS
  <1>1. CASE stage # "ended" /\ ServerStep
    BY <1>1, ServerStepKeeps
  <1>2. CASE Read
    BY <1>2, ReadKeeps
  <1>3. CASE EndOfFile \/ TimedOut \/ WriteFails \/ LeaveLoop \/ Shutdown \/ Abort
    BY <1>3, EndingKeeps
  <1>4. CASE ToolEnds \/ WriteLine
    BY <1>4, ToolEndsKeeps, WriteLineKeeps
  <1>5. CASE StartTurn
    BY <1>5, StartTurnKeeps
  <1>6. CASE ReadTimeout
    BY <1>6, ReadTimeoutKeeps
  <1>7. CASE DeadlinePasses
    <2>1. /\ late' \in BOOLEAN
          /\ UNCHANGED <<stage, turns, turn, done, line, calling, sending, outcome, server, answers>>
      BY <1>7 DEF DeadlinePasses
    <2>2. TypeOK'
      BY <2>1 DEF IInv, TypeOK, server
    <2>3. QED
      BY <2>1, <2>2, SessionUntouched DEF server
  <1>8. CASE UNCHANGED vars
    <2>1. UNCHANGED <<stage, turns, turn, done, line, calling, sending, outcome, server, answers>>
      BY <1>8 DEF vars, client, server
    <2>2. TypeOK'
      <3>1. UNCHANGED late
        BY <1>8 DEF vars, client
      <3>2. QED
        BY <2>1, <3>1 DEF IInv, TypeOK, server
    <2>3. QED
      BY <2>1, <2>2, SessionUntouched DEF server
  <1>9. QED
    BY <1>1, <1>2, <1>3, <1>4, <1>5, <1>6, <1>7, <1>8 DEF Next, ClientStep, Ended

\* Every variable keeps its type (all of the session and the app-server).
THEOREM TypeCorrect == Spec => []TypeOK
  <1>1. IInv => TypeOK
    BY DEF IInv
  <1>2. QED
    BY <1>1, InitEstablishes, StepKeeps, PTL DEF Spec

\* The turns a worker counts are those the server completed, each once and in order,
\* however lines are repeated, torn, late or early (handle_turn_completed).
THEOREM OnlyServedTurnsCounted == Spec => []OnlyServedTurnsCount
  <1>1. IInv => OnlyServedTurnsCount
    BY DEF IInv, TurnsCounted
  <1>2. QED
    BY <1>1, InitEstablishes, StepKeeps, PTL DEF Spec

\* The turn the client listens to is the one it asked for last (wait_for_response).
THEOREM OwnTurnStreamed == Spec => []StreamsOwnTurn
  <1>1. IInv => StreamsOwnTurn
    BY DEF IInv, TurnsCounted
  <1>2. QED
    BY <1>1, InitEstablishes, StepKeeps, PTL DEF Spec

\* While the client reads, every request of the server is answered or has not been
\* read to its end: none is passed over (handle_server_request).
THEOREM NoRequestIsLeftOpen == Spec => []NoRequestLeftOpen
  <1>1. IInv => NoRequestLeftOpen
    <2> SUFFICES ASSUME IInv, Reading, NEW n \in 1..asks
                 PROVE  answers[n] # "none" \/ InTransit(n)
      BY DEF NoRequestLeftOpen
    <2>1. Alive /\ ~InHand(n)
      <3>1. asks \in 0..MaxAsks /\ MaxAsks \in Nat
        BY SessionAssumption DEF IInv, TypeOK
      <3>2. n # 0
        BY <3>1
      <3>3. QED
        BY <3>2, ClientLines DEF Reading, InWait, Alive, InHand
    <2>2. QED
      BY <2>1 DEF IInv, RequestsKept
  <1>2. QED
    BY <1>1, InitEstablishes, StepKeeps, PTL DEF Spec

\* When a session has ended, by itself, by a timeout or by an abort, its app-server is
\* gone (shutdown, ManagedChild::drop).
THEOREM NoServerOutlives == Spec => []ServerGone
  <1>1. IInv => ServerGone
    BY DEF IInv
  <1>2. QED
    BY <1>1, InitEstablishes, StepKeeps, PTL DEF Spec

=============================================================================

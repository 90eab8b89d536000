---------------------------- MODULE AgentSession ----------------------------
(***************************************************************************)
(* One session with the coding agent: the process that is spawned, the     *)
(* requests and the lines of JSON that travel through its pipes, the turns *)
(* of one worker, the deadlines, and the end of the process                *)
(* (src/agent/codex.rs, src/process.rs and the turn loop of                *)
(* src/agent/runner.rs).                                                   *)
(*                                                                         *)
(* The app-server is the environment: it answers late, with an error or    *)
(* out of order, repeats itself, asks, chatters without end, writes a line *)
(* in two pieces, leaves a descendant behind, stops reading, hangs or      *)
(* exits.                                                                  *)
(***************************************************************************)
EXTENDS Integers, SequencesExt

CONSTANTS
    MaxTurns,     \* agent.max_turns
    MaxAsks,      \* bound on the requests the server makes
    MaxOddities,  \* bound on its repeated and malformed lines
    PipeSize,     \* bound on the pieces in the pipe from the server
    InputSize     \* bound on the lines in the pipe to the server

ASSUME SessionAssumption ==
    /\ MaxTurns \in Nat \ {0} /\ MaxAsks \in Nat /\ MaxOddities \in Nat
    /\ PipeSize \in Nat \ {0} /\ InputSize \in Nat \ {0}

VARIABLES
    stage,      \* where the client is
    turns,      \* turn/start requests sent
    turn,       \* turn id the client goes by, 0 before the first
    done,       \* turns run_turn returned successfully, in order
    late,       \* the deadline of the wait has passed
    line,       \* the piece of a line read so far, or NoMessage
    calling,    \* tool call being executed, or 0
    sending,    \* line whose write is awaited, or NoLine
    outcome,    \* how the session came to its end
    pipe,       \* what the server has written and the client not read
    writing,    \* line of which only the head is written, or NoMessage
    up,         \* the server process runs
    helper,     \* a descendant of it runs
    input,      \* what the client has written and the server not read
    listening,  \* some process holds the reading end of that pipe
    due,        \* client requests the server has read and not answered
    ended,      \* how the server ended each turn
    asks,       \* requests the server has made
    answers,    \* what the client has written in answer to each
    oddities    \* odd lines so far

client == <<stage, turns, turn, done, late, line, calling, sending, outcome>>
server == <<pipe, writing, up, helper, input, listening, due, ended, asks, oddities>>
vars == <<client, server, answers>>

Turn == 1..MaxTurns
Ask == 1..MaxAsks
InitializeId == 1
ThreadId == 2
TurnRequest(t) == t + 2
RequestId == 1..TurnRequest(MaxTurns)

Asked == {"approval", "query", "unsupported", "input", "invalid"}
Status == {"completed", "failed", "interrupted"}

Response(id, ok) == [kind |-> "response", id |-> id, what |-> IF ok THEN "result" ELSE "error"]
Completed(t, status) == [kind |-> "completed", id |-> t, what |-> status]
Request(n, what) == [kind |-> "request", id |-> n, what |-> what]
Notification == [kind |-> "notification", id |-> 0, what |-> "usage"]
Malformed == [kind |-> "malformed", id |-> 0, what |-> "line"]
NoMessage == [kind |-> "none", id |-> 0, what |-> "none"]

Message ==
    {Response(id, ok) : id \in RequestId, ok \in BOOLEAN}
        \cup {Completed(t, status) : t \in Turn, status \in Status}
        \cup {Request(n, what) : n \in Ask, what \in Asked}
        \cup {Notification, Malformed}

Piece == [part: {"whole", "head", "tail"}, message: Message]

\* The notification that the client is initialized goes with the request that follows it.
Call(id) == [kind |-> "call", id |-> id, what |-> "call"]
Reply(n, what) == [kind |-> "reply", id |-> n, what |-> what]
NoLine == [kind |-> "none", id |-> 0, what |-> "none"]

Replies == {"decline", "result", "failure", "no answers", "error"}
ClientLine == {Call(id) : id \in RequestId} \cup {Reply(n, what) : n \in Ask, what \in Replies}

Waiting == {"initialize", "thread", "turn_start"}
InWait == stage \in Waiting \cup {"streaming"}
Reading == InWait /\ calling = 0 /\ sending = NoLine

TypeOK ==
    /\ stage \in Waiting \cup {"streaming", "idle", "closing", "ended"}
    /\ turns \in 0..MaxTurns /\ turn \in 0..MaxTurns
    /\ done \in Seq(Turn)
    /\ late \in BOOLEAN /\ up \in BOOLEAN /\ helper \in BOOLEAN
    /\ line \in Message \cup {NoMessage} /\ writing \in Message \cup {NoMessage}
    /\ calling \in 0..MaxAsks
    /\ sending \in ClientLine \cup {NoLine} /\ input \in Seq(ClientLine) /\ listening \in BOOLEAN
    /\ outcome \in {"none", "normal", "failed", "aborted"}
    /\ pipe \in Seq(Piece)
    /\ due \subseteq RequestId
    /\ ended \in [Turn -> Status \cup {"none"}]
    /\ asks \in 0..MaxAsks
    /\ answers \in [Ask -> Replies \cup {"none"}]
    /\ oddities \in 0..MaxOddities
    /\ stage \in {"closing", "ended"} <=> outcome # "none"

\* The process has been spawned and the initialize request is being written.
Init ==
    /\ stage = "initialize" /\ turns = 0 /\ turn = 0 /\ done = <<>>
    /\ late = FALSE /\ line = NoMessage /\ calling = 0 /\ outcome = "none"
    /\ pipe = <<>> /\ writing = NoMessage /\ up = TRUE /\ helper = FALSE
    /\ sending = Call(InitializeId) /\ input = <<>> /\ listening = TRUE
    /\ due = {}
    /\ ended = [t \in Turn |-> "none"]
    /\ asks = 0 /\ answers = [n \in Ask |-> "none"]
    /\ oddities = 0

-----------------------------------------------------------------------------
(* The app-server. *)

\* Requests of the client that have not reached it.
Unheard == {id \in RequestId : Call(id) = sending \/ \E i \in DOMAIN input : input[i] = Call(id)}

Write(m) ==
    /\ up /\ writing = NoMessage /\ Len(pipe) < PipeSize
    /\ \/ pipe' = Append(pipe, [part |-> "whole", message |-> m]) /\ UNCHANGED writing
       \/ pipe' = Append(pipe, [part |-> "head", message |-> m]) /\ writing' = m

ServerFinishesLine ==
    /\ up /\ writing # NoMessage /\ Len(pipe) < PipeSize
    /\ pipe' = Append(pipe, [part |-> "tail", message |-> writing])
    /\ writing' = NoMessage
    /\ UNCHANGED <<client, answers, up, helper, input, listening, due, ended, asks, oddities>>

\* Nothing obliges it to: a server that does not read lets the pipe fill.
ServerReads ==
    /\ up /\ input # <<>>
    /\ input' = Tail(input)
    /\ due' = due \cup {id \in RequestId : Head(input) = Call(id)}
    /\ UNCHANGED <<client, answers, pipe, writing, up, helper, listening, ended, asks, oddities>>

\* The pipe is closed at its reading end, by the server or by what it left behind.
InputCloses ==
    /\ listening /\ listening' = FALSE /\ input' = <<>>
    /\ UNCHANGED <<client, answers, pipe, writing, up, helper, due, ended, asks, oddities>>

ServerAnswers ==
    /\ \E id \in due, ok \in BOOLEAN : Write(Response(id, ok)) /\ due' = due \ {id}
    /\ UNCHANGED <<client, answers, up, helper, input, listening, ended, asks, oddities>>

\* Also before the response to the turn/start that began the turn.
ServerEndsTurn ==
    /\ turns > 0 /\ TurnRequest(turns) \notin Unheard /\ ended[turns] = "none"
    /\ \E status \in Status :
          /\ Write(Completed(turns, status))
          /\ ended' = [ended EXCEPT ![turns] = status]
    /\ UNCHANGED <<client, answers, up, helper, input, listening, due, asks, oddities>>

ServerAsks ==
    /\ asks < MaxAsks
    /\ asks' = asks + 1
    /\ \E what \in Asked : Write(Request(asks', what))
    /\ UNCHANGED <<client, answers, up, helper, input, listening, due, ended, oddities>>

ServerNotifies ==
    /\ Write(Notification)
    /\ UNCHANGED <<client, answers, up, helper, input, listening, due, ended, asks, oddities>>

\* A malformed line, or a response or completion repeated.
ServerErrs ==
    /\ oddities < MaxOddities
    /\ oddities' = oddities + 1
    /\ \/ Write(Malformed)
       \/ \E id \in 1..TurnRequest(turns) \ (due \cup Unheard) : Write(Response(id, TRUE))
       \/ \E t \in Turn : ended[t] # "none" /\ Write(Completed(t, ended[t]))
    /\ UNCHANGED <<client, answers, up, helper, input, listening, due, ended, asks>>

ServerForks ==
    /\ up /\ turns > 0 /\ ~helper /\ helper' = TRUE
    /\ UNCHANGED <<client, answers, pipe, writing, up, input, listening, due, ended, asks, oddities>>

\* A descendant may hold the reading end, and never read.
ServerExits ==
    /\ up /\ up' = FALSE
    /\ \/ helper /\ UNCHANGED <<input, listening>>
       \/ listening' = FALSE /\ input' = <<>>
    /\ UNCHANGED <<client, answers, pipe, writing, helper, due, ended, asks, oddities>>

-----------------------------------------------------------------------------
(* The client reads.  A read that times out is started again, from an empty     *)
(* line; the deadline of the wait is looked at before every read.               *)

Ends(how) == stage' = "closing" /\ outcome' = how

Fail == Ends("failed") /\ UNCHANGED <<turns, turn, done>>

Stays == UNCHANGED <<stage, turns, turn, done, outcome>>

\* The deadline is new with every wait.
Enter(next) == stage' = next /\ late' = FALSE

\* The line is written in a step of its own, which may have to wait.
Send(id) == sending' = Call(id)

MatchesRequest(id) ==
    id = CASE stage = "initialize" -> InitializeId
           [] stage = "thread" -> ThreadId
           [] OTHER -> TurnRequest(turns)

\* Mutant: does not compare the turn.
AnyTurn(t) == TRUE

IsActiveTurn(t) == t = turn

TakeResponse(m) ==
    /\ m.kind = "response"
    /\ IF stage = "streaming" THEN Fail /\ UNCHANGED <<late, sending>>
       ELSE IF ~MatchesRequest(m.id) THEN Stays /\ UNCHANGED <<late, sending>>
       ELSE \/ m.what = "error" /\ Fail /\ UNCHANGED <<late, sending>>
            \/ /\ m.what = "result" /\ stage = "initialize"
               /\ Send(ThreadId) /\ Enter("thread") /\ UNCHANGED <<turns, turn, done, outcome>>
            \/ /\ m.what = "result" /\ stage = "thread"
               /\ Enter("idle") /\ UNCHANGED <<turns, turn, done, outcome, sending>>
            \/ /\ m.what = "result" /\ stage = "turn_start"
               /\ Enter("streaming") /\ turn' = m.id - 2
               /\ UNCHANGED <<turns, done, outcome, sending>>
    /\ UNCHANGED <<calling, answers>>

\* While a response is awaited a completion is one more notification.
TakeCompletion(m) ==
    /\ m.kind = "completed"
    /\ IF stage # "streaming" THEN Stays
       ELSE IF IsActiveTurn(m.id) /\ m.what = "completed"
       THEN stage' = "idle" /\ done' = Append(done, turn) /\ UNCHANGED <<turns, turn, outcome>>
       ELSE Fail
    /\ UNCHANGED <<late, sending, calling, answers>>

Answer(n, what) == sending' = Reply(n, what)

\* Mutant: a request that is not supported is passed over.
PassOver(n) == Stays /\ UNCHANGED <<calling, sending>>

AnswerUnsupported(n) == Answer(n, "error") /\ Stays /\ UNCHANGED calling

\* A request for input is answered too, before it ends the session (WriteLine).
TakeRequest(m) ==
    /\ m.kind = "request"
    /\ \/ m.what = "approval" /\ Answer(m.id, "decline") /\ Stays /\ UNCHANGED calling
       \/ m.what = "query" /\ calling' = m.id /\ Stays /\ UNCHANGED sending
       \/ m.what = "unsupported" /\ AnswerUnsupported(m.id)
       \/ m.what = "input" /\ Answer(m.id, "no answers") /\ Stays /\ UNCHANGED calling
       \/ m.what = "invalid" /\ Fail /\ UNCHANGED <<calling, sending>>
    /\ UNCHANGED <<late, answers>>

Take(m) ==
    \/ TakeResponse(m)
    \/ TakeCompletion(m)
    \/ TakeRequest(m)
    \/ m.kind = "notification" /\ Stays /\ UNCHANGED <<late, sending, calling, answers>>
    \/ m.kind = "malformed" /\ Fail /\ UNCHANGED <<late, sending, calling, answers>>

\* Mutant: the deadline is looked at only when there is nothing to read.
ReadsOn == ~late \/ pipe # <<>>

MayRead == ~late

\* The head of a line waits in the reader for its tail; a tail whose head was dropped
\* is no JSON object.
Read ==
    /\ Reading /\ MayRead /\ pipe # <<>>
    /\ pipe' = Tail(pipe)
    /\ LET piece == Head(pipe) IN
          \/ /\ piece.part = "head" /\ line' = piece.message
             /\ Stays /\ UNCHANGED <<late, sending, calling, answers>>
          \/ piece.part = "whole" /\ line' = NoMessage /\ Take(piece.message)
          \/ /\ piece.part = "tail" /\ line' = NoMessage
             /\ IF line # NoMessage THEN Take(piece.message) ELSE Take(Malformed)
    /\ UNCHANGED <<writing, up, helper, input, listening, due, ended, asks, oddities>>

\* read_timeout_ms without a complete line: the future of read_line is dropped with
\* what it has read.
ReadTimeout ==
    /\ Reading /\ pipe = <<>> /\ line # NoMessage
    /\ line' = NoMessage
    /\ UNCHANGED <<stage, turns, turn, done, late, calling, sending, outcome, server, answers>>

\* End of file, with an unfinished line a malformed one.
EndOfFile ==
    /\ Reading /\ ~up /\ pipe = <<>>
    /\ Fail
    /\ line' = NoMessage
    /\ UNCHANGED <<late, calling, sending, server, answers>>

\* A deadline is set when the request is written, and time passes during tool calls and
\* the writing of answers too.
DeadlinePasses ==
    /\ InWait /\ sending.kind # "call" /\ ~late
    /\ late' = TRUE
    /\ UNCHANGED <<stage, turns, turn, done, line, calling, sending, outcome, server, answers>>

TimedOut ==
    /\ Reading /\ ~MayRead
    /\ Fail
    /\ line' = NoMessage
    /\ UNCHANGED <<late, calling, sending, server, answers>>

\* The GraphQL call ends, fails or times out: the server gets an answer.
ToolEnds ==
    /\ calling # 0
    /\ calling' = 0
    /\ \E what \in {"result", "failure"} : Answer(calling, what)
    /\ Stays
    /\ UNCHANGED <<late, line, server, answers>>

\* A line is written when the pipe has room for it; there is no timeout.
WriteLine ==
    /\ sending # NoLine /\ listening /\ Len(input) < InputSize
    /\ input' = Append(input, sending)
    /\ sending' = NoLine
    /\ \/ sending.kind = "call" /\ Stays /\ UNCHANGED answers
       \/ /\ sending.kind = "reply"
          /\ answers' = [answers EXCEPT ![sending.id] = sending.what]
          /\ IF sending.what = "no answers" THEN Fail ELSE Stays
    /\ UNCHANGED <<late, line, calling>>
    /\ UNCHANGED <<pipe, writing, up, helper, listening, due, ended, asks, oddities>>

WriteFails ==
    /\ sending # NoLine /\ ~listening
    /\ sending' = NoLine
    /\ Fail
    /\ UNCHANGED <<late, line, calling, server, answers>>

-----------------------------------------------------------------------------
(* The turn loop and the end of the session. *)

StartTurn ==
    /\ stage = "idle" /\ turns < MaxTurns
    /\ turns' = turns + 1
    /\ Send(TurnRequest(turns')) /\ Enter("turn_start")
    /\ UNCHANGED <<turn, done, line, calling, outcome, server, answers>>

\* After a turn the issue is looked up: the run is over when it is missing, terminal
\* or inactive, when the turns are used up, or when the look-up fails.
LeaveLoop ==
    /\ stage = "idle" /\ done # <<>>
    /\ \E how \in {"normal", "failed"} : Ends(how)
    /\ UNCHANGED <<turns, turn, done, late, line, calling, sending, server, answers>>

\* The client closes stdin and waits for the process; when the grace is over the
\* whole tree is terminated, of which only the leader is certain to be gone.
Shutdown ==
    /\ stage = "closing"
    /\ stage' = "ended"
    /\ \/ ~up /\ UNCHANGED <<up, helper>>
       \/ up /\ up' = FALSE /\ helper' \in {FALSE, helper}
    /\ UNCHANGED <<turns, turn, done, late, line, calling, sending, outcome>>
    /\ UNCHANGED <<pipe, writing, input, listening, due, ended, asks, oddities, answers>>

\* The process group of a child that has not been waited for is killed.
DropChild == up' = FALSE /\ helper' = FALSE

\* The service aborts the worker task, at whatever it awaits.
Abort ==
    /\ stage # "ended"
    /\ stage' = "ended" /\ outcome' = "aborted"
    /\ calling' = 0 /\ sending' = NoLine
    /\ DropChild
    /\ UNCHANGED <<turns, turn, done, late, line, pipe, writing, input, listening, due, ended, asks, oddities, answers>>

Ended == stage = "ended" /\ UNCHANGED vars

-----------------------------------------------------------------------------

ServerStep ==
    \/ ServerReads \/ InputCloses \/ ServerFinishesLine \/ ServerAnswers \/ ServerEndsTurn
    \/ ServerAsks \/ ServerNotifies \/ ServerErrs \/ ServerForks \/ ServerExits

ClientStep ==
    \/ Read \/ TimedOut \/ ToolEnds \/ WriteLine \/ WriteFails
    \/ StartTurn \/ LeaveLoop \/ Shutdown

Next ==
    \/ stage # "ended" /\ ServerStep
    \/ ClientStep \/ ReadTimeout \/ EndOfFile \/ DeadlinePasses
    \/ Abort \/ Ended

Spec == Init /\ [][Next]_vars

\* Timers fire and the client's task runs; the server owes nothing: it need not
\* read, nor come to its end of file, which a descendant may keep from the client.
FairSpec == Spec /\ WF_vars(ClientStep) /\ WF_vars(DeadlinePasses)

-----------------------------------------------------------------------------
(* Properties. *)

\* The turns a worker counts are those the server has completed, each once and in
\* order, whatever lines are repeated, late or early (handle_turn_completed).
OnlyServedTurnsCount ==
    \A n \in DOMAIN done : done[n] = n /\ ended[n] = "completed"

\* The client listens to the turn it has just asked for: no response to an earlier
\* request is taken for the current one (wait_for_response).
StreamsOwnTurn == stage = "streaming" => turn = turns

InTransit(n) ==
    \/ \E i \in DOMAIN pipe : pipe[i].message.kind = "request" /\ pipe[i].message.id = n
    \/ line.kind = "request" /\ line.id = n
    \/ writing.kind = "request" /\ writing.id = n

\* SPEC.md:1095-1098: while the session goes on no request of the server is left
\* without an answer: what the client has read it has answered before it reads on,
\* and no tail of a torn request passes for a line (handle_server_request).
NoRequestLeftOpen ==
    Reading => \A n \in 1..asks : answers[n] # "none" \/ InTransit(n)

\* No app-server outlives its session, however it ends (shutdown, ManagedChild::drop).
ServerGone == stage = "ended" => ~up

\* The client awaits a write to a pipe that is full and open.
Blocked == sending # NoLine /\ listening /\ Len(input) >= InputSize

\* A session ends by itself: a server that hangs, asks or chatters for ever cannot hold
\* the worker beyond its deadlines (read_message_before, read_response_before), unless it
\* stops reading and leaves the client in a write, which has no deadline (write_json).
SessionEnds == <>(stage = "ended") \/ <>[]Blocked

=============================================================================

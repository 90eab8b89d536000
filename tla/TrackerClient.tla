--------------------------- MODULE TrackerClient ----------------------------
(***************************************************************************)
(* The GitHub client (src/tracker/github.rs): the walks over paginated     *)
(* connections by which it lists the issues of a project, refreshes issues *)
(* by id and moves an issue to another state, against a project that       *)
(* people change between two requests and a server that fails or answers   *)
(* with broken cursors.                                                    *)
(*                                                                         *)
(* The nodes of a connection have ranks, a page holds the nodes up to some *)
(* rank, and the cursor of a page is that rank; 0 stands for no cursor.    *)
(* Texts, numbers, dates and priorities are left out of an issue: it has   *)
(* its state and whether one of its labels names a blocker.                *)
(***************************************************************************)
EXTENDS Integers, SequencesExt

CONSTANTS
    Issues,          \* issues that are or may get on the project's board
    States,          \* options of the board's Status field
    Foreign,         \* issues of repositories that are not configured
    Elsewhere,       \* issues that are on another board too
    Labelled,        \* issues with a label that names a blocker
    Calls,           \* operations that are called
    MaxRank,         \* places on the board
    MaxPages,        \* the safety limit of every walk, 1000 in the code
    MaxDisturbances  \* bound on changes to the board and on requests that fail

Unset == "unset"     \* no value in the Status field

ASSUME TrackerAssumption ==
    /\ Unset \notin States
    /\ Foreign \subseteq Issues /\ Elsewhere \subseteq Issues /\ Labelled \subseteq Issues
    /\ Calls \subseteq {"list", "refresh", "move"}
    /\ MaxRank \in Nat \ {0} /\ MaxPages \in Nat \ {0} /\ MaxDisturbances \in Nat

VARIABLES
    place,           \* where on the board each issue is, 0 if it is not there
    status,          \* its state on the board
    away,            \* its state on the other board
    call,            \* the call the client executes
    at,              \* where in the call it is
    list,            \* the walk over the connection of the call
    queue,           \* nodes of the last page that are not completed yet
    answer,          \* what the call returns
    bad,             \* the server answers with broken cursors
    moved,           \* issues that came, went or changed place since the call began
    left,            \* issues that were not on the board at some time since then
    held,            \* states each issue had since then
    disturbances     \* disturbances so far

board == <<place, status, away>>
client == <<call, at, list, queue, answer>>
history == <<moved, left, held>>
vars == <<board, client, bad, history, disturbances>>

Rank == 1..MaxRank
State == States \cup {Unset}
\* What is known of a connection: whether it goes on, the cursor that was
\* returned, the one it was returned for, and the requests made.
PageInfo == [next : BOOLEAN, end : 0..MaxRank + 2, after : 0..MaxRank + 2, pages : 0..MaxPages]
Node == [issue : Issues, rank : 0..MaxRank, own : BOOLEAN, state : State, blocked : BOOLEAN,
         labels : PageInfo, items : PageInfo, fields : PageInfo]
Issue == [issue : Issues, state : States, blocked : BOOLEAN]

TypeOK ==
    /\ place \in [Issues -> 0..MaxRank]
    /\ status \in [Issues -> State] /\ away \in [Elsewhere -> States]
    /\ call \in [op : {"list"}, states : SUBSET States]
             \cup [op : {"refresh"}, ids : SUBSET Issues]
             \cup [op : {"move"}, issue : Issues, target : States]
    /\ at \in {"done", "failed", "page", "nodes", "options", "item", "mutation"}
    /\ list \in PageInfo
    /\ queue \subseteq Node /\ answer \in Seq(Issue)
    /\ bad \in BOOLEAN
    /\ moved \in SUBSET Issues /\ left \in SUBSET Issues
    /\ held \in [Issues -> SUBSET State]
    /\ disturbances \in 0..MaxDisturbances

-----------------------------------------------------------------------------
(* Pages. *)

NotStarted == [next |-> TRUE, end |-> 0, after |-> 0, pages |-> 0]
Complete == [NotStarted EXCEPT !.next = FALSE]

\* The answers to a request for what follows a cursor: up to which rank, and
\* what the page says of the rest. A bad server repeats itself or forgets the
\* cursor; no server passes nodes over.
Page(ranks, after, top) ==
    LET Honest(k) == [upto |-> k, next |-> \E r \in ranks : r > k,
                      end |-> IF \E r \in ranks : r > k THEN k ELSE 0]
        Repeats(k, e) == [upto |-> k, next |-> TRUE, end |-> IF e <= k THEN e ELSE k]
    IN  {Honest(k) : k \in (after + 1..top) \cup {top}}
            \cup {Repeats(k, e) : k \in IF bad THEN after..top ELSE {}, e \in 0..after + 1}

After(info, page) ==
    [next |-> page.next, end |-> page.end, after |-> info.end, pages |-> info.pages + 1]

\* The walk over the connection of a call gives up.
IsStuck(info) ==
    /\ info.pages > 0 /\ info.next
    /\ \/ info.end = 0
       \/ info.end = info.after
       \/ info.pages = MaxPages

\* A nested walk gives up: its first page came with the node, and it does not
\* look at the page of its last request any more.
IsNestedStuck(info) ==
    \/ info.pages = MaxPages
    \/ info.next /\ (info.end = 0 \/ info.end = info.after)

-----------------------------------------------------------------------------
(* Connections. *)

Ranked == {place[i] : i \in Issues} \ {0}
OnBoard(i) == place[i] # 0

\* Every issue has two field values and two labels: the second field value is
\* the Status, the second label the one that may name a blocker.
Pair == {1, 2}

\* An issue's items: the one on the other board, then the one on this board.
Memberships(i) == {r \in Pair : (r = 1 /\ i \in Elsewhere) \/ (r = 2 /\ OnBoard(i))}

IsIn(r, after, page) == after < r /\ r <= page.upto

\* The first value found counts: one that was read is not replaced.
ReadStatus(node, after, page) ==
    IF IsIn(2, after, page) /\ node.state = Unset
    THEN [node EXCEPT !.state = status[node.issue]] ELSE node

ReadLabels(node, after, page) ==
    IF IsIn(2, after, page)
    THEN [node EXCEPT !.blocked = node.issue \in Labelled] ELSE node

NewNode(i, r) == [issue |-> i, rank |-> r, own |-> FALSE, state |-> Unset, blocked |-> FALSE,
                  labels |-> Complete, items |-> Complete, fields |-> Complete]

FirstOf(page) == [NotStarted EXCEPT !.next = page.next, !.end = page.end]

\* A node as a page of another connection carries it: with the first page of
\* its labels and, when it is the item on this board, of its field values.
WithLabels(node, first) ==
    [ReadLabels(node, 0, first) EXCEPT !.labels = FirstOf(first)]

WithItem(node, first) ==
    [ReadStatus(node, 0, first) EXCEPT !.own = TRUE, !.fields = FirstOf(first)]

ListedNode(i, first) == WithItem(WithLabels(NewNode(i, place[i]), first), first)

\* Mutant: takes the item on any board.
ReadAnyItem(node, after, page, first) ==
    IF IsIn(1, after, page) /\ node.issue \in Elsewhere
    THEN [node EXCEPT !.own = TRUE, !.state = away[node.issue]]
    ELSE IF IsIn(2, after, page) /\ OnBoard(node.issue) THEN WithItem(node, first) ELSE node

\* Items of other projects are not retained.
ReadItems(node, after, page, first) ==
    IF IsIn(2, after, page) /\ OnBoard(node.issue) THEN WithItem(node, first) ELSE node

RefreshedNode(i, page, first) ==
    [ReadItems(WithLabels(NewNode(i, 0), first), 0, page, first) EXCEPT !.items = FirstOf(page)]

-----------------------------------------------------------------------------
(* How a call ends. *)

Idle == at \in {"done", "failed"}

\* An error ends the call and what it has read is dropped.
Fail ==
    /\ at' = "failed" /\ answer' = <<>> /\ queue' = {} /\ list' = Complete
    /\ UNCHANGED <<board, call, bad, history>>

\* Transport, status, size and GraphQL errors, and malformed answers.
RequestFails ==
    /\ ~Idle
    /\ disturbances < MaxDisturbances
    /\ disturbances' = disturbances + 1
    /\ Fail

Read == UNCHANGED <<board, call, bad, history, disturbances>>

\* Mutant: the call returns what it has read before it gave up.
ReturnsPart ==
    /\ at \in {"page", "options", "item"} /\ IsStuck(list)
    /\ at' = "done" /\ UNCHANGED <<list, queue, answer>> /\ Read

GiveUp ==
    /\ at \in {"page", "options", "item"} /\ IsStuck(list)
    /\ Fail /\ UNCHANGED disturbances

-----------------------------------------------------------------------------
(* Listing and refreshing. *)

ListPage ==
    /\ at = "page" /\ call.op = "list" /\ ~IsStuck(list)
    /\ \E page \in Page(Ranked, list.end, MaxRank), first \in Page(Pair, 0, 2) :
          /\ list' = After(list, page)
          /\ queue' = {ListedNode(i, first) : i \in {j \in Issues : IsIn(place[j], list.end, page)}}
    /\ at' = "nodes"
    /\ UNCHANGED answer /\ Read

\* One request names all the issues.
RefreshNodes ==
    /\ at = "page" /\ call.op = "refresh"
    /\ \E page \in Page(Pair, 0, 2), first \in Page(Pair, 0, 2) :
          queue' = {RefreshedNode(i, page, first) : i \in call.ids}
    /\ at' = "nodes"
    /\ UNCHANGED <<list, answer>> /\ Read

EndOfPage ==
    /\ at = "nodes" /\ queue = {}
    /\ at' = IF call.op = "list" /\ list.next THEN "page" ELSE "done"
    /\ UNCHANGED <<list, queue, answer>> /\ Read

\* Nodes are completed one after the other, in the order of the page.
Current == CHOOSE n \in queue : \A m \in queue : ~(m.rank < n.rank)

InNode == at = "nodes" /\ queue # {} /\ Current \in queue

\* Listing completes the field values first and then the labels, refreshing
\* the labels, the items and, of an item on this board, the field values.
LabelsDue == call.op = "refresh" \/ ~Current.fields.next
ItemsDue == call.op = "refresh" /\ ~Current.labels.next
FieldsDue == call.op = "list" \/ (Current.own /\ ~Current.labels.next /\ ~Current.items.next)

Walk(info, due) ==
    /\ InNode /\ due
    /\ info.next /\ ~IsNestedStuck(info)
    /\ UNCHANGED <<at, list, answer>> /\ Read

Replace(n) == queue' = (queue \ {Current}) \cup {n}

WalkLabels ==
    /\ Walk(Current.labels, LabelsDue)
    /\ \E page \in Page(Pair, Current.labels.end, 2) :
          Replace([ReadLabels(Current, Current.labels.end, page) EXCEPT !.labels = After(@, page)])

WalkItems ==
    /\ Walk(Current.items, ItemsDue)
    /\ \E page \in Page(Memberships(Current.issue), Current.items.end, 2), first \in Page(Pair, 0, 2) :
          Replace([ReadItems(Current, Current.items.end, page, first) EXCEPT !.items = After(@, page)])

WalkFields ==
    /\ Walk(Current.fields, FieldsDue)
    /\ \E page \in Page(Pair, Current.fields.end, 2) :
          Replace([ReadStatus(Current, Current.fields.end, page) EXCEPT !.fields = After(@, page)])

IsWalkStuck ==
    \/ IsNestedStuck(Current.labels) /\ LabelsDue
    \/ IsNestedStuck(Current.items) /\ ItemsDue
    \/ IsNestedStuck(Current.fields) /\ FieldsDue

GiveUpNested == InNode /\ IsWalkStuck /\ Fail /\ UNCHANGED disturbances

\* Mutant: looks at the first page of the items only.
IsReadWithoutItems == ~Current.labels.next /\ (Current.own => ~Current.fields.next)

IsRead == ~Current.labels.next /\ ~Current.items.next /\ (Current.own => ~Current.fields.next)

IsSkipped == IF call.op = "list" THEN Current.issue \in Foreign ELSE ~Current.own

IsFiltered == call.op = "list" /\ Current.state \notin call.states

\* A node without a state fails the whole call.
Normalize ==
    /\ InNode /\ IsRead /\ ~IsWalkStuck
    /\ \/ ~IsSkipped /\ Current.state = Unset /\ Fail /\ UNCHANGED disturbances
       \/ /\ IsSkipped \/ Current.state # Unset
          /\ queue' = queue \ {Current}
          /\ answer' = IF IsSkipped \/ IsFiltered THEN answer
                       ELSE Append(answer, [issue |-> Current.issue, state |-> Current.state,
                                            blocked |-> Current.blocked])
          /\ UNCHANGED <<at, list>> /\ Read

-----------------------------------------------------------------------------
(* Moving: the Status field and its option, the issue's item, the mutation. *)

Step(where) == at' = where /\ UNCHANGED <<queue, answer>> /\ Read

\* The Status field is the second of the board's fields.
FindOption ==
    /\ at = "options" /\ ~IsStuck(list)
    /\ \E page \in Page(Pair, list.end, 2) :
          LET found == IsIn(2, list.end, page)
          IN  \/ found /\ list' = NotStarted /\ Step("item")
              \/ ~found /\ page.next /\ list' = After(list, page) /\ Step("options")
              \/ ~found /\ ~page.next /\ Fail /\ UNCHANGED disturbances

\* Mutant: an item of any project will do.
IsAnyItem(r) == TRUE

IsOwnItem(r) == r = 2

\* The first item of the project is taken; without one the call fails.
FindItem ==
    /\ at = "item" /\ ~IsStuck(list)
    /\ \E page \in Page(Memberships(call.issue), list.end, 2) :
          LET found == {r \in Memberships(call.issue) : IsIn(r, list.end, page) /\ IsOwnItem(r)}
          IN  \/ \E r \in found : list' = [Complete EXCEPT !.after = r] /\ Step("mutation")
              \/ found = {} /\ page.next /\ list' = After(list, page) /\ Step("item")
              \/ found = {} /\ ~page.next /\ Fail /\ UNCHANGED disturbances

SetStatus(i, s) ==
    /\ status' = [status EXCEPT ![i] = s]
    /\ held' = [held EXCEPT ![i] = @ \cup {s}]

\* The answer to a mutation that was applied may be lost. An item that has left
\* the board meanwhile is an error.
Mutate ==
    LET i == call.issue
    IN  /\ at = "mutation"
        /\ \/ /\ list.after = 2 /\ OnBoard(i) /\ SetStatus(i, call.target)
              /\ UNCHANGED <<place, away, moved, left>>
              /\ \/ at' = "done" /\ UNCHANGED disturbances
                 \/ /\ disturbances < MaxDisturbances
                    /\ at' = "failed" /\ disturbances' = disturbances + 1
           \/ /\ list.after = 1 /\ away' = [away EXCEPT ![i] = call.target]
              /\ at' = "done" /\ UNCHANGED <<place, status, history, disturbances>>
           \/ /\ list.after = 2 /\ ~OnBoard(i)
              /\ at' = "failed" /\ UNCHANGED <<board, history, disturbances>>
        /\ UNCHANGED <<call, list, queue, answer, bad>>

-----------------------------------------------------------------------------
(* People and agents change the board. *)

Change ==
    /\ ~Idle
    /\ disturbances < MaxDisturbances
    /\ disturbances' = disturbances + 1
    /\ UNCHANGED <<client, bad, away>>

MoveByOthers(i, s) ==
    Change /\ SetStatus(i, s) /\ UNCHANGED <<place, moved, left>>

\* Adds it, removes it or drags it to another place of the board.
PlaceIssue(i, r) ==
    /\ Change
    /\ r # place[i] /\ r \notin Ranked
    /\ place' = [place EXCEPT ![i] = r]
    /\ moved' = moved \cup {i}
    /\ left' = IF r = 0 THEN left \cup {i} ELSE left
    /\ UNCHANGED <<status, held>>

-----------------------------------------------------------------------------
\* With no states and no ids the client answers by itself.
Begins ==
    \/ \E states \in SUBSET States :
           /\ call = [op |-> "list", states |-> states]
           /\ at = IF states = {} THEN "done" ELSE "page"
    \/ \E ids \in SUBSET Issues :
           /\ call = [op |-> "refresh", ids |-> ids]
           /\ at = IF ids = {} THEN "done" ELSE "page"
    \/ \E i \in Issues, s \in States :
           call = [op |-> "move", issue |-> i, target |-> s] /\ at = "options"

\* A behaviour is one call: the client keeps nothing from one to the next.
Init ==
    /\ place \in [Issues -> 0..MaxRank]
    /\ \A i, j \in Issues : i # j /\ OnBoard(i) => place[i] # place[j]
    /\ status \in [Issues -> State] /\ away \in [Elsewhere -> States]
    /\ Begins /\ call.op \in Calls
    /\ list = NotStarted /\ queue = {} /\ answer = <<>>
    /\ bad \in BOOLEAN
    /\ moved = {} /\ left = {i \in Issues : ~OnBoard(i)}
    /\ held = [i \in Issues |-> {status[i]}]
    /\ disturbances = 0

Request ==
    \/ ListPage \/ RefreshNodes \/ EndOfPage \/ GiveUp
    \/ WalkLabels \/ WalkItems \/ WalkFields \/ GiveUpNested \/ Normalize
    \/ FindOption \/ FindItem \/ Mutate

Next ==
    \/ Request \/ RequestFails
    \/ \E i \in Issues : \E s \in State : MoveByOthers(i, s)
    \/ \E i \in Issues : \E r \in 0..MaxRank : PlaceIssue(i, r)

Spec == Init /\ [][Next]_vars

\* Every request is answered or times out after thirty seconds.
FairSpec == Spec /\ WF_vars(Request)

-----------------------------------------------------------------------------
(* Properties. *)

\* The pages of a listing make up the whole board: when a listing succeeds,
\* every issue of a configured repository that stayed where it was, in one
\* wanted state, is in it, whatever others did to the board meanwhile and
\* whatever cursors the server returned. A part is never returned as the whole.
ListComplete ==
    at = "done" /\ call.op = "list" /\ call.states # {} =>
        \A i \in Issues \ Foreign : \A s \in call.states :
            OnBoard(i) /\ i \notin moved /\ held[i] = {s} =>
                \E n \in DOMAIN answer : answer[n].issue = i

\* A refresh leaves an issue out only if it was off this board at some time
\* during the call: an issue that stayed on it is never taken for one that is
\* gone, although its item is found on pages read one after the other.
AbsentOnlyIfGone ==
    at = "done" /\ call.op = "refresh" =>
        \A i \in call.ids \ left : \E n \in DOMAIN answer : answer[n].issue = i

\* What a call reports of an issue held at some time during the call, on this
\* board and not on another one, and its labels are complete: no issue is taken
\* for unblocked because its labels were not read to the end.
AnswerWasTrue ==
    \A n \in DOMAIN answer :
        /\ answer[n].state \in held[answer[n].issue]
        /\ answer[n].blocked = (answer[n].issue \in Labelled)

\* Issues that stay in their places are listed in the order of the board, also
\* across pages.
OrderKept ==
    ~bad /\ call.op = "list" =>
        \A m, n \in DOMAIN answer :
            LET i == answer[m].issue
                j == answer[n].issue
            IN  m < n /\ {i, j} \cap moved = {} => place[i] < place[j]

\* A move touches the item on the configured board only, and a move that is
\* reported as done took place.
MovesOwnItem ==
    [][/\ away' = away
       /\ at = "mutation" /\ at' = "done" => status'[call.issue] = call.target]_vars

\* Every call ends, although a server may return cursors that lead in circles.
CallsEnd == ~Idle ~> Idle
=============================================================================

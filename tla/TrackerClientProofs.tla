------------------------ MODULE TrackerClientProofs ------------------------
(***************************************************************************)
(* For every board, every server that fails or breaks its cursors, and     *)
(* whatever people do meanwhile: a listing that succeeds is complete, what *)
(* a call reports was true, a refresh leaves out only what was gone, a     *)
(* move touches the item on the configured board, and a listing keeps to   *)
(* the order of the board.                                                 *)
(***************************************************************************)
EXTENDS TrackerClient, SequenceTheorems, WellFoundedInduction, TLAPS

\* What the history of an issue says of its present.
HistoryKept ==
    \A i \in Issues : status[i] \in held[i] /\ (~OnBoard(i) => i \in left)

\* Where a call may be, and that a walk that is asked for a page is not at its end.
CallSteps ==
    /\ call.op = "move" => at \in {"options", "item", "mutation", "done", "failed"}
    /\ call.op # "move" => at \in {"page", "nodes", "done", "failed"}
    /\ at \in {"page", "options", "item"} => list.next
    /\ at # "nodes" => queue = {}
    /\ at = "mutation" => list.after = 2
    /\ at = "done" /\ call.op = "list" /\ call.states # {} => ~list.next

\* A walk that is over, or whose cursor has passed the second element, has read it.
Passed(info) == ~info.next \/ info.end >= 2

\* The state of a node was read and not made up, its labels count once they are read,
\* and an issue that stays on the board is found among its items.
NodeTrue(n) ==
    /\ n.state = Unset \/ n.state \in held[n.issue]
    /\ Passed(n.labels) => n.blocked = (n.issue \in Labelled)
    /\ call.op = "refresh" /\ n.issue \notin left /\ Passed(n.items) => n.own

NodesTrue == \A n \in queue : NodeTrue(n)

Accounted(i) ==
    \/ \E n \in DOMAIN answer : answer[n].issue = i
    \/ \E n \in queue : n.issue = i

Stays(i, s) == OnBoard(i) /\ i \notin moved /\ held[i] = {s}

\* What lies before the cursor of a listing has been read.
ListedSoFar ==
    call.op = "list" /\ at \in {"page", "nodes", "done"} =>
        \A i \in Issues \ Foreign : \A s \in call.states :
            Stays(i, s) /\ (~list.next \/ place[i] <= list.end) => Accounted(i)

RefreshedSoFar ==
    call.op = "refresh" /\ at \in {"nodes", "done"} =>
        \A i \in call.ids \ left : Accounted(i)

IInv ==
    TypeOK /\ HistoryKept /\ CallSteps /\ AnswerWasTrue /\ NodesTrue /\ ListedSoFar /\ RefreshedSoFar


-----------------------------------------------------------------------------
(* Pages. *)

\* A page lies within its connection, its cursor lies within the page, and a page after
\* which nothing follows reaches to the end, also from a bad server.
LEMMA PageProps ==
  ASSUME NEW ranks \in SUBSET Nat, NEW after \in Nat, NEW top \in Nat,
         NEW page \in Page(ranks, after, top)
  PROVE  /\ page.upto \in 0..top /\ page.next \in BOOLEAN /\ page.end \in 0..top
         /\ page.end <= page.upto
         /\ ~page.next => \A r \in ranks : r <= page.upto
  <1> DEFINE Honest(k) == [upto |-> k, next |-> \E r \in ranks : r > k,
                           end |-> IF \E r \in ranks : r > k THEN k ELSE 0]
             Repeats(k, e) == [upto |-> k, next |-> TRUE, end |-> IF e <= k THEN e ELSE k]
  <1>1. CASE \E k \in (after + 1..top) \cup {top} : page = Honest(k)
    <2>1. PICK k \in (after + 1..top) \cup {top} : page = Honest(k)
      BY <1>1
    <2>2. k \in 0..top
      OBVIOUS
    <2>3. page.upto = k /\ page.next = (\E r \in ranks : r > k)
          /\ page.end = IF \E r \in ranks : r > k THEN k ELSE 0
      BY <2>1
    <2>4. ~page.next => \A r \in ranks : r <= k
      BY <2>2, <2>3
    <2>5. page.end \in {0, k}
      BY <2>3
    <2>6. page.next \in BOOLEAN
      BY <2>3
    <2>7. QED
      BY <2>2, <2>3, <2>4, <2>5, <2>6
  <1>2. CASE \E k \in after..top, e \in 0..after + 1 : page = Repeats(k, e)
    <2>1. PICK k \in after..top, e \in 0..after + 1 : page = Repeats(k, e)
      BY <1>2
    <2>2. page.upto = k /\ page.next = TRUE /\ page.end = IF e <= k THEN e ELSE k
      BY <2>1
    <2>3. k \in 0..top /\ e \in Nat
      OBVIOUS
    <2>4. page.end \in 0..top /\ page.end <= k
      BY <2>2, <2>3
    <2>5. QED
      BY <2>2, <2>3, <2>4
  <1>3. QED
    BY <1>1, <1>2 DEF Page

Pairs == Page(Pair, 0, 2)

LEMMA TypeFacts ==
  /\ MaxRank \in Nat \ {0} /\ MaxPages \in Nat \ {0} /\ MaxDisturbances \in Nat
  /\ Pair \in SUBSET Nat /\ 2 \in Pair /\ 2 \in Nat /\ 0 \in Nat /\ 2 <= MaxRank + 2
  /\ Unset \notin States /\ State = States \cup {Unset}
  /\ NotStarted \in PageInfo /\ Complete \in PageInfo
  /\ NotStarted.next = TRUE /\ NotStarted.end = 0 /\ NotStarted.pages = 0
  /\ Complete.next = FALSE /\ Complete.end = 0
  <1>1. MaxRank \in Nat \ {0} /\ MaxPages \in Nat \ {0} /\ MaxDisturbances \in Nat
        /\ Unset \notin States /\ State = States \cup {Unset}
    BY TrackerAssumption DEF State
  <1>2. Pair \in SUBSET Nat /\ 2 \in Pair /\ 2 \in Nat /\ 0 \in Nat /\ 2 <= MaxRank + 2
    BY <1>1 DEF Pair
  <1>3. NotStarted = [next |-> TRUE, end |-> 0, after |-> 0, pages |-> 0]
    BY DEF NotStarted
  <1>4. 0 \in 0..MaxRank + 2 /\ 0 \in 0..MaxPages
    BY <1>1
  <1>5. NotStarted \in PageInfo
    BY <1>3, <1>4 DEF PageInfo
  <1>6. Complete \in PageInfo /\ Complete.next = FALSE /\ Complete.end = 0
    BY <1>3, <1>5 DEF Complete, PageInfo
  <1>7. QED
    BY <1>1, <1>2, <1>3, <1>5, <1>6

LEMMA RankedTypes ==
  ASSUME TypeOK
  PROVE  Ranked \in SUBSET Nat /\ \A i \in Issues : Memberships(i) \in SUBSET Nat
  BY TypeFacts DEF TypeOK, Ranked, Memberships, Pair

\* One more page of a walk that has not used up its pages.
LEMMA AfterTypes ==
  ASSUME NEW info \in PageInfo, info.pages < MaxPages, NEW ranks \in SUBSET Nat,
         NEW top \in Nat, top <= MaxRank + 2, NEW page \in Page(ranks, info.end, top)
  PROVE  /\ After(info, page) \in PageInfo
         /\ After(info, page).next = page.next /\ After(info, page).end = page.end
  <1>1. /\ info.end \in 0..MaxRank + 2 /\ info.pages \in 0..MaxPages
        /\ MaxRank \in Nat /\ MaxPages \in Nat
    BY TypeFacts DEF PageInfo
  <1>2. page.next \in BOOLEAN /\ page.end \in 0..top
    BY <1>1, PageProps
  <1>3. page.end \in 0..MaxRank + 2 /\ info.pages + 1 \in 0..MaxPages
    BY <1>1, <1>2
  <1>4. QED
    BY <1>1, <1>2, <1>3 DEF After, PageInfo

LEMMA FirstTypes ==
  ASSUME NEW ranks \in SUBSET Nat, NEW page \in Page(ranks, 0, 2)
  PROVE  /\ FirstOf(page) \in PageInfo
         /\ FirstOf(page).next = page.next /\ FirstOf(page).end = page.end
  <1>1. page.next \in BOOLEAN /\ page.end \in 0..2
    BY TypeFacts, PageProps
  <1>2. page.end \in 0..MaxRank + 2
    BY <1>1, TypeFacts
  <1>3. QED
    BY <1>1, <1>2, TypeFacts DEF FirstOf, NotStarted, PageInfo

\* A page that brings a walk past the second element has that element in it.
LEMMA PageReads ==
  ASSUME NEW ranks \in SUBSET Nat, 2 \in ranks, NEW after \in Nat, after < 2,
         NEW page \in Page(ranks, after, 2), ~page.next \/ page.end >= 2
  PROVE  IsIn(2, after, page)
  BY TypeFacts, PageProps DEF IsIn


-----------------------------------------------------------------------------
(* Nodes. *)

LEMMA NodeFields ==
  ASSUME NEW n \in Node
  PROVE  /\ n.issue \in Issues /\ n.rank \in 0..MaxRank /\ n.own \in BOOLEAN
         /\ n.state \in State /\ n.blocked \in BOOLEAN
         /\ n.labels \in PageInfo /\ n.items \in PageInfo /\ n.fields \in PageInfo
  BY DEF Node

\* A node whose labels are read further.
LEMMA ReadLabelsGives ==
  ASSUME NEW n \in Node, NEW after, NEW page, NEW info \in PageInfo
  PROVE  LET m == [ReadLabels(n, after, page) EXCEPT !.labels = info]
         IN  /\ m \in Node
             /\ m.issue = n.issue /\ m.rank = n.rank /\ m.own = n.own /\ m.state = n.state
             /\ m.items = n.items /\ m.fields = n.fields /\ m.labels = info
             /\ IsIn(2, after, page) => m.blocked = (n.issue \in Labelled)
             /\ ~IsIn(2, after, page) => m.blocked = n.blocked
  <1>1. CASE IsIn(2, after, page)
    <2>1. ReadLabels(n, after, page) = [n EXCEPT !.blocked = n.issue \in Labelled]
      BY <1>1 DEF ReadLabels
    <2>2. (n.issue \in Labelled) \in BOOLEAN
      OBVIOUS
    <2>3. QED
      BY <1>1, <2>1, <2>2 DEF Node
  <1>2. CASE ~IsIn(2, after, page)
    <2>1. ReadLabels(n, after, page) = n
      BY <1>2 DEF ReadLabels
    <2>2. QED
      BY <1>2, <2>1 DEF Node
  <1>3. QED
    BY <1>1, <1>2

LEMMA ReadStatusGives ==
  ASSUME TypeOK, NEW n \in Node, NEW after, NEW page, NEW info \in PageInfo
  PROVE  LET m == [ReadStatus(n, after, page) EXCEPT !.fields = info]
         IN  /\ m \in Node
             /\ m.issue = n.issue /\ m.rank = n.rank /\ m.own = n.own /\ m.blocked = n.blocked
             /\ m.items = n.items /\ m.labels = n.labels /\ m.fields = info
             /\ m.state \in {n.state, status[n.issue]}
  <1>1. CASE IsIn(2, after, page) /\ n.state = Unset
    <2>1. ReadStatus(n, after, page) = [n EXCEPT !.state = status[n.issue]]
      BY <1>1 DEF ReadStatus
    <2>2. status[n.issue] \in State
      BY NodeFields DEF TypeOK
    <2>3. QED
      BY <2>1, <2>2 DEF Node
  <1>2. CASE ~(IsIn(2, after, page) /\ n.state = Unset)
    <2>1. ReadStatus(n, after, page) = n
      BY <1>2 DEF ReadStatus
    <2>2. QED
      BY <2>1 DEF Node
  <1>3. QED
    BY <1>1, <1>2

\* The item on this board comes with the first page of its field values.
LEMMA WithItemGives ==
  ASSUME TypeOK, NEW n \in Node, NEW first \in Pairs
  PROVE  LET m == WithItem(n, first)
         IN  /\ m \in Node
             /\ m.issue = n.issue /\ m.rank = n.rank /\ m.own /\ m.blocked = n.blocked
             /\ m.items = n.items /\ m.labels = n.labels
             /\ m.state \in {n.state, status[n.issue]}
  <1> DEFINE r == ReadStatus(n, 0, first)
  <1>1. FirstOf(first) \in PageInfo
    BY FirstTypes, TypeFacts DEF Pairs
  <1>2. /\ r \in Node /\ r.issue = n.issue /\ r.rank = n.rank /\ r.blocked = n.blocked
        /\ r.items = n.items /\ r.labels = n.labels /\ r.state \in {n.state, status[n.issue]}
    <2>1. CASE IsIn(2, 0, first) /\ n.state = Unset
      <3>1. r = [n EXCEPT !.state = status[n.issue]]
        BY <2>1 DEF ReadStatus
      <3>2. status[n.issue] \in State
        BY NodeFields DEF TypeOK
      <3>3. QED
        BY <3>1, <3>2 DEF Node
    <2>2. CASE ~(IsIn(2, 0, first) /\ n.state = Unset)
      <3>1. r = n
        BY <2>2 DEF ReadStatus
      <3>2. QED
        BY <3>1
    <2>3. QED
      BY <2>1, <2>2
  <1> HIDE DEF r
  <1>3. WithItem(n, first) = [r EXCEPT !.own = TRUE, !.fields = FirstOf(first)]
    BY DEF WithItem, r
  <1>4. QED
    BY <1>1, <1>2, <1>3 DEF Node

LEMMA ReadItemsGives ==
  ASSUME TypeOK, NEW n \in Node, NEW after, NEW page, NEW first \in Pairs, NEW info \in PageInfo
  PROVE  LET m == [ReadItems(n, after, page, first) EXCEPT !.items = info]
         IN  /\ m \in Node
             /\ m.issue = n.issue /\ m.rank = n.rank /\ m.blocked = n.blocked
             /\ m.items = info /\ m.labels = n.labels
             /\ m.state \in {n.state, status[n.issue]}
             /\ n.own \/ (IsIn(2, after, page) /\ OnBoard(n.issue)) => m.own
  <1>1. CASE IsIn(2, after, page) /\ OnBoard(n.issue)
    <2> DEFINE w == WithItem(n, first)
    <2>1. ReadItems(n, after, page, first) = w
      BY <1>1 DEF ReadItems
    <2>2. /\ w \in Node /\ w.issue = n.issue /\ w.rank = n.rank /\ w.own /\ w.blocked = n.blocked
          /\ w.items = n.items /\ w.labels = n.labels /\ w.state \in {n.state, status[n.issue]}
      BY WithItemGives
    <2> HIDE DEF w
    <2>3. QED
      BY <2>1, <2>2 DEF Node
  <1>2. CASE ~(IsIn(2, after, page) /\ OnBoard(n.issue))
    <2>1. ReadItems(n, after, page, first) = n
      BY <1>2 DEF ReadItems
    <2>2. QED
      BY <1>2, <2>1 DEF Node
  <1>3. QED
    BY <1>1, <1>2


LEMMA NewNodeGives ==
  ASSUME NEW i \in Issues, NEW r \in 0..MaxRank, NEW first \in Pairs
  PROVE  LET m == WithLabels(NewNode(i, r), first)
         IN  /\ m \in Node /\ m.issue = i /\ m.state = Unset
             /\ Passed(m.labels) => m.blocked = (i \in Labelled)
  <1> DEFINE n == NewNode(i, r)
  <1>1. n \in Node /\ n.issue = i /\ n.state = Unset
    BY TypeFacts DEF NewNode, Node
  <1>2. /\ FirstOf(first) \in PageInfo
        /\ FirstOf(first).next = first.next /\ FirstOf(first).end = first.end
    BY FirstTypes, TypeFacts DEF Pairs
  <1>3. Passed(FirstOf(first)) => IsIn(2, 0, first)
    BY <1>2, TypeFacts, PageReads DEF Pairs, Passed
  <1> HIDE DEF n
  <1>4. WithLabels(n, first) = [ReadLabels(n, 0, first) EXCEPT !.labels = FirstOf(first)]
    BY DEF WithLabels
  <1>5. QED
    BY <1>1, <1>2, <1>3, <1>4, ReadLabelsGives DEF n

LEMMA ListedNodeGives ==
  ASSUME TypeOK, HistoryKept, call.op # "refresh", NEW i \in Issues, NEW first \in Pairs
  PROVE  /\ ListedNode(i, first) \in Node /\ ListedNode(i, first).issue = i
         /\ NodeTrue(ListedNode(i, first))
  <1> DEFINE n == WithLabels(NewNode(i, place[i]), first)
  <1>1. place[i] \in 0..MaxRank
    BY DEF TypeOK
  <1>2. /\ n \in Node /\ n.issue = i /\ n.state = Unset
        /\ Passed(n.labels) => n.blocked = (i \in Labelled)
    <2>1. LET m == WithLabels(NewNode(i, place[i]), first)
          IN  /\ m \in Node /\ m.issue = i /\ m.state = Unset
              /\ Passed(m.labels) => m.blocked = (i \in Labelled)
      <3> HIDE DEF n
      <3>1. QED
        BY <1>1, NewNodeGives
    <2>2. QED
      BY <2>1
  <1>3. ListedNode(i, first) = WithItem(n, first)
    BY DEF ListedNode
  <1> HIDE DEF n
  <1>4. QED
    BY <1>2, <1>3, WithItemGives DEF NodeTrue, HistoryKept

LEMMA RefreshedNodeGives ==
  ASSUME TypeOK, HistoryKept, NEW i \in Issues, NEW page \in Pairs, NEW first \in Pairs
  PROVE  /\ RefreshedNode(i, page, first) \in Node /\ RefreshedNode(i, page, first).issue = i
         /\ NodeTrue(RefreshedNode(i, page, first))
  <1> DEFINE n == WithLabels(NewNode(i, 0), first)
             m == [ReadItems(n, 0, page, first) EXCEPT !.items = FirstOf(page)]
  <1>1. /\ n \in Node /\ n.issue = i /\ n.state = Unset
        /\ Passed(n.labels) => n.blocked = (i \in Labelled)
    <2>1. 0 \in 0..MaxRank
      BY TypeFacts
    <2>2. LET k == WithLabels(NewNode(i, 0), first)
          IN  /\ k \in Node /\ k.issue = i /\ k.state = Unset
              /\ Passed(k.labels) => k.blocked = (i \in Labelled)
      <3> HIDE DEF n
      <3>1. QED
        BY <2>1, NewNodeGives
    <2>3. QED
      BY <2>2
  <1>2. RefreshedNode(i, page, first) = m
    BY DEF RefreshedNode
  <1> HIDE DEF n
  <1>3. /\ FirstOf(page) \in PageInfo
        /\ FirstOf(page).next = page.next /\ FirstOf(page).end = page.end
    BY FirstTypes, TypeFacts DEF Pairs
  <1>4. Passed(FirstOf(page)) => IsIn(2, 0, page)
    BY <1>3, TypeFacts, PageReads DEF Pairs, Passed
  <1>5. /\ m \in Node /\ m.issue = i /\ m.blocked = n.blocked
        /\ m.items = FirstOf(page) /\ m.labels = n.labels /\ m.state \in {Unset, status[i]}
        /\ IsIn(2, 0, page) /\ OnBoard(i) => m.own
    BY <1>1, <1>3, ReadItemsGives
  <1> HIDE DEF m
  <1>6. i \notin left => OnBoard(i)
    BY DEF HistoryKept
  <1>7. QED
    BY <1>1, <1>2, <1>4, <1>5, <1>6 DEF NodeTrue, HistoryKept

\* What is true of a node stays true when its labels, items or field values are read on.
LEMMA LabelsStayTrue ==
  ASSUME NEW n \in Node, NodeTrue(n), n.labels.next, n.labels.pages < MaxPages,
         NEW page \in Page(Pair, n.labels.end, 2)
  PROVE  LET m == [ReadLabels(n, n.labels.end, page) EXCEPT !.labels = After(@, page)]
         IN  m \in Node /\ m.issue = n.issue /\ NodeTrue(m)
  <1> DEFINE m == [ReadLabels(n, n.labels.end, page) EXCEPT !.labels = After(n.labels, page)]
  <1>1. ReadLabels(n, n.labels.end, page).labels = n.labels
    BY DEF ReadLabels, Node
  <1>2. [ReadLabels(n, n.labels.end, page) EXCEPT !.labels = After(@, page)] = m
    BY <1>1
  <1>3. n.labels \in PageInfo /\ n.labels.end \in Nat
    BY NodeFields DEF PageInfo
  <1>4. /\ After(n.labels, page) \in PageInfo
        /\ After(n.labels, page).next = page.next /\ After(n.labels, page).end = page.end
    BY <1>3, TypeFacts, AfterTypes
  <1>5. ~Passed(n.labels) /\ Passed(After(n.labels, page)) => IsIn(2, n.labels.end, page)
    BY <1>3, <1>4, TypeFacts, PageReads DEF Passed
  <1>6. /\ m \in Node /\ m.issue = n.issue /\ m.own = n.own /\ m.state = n.state
        /\ m.items = n.items /\ m.labels = After(n.labels, page)
        /\ IsIn(2, n.labels.end, page) => m.blocked = (n.issue \in Labelled)
        /\ ~IsIn(2, n.labels.end, page) => m.blocked = n.blocked
    BY <1>4, ReadLabelsGives
  <1> HIDE DEF m
  <1>7. QED
    BY <1>2, <1>5, <1>6 DEF NodeTrue

LEMMA ItemsStayTrue ==
  ASSUME TypeOK, HistoryKept, NEW n \in Node, NodeTrue(n), n.items.next, n.items.pages < MaxPages,
         NEW page \in Page(Memberships(n.issue), n.items.end, 2), NEW first \in Pairs
  PROVE  LET m == [ReadItems(n, n.items.end, page, first) EXCEPT !.items = After(@, page)]
         IN  m \in Node /\ m.issue = n.issue /\ NodeTrue(m)
  <1> DEFINE m == [ReadItems(n, n.items.end, page, first) EXCEPT !.items = After(n.items, page)]
  <1>1. ReadItems(n, n.items.end, page, first).items = n.items
    BY WithItemGives DEF ReadItems
  <1>2. [ReadItems(n, n.items.end, page, first) EXCEPT !.items = After(@, page)] = m
    BY <1>1
  <1>3. n.items \in PageInfo /\ n.items.end \in Nat /\ n.issue \in Issues
    BY NodeFields DEF PageInfo
  <1>4. Memberships(n.issue) \in SUBSET Nat
    BY <1>3, RankedTypes
  <1>5. /\ After(n.items, page) \in PageInfo
        /\ After(n.items, page).next = page.next /\ After(n.items, page).end = page.end
    <2>1. MaxRank \in Nat /\ 2 \in Nat /\ 2 <= MaxRank + 2
      BY TypeFacts
    <2>2. n.items \in PageInfo /\ n.items.pages < MaxPages
      BY <1>3
    <2>3. QED
      BY <1>4, <2>1, <2>2, AfterTypes
  <1>6. ASSUME OnBoard(n.issue), ~Passed(n.items), Passed(After(n.items, page))
        PROVE  IsIn(2, n.items.end, page)
    <2>1. 2 \in Memberships(n.issue)
      BY <1>6 DEF Memberships, Pair
    <2>2. QED
      BY <1>3, <1>4, <1>5, <1>6, <2>1, PageReads DEF Passed
  <1>7. /\ m \in Node /\ m.issue = n.issue /\ m.blocked = n.blocked
        /\ m.items = After(n.items, page) /\ m.labels = n.labels
        /\ m.state \in {n.state, status[n.issue]}
        /\ n.own \/ (IsIn(2, n.items.end, page) /\ OnBoard(n.issue)) => m.own
    BY <1>5, ReadItemsGives
  <1> HIDE DEF m
  <1>8. n.issue \notin left => OnBoard(n.issue)
    BY <1>3 DEF HistoryKept
  <1>9. status[n.issue] \in held[n.issue]
    BY <1>3 DEF HistoryKept
  <1>10. QED
    BY <1>2, <1>6, <1>7, <1>8, <1>9 DEF NodeTrue

LEMMA FieldsStayTrue ==
  ASSUME TypeOK, HistoryKept, NEW n \in Node, NodeTrue(n), n.fields.pages < MaxPages,
         NEW page \in Page(Pair, n.fields.end, 2)
  PROVE  LET m == [ReadStatus(n, n.fields.end, page) EXCEPT !.fields = After(@, page)]
         IN  m \in Node /\ m.issue = n.issue /\ NodeTrue(m)
  <1> DEFINE m == [ReadStatus(n, n.fields.end, page) EXCEPT !.fields = After(n.fields, page)]
  <1>1. ReadStatus(n, n.fields.end, page).fields = n.fields
    BY DEF ReadStatus, Node
  <1>2. [ReadStatus(n, n.fields.end, page) EXCEPT !.fields = After(@, page)] = m
    BY <1>1
  <1>3. n.fields \in PageInfo /\ n.issue \in Issues
    BY NodeFields
  <1>4. After(n.fields, page) \in PageInfo
    BY <1>3, TypeFacts, AfterTypes
  <1>5. /\ m \in Node /\ m.issue = n.issue /\ m.own = n.own /\ m.blocked = n.blocked
        /\ m.items = n.items /\ m.labels = n.labels /\ m.state \in {n.state, status[n.issue]}
    BY <1>4, ReadStatusGives
  <1> HIDE DEF m
  <1>6. status[n.issue] \in held[n.issue]
    BY <1>3 DEF HistoryKept
  <1>7. QED
    BY <1>2, <1>5, <1>6 DEF NodeTrue


-----------------------------------------------------------------------------
(* What steps of the client leave alone. *)

LEMMA ReadFrame ==
  ASSUME HistoryKept, Read
  PROVE  /\ place' = place /\ status' = status /\ call' = call
         /\ moved' = moved /\ left' = left /\ held' = held
         /\ HistoryKept'
         /\ \A n : NodeTrue(n) => NodeTrue(n)'
         /\ \A i, s : Stays(i, s)' => Stays(i, s)
  <1>1. /\ place' = place /\ status' = status /\ call' = call
        /\ moved' = moved /\ left' = left /\ held' = held
    BY DEF Read, board, history
  <1>2. HistoryKept'
    BY <1>1 DEF HistoryKept, OnBoard
  <1>3. \A n : NodeTrue(n) => NodeTrue(n)'
    BY <1>1 DEF NodeTrue
  <1>4. \A i, s : Stays(i, s)' => Stays(i, s)
    BY <1>1 DEF Stays, OnBoard
  <1>5. QED
    BY <1>1, <1>2, <1>3, <1>4

LEMMA ReadTypes ==
  ASSUME TypeOK, Read,
         at' \in {"done", "failed", "page", "nodes", "options", "item", "mutation"},
         list' \in PageInfo, queue' \subseteq Node, answer' \in Seq(Issue)
  PROVE  TypeOK'
  BY DEF TypeOK, Read, board, history

LEMMA TrueAnswerStays ==
  ASSUME AnswerWasTrue, answer' = answer, held' = held
  PROVE  AnswerWasTrue'
  BY DEF AnswerWasTrue

\* A call that fails promises nothing.
LEMMA FailKeeps ==
  ASSUME IInv, Fail, disturbances' \in 0..MaxDisturbances
  PROVE  IInv'
  <1>1. /\ place' = place /\ status' = status /\ away' = away /\ call' = call /\ bad' = bad
        /\ moved' = moved /\ left' = left /\ held' = held
        /\ at' = "failed" /\ answer' = <<>> /\ queue' = {} /\ list' = Complete
    BY DEF Fail, board, history
  <1>2. TypeOK'
    <2>1. answer' \in Seq(Issue) /\ list' \in PageInfo /\ queue' \subseteq Node
      BY <1>1, TypeFacts
    <2>2. QED
      BY <1>1, <2>1 DEF IInv, TypeOK
  <1>3. HistoryKept'
    BY <1>1 DEF IInv, HistoryKept, OnBoard
  <1>4. CallSteps'
    BY <1>1, TypeFacts DEF CallSteps
  <1>5. AnswerWasTrue'
    <2>1. DOMAIN answer' = {}
      BY <1>1
    <2>2. QED
      BY <2>1 DEF AnswerWasTrue
  <1>6. NodesTrue' /\ ListedSoFar' /\ RefreshedSoFar'
    BY <1>1 DEF NodesTrue, ListedSoFar, RefreshedSoFar
  <1>7. QED
    BY <1>2, <1>3, <1>4, <1>5, <1>6 DEF IInv

\* A node is replaced by one of the same issue of which as much is true.
LEMMA ReplaceKeeps ==
  ASSUME IInv, InNode, NEW m \in Node, m.issue = Current.issue, NodeTrue(m),
         Replace(m), UNCHANGED <<at, list, answer>>, Read
  PROVE  IInv'
  <1>1. /\ queue' = (queue \ {Current}) \cup {m} /\ Current \in queue
        /\ at' = at /\ list' = list /\ answer' = answer /\ at = "nodes"
    BY DEF Replace, InNode
  <1>2. /\ call' = call /\ left' = left /\ held' = held /\ place' = place
        /\ HistoryKept' /\ (\A n : NodeTrue(n) => NodeTrue(n)')
        /\ \A i, s : Stays(i, s)' => Stays(i, s)
    BY ReadFrame DEF IInv
  <1>3. TypeOK'
    <2>1. queue' \subseteq Node
      BY <1>1 DEF IInv, TypeOK
    <2>2. TypeOK
      BY DEF IInv
    <2>3. /\ at' \in {"done", "failed", "page", "nodes", "options", "item", "mutation"}
          /\ list' \in PageInfo /\ answer' \in Seq(Issue)
      BY <1>1, <2>2 DEF TypeOK
    <2>4. QED
      BY <2>1, <2>2, <2>3, ReadTypes
  <1>4. CallSteps'
    BY <1>1, <1>2 DEF IInv, CallSteps
  <1>5. AnswerWasTrue'
    BY <1>1, <1>2, TrueAnswerStays DEF IInv
  <1>6. NodesTrue'
    BY <1>1, <1>2 DEF IInv, NodesTrue
  <1>7. \A i : Accounted(i) => Accounted(i)'
    BY <1>1 DEF Accounted
  <1>8. ListedSoFar'
    BY <1>1, <1>2, <1>7 DEF IInv, ListedSoFar
  <1>9. RefreshedSoFar'
    BY <1>1, <1>2, <1>7 DEF IInv, RefreshedSoFar
  <1>10. QED
    BY <1>2, <1>3, <1>4, <1>5, <1>6, <1>8, <1>9 DEF IInv


-----------------------------------------------------------------------------
(* One lemma per request. *)

LEMMA ListPageKeeps ==
  ASSUME IInv, ListPage
  PROVE  IInv'
  <1>1. PICK page \in Page(Ranked, list.end, MaxRank), first \in Pairs :
          /\ list' = After(list, page)
          /\ queue' = {ListedNode(i, first) : i \in {j \in Issues : IsIn(place[j], list.end, page)}}
    BY DEF ListPage, Pairs
  <1>2. /\ at = "page" /\ at' = "nodes" /\ answer' = answer /\ call.op = "list"
        /\ ~IsStuck(list) /\ Read
    BY DEF ListPage
  <1>3. /\ call' = call /\ left' = left /\ held' = held /\ place' = place
        /\ HistoryKept' /\ (\A n : NodeTrue(n) => NodeTrue(n)')
        /\ \A i, s : Stays(i, s)' => Stays(i, s)
    BY <1>2, ReadFrame DEF IInv
  <1>4. /\ TypeOK /\ HistoryKept /\ list \in PageInfo /\ list.end \in Nat /\ queue = {}
        /\ list.next
    BY <1>2 DEF IInv, TypeOK, CallSteps, PageInfo
  <1>5. list.pages < MaxPages
    <2>1. list.pages \in 0..MaxPages /\ MaxPages \in Nat \ {0}
      BY <1>4, TypeFacts DEF PageInfo
    <2>2. QED
      BY <1>2, <1>4, <2>1 DEF IsStuck
  <1>6. MaxRank \in Nat /\ MaxRank <= MaxRank + 2
    BY TypeFacts
  <1>7. /\ list' \in PageInfo /\ list'.next = page.next /\ list'.end = page.end
    <2>1. Ranked \in SUBSET Nat
      BY <1>4, RankedTypes
    <2>2. QED
      BY <1>1, <1>4, <1>5, <1>6, <2>1, AfterTypes
  <1>8. /\ page.end <= page.upto /\ page.upto \in 0..MaxRank
        /\ page.end \in 0..MaxRank
        /\ ~page.next => \A r \in Ranked : r <= page.upto
    BY <1>4, <1>6, RankedTypes, PageProps
  <1>9. \A i \in Issues : /\ ListedNode(i, first) \in Node /\ ListedNode(i, first).issue = i
                          /\ NodeTrue(ListedNode(i, first))
    BY <1>2, <1>4, ListedNodeGives
  <1>10. TypeOK'
    <2>1. queue' \subseteq Node /\ answer' \in Seq(Issue)
      BY <1>1, <1>2, <1>4, <1>9 DEF TypeOK
    <2>2. QED
      BY <1>2, <1>4, <1>7, <2>1, ReadTypes
  <1>11. CallSteps'
    BY <1>2, <1>3 DEF CallSteps
  <1>12. AnswerWasTrue'
    BY <1>2, <1>3, TrueAnswerStays DEF IInv
  <1>13. NodesTrue'
    BY <1>1, <1>3, <1>9 DEF NodesTrue
  <1>14. ListedSoFar'
    <2> SUFFICES ASSUME NEW i \in Issues \ Foreign, NEW s \in call.states, Stays(i, s),
                        ~page.next \/ place[i] <= page.end
                 PROVE  Accounted(i)'
      BY <1>2, <1>3, <1>7 DEF ListedSoFar
    <2>1. place[i] \in 0..MaxRank /\ place[i] \in Ranked
      BY <1>4 DEF TypeOK, Stays, OnBoard, Ranked
    <2>2. CASE place[i] <= list.end
      <3>1. \E n \in DOMAIN answer : answer[n].issue = i
        BY <1>2, <1>4, <2>2 DEF IInv, ListedSoFar, Accounted
      <3>2. QED
        BY <1>2, <3>1 DEF Accounted
    <2>3. CASE list.end < place[i]
      <3>1. place[i] <= page.upto
        BY <1>6, <1>8, <2>1
      <3>2. IsIn(place[i], list.end, page)
        BY <2>3, <3>1 DEF IsIn
      <3>3. ListedNode(i, first) \in queue'
        BY <1>1, <3>2
      <3>4. QED
        BY <1>9, <3>3 DEF Accounted
    <2>4. QED
      BY <1>4, <1>6, <2>1, <2>2, <2>3
  <1>15. RefreshedSoFar'
    BY <1>2, <1>3 DEF RefreshedSoFar
  <1>16. QED
    BY <1>3, <1>10, <1>11, <1>12, <1>13, <1>14, <1>15 DEF IInv

LEMMA RefreshNodesKeeps ==
  ASSUME IInv, RefreshNodes
  PROVE  IInv'
  <1>1. PICK page \in Pairs, first \in Pairs :
          queue' = {RefreshedNode(i, page, first) : i \in call.ids}
    BY DEF RefreshNodes, Pairs
  <1>2. /\ at = "page" /\ at' = "nodes" /\ answer' = answer /\ list' = list
        /\ call.op = "refresh" /\ Read
    BY DEF RefreshNodes
  <1>3. /\ call' = call /\ left' = left /\ held' = held /\ place' = place
        /\ HistoryKept' /\ (\A n : NodeTrue(n) => NodeTrue(n)')
    BY <1>2, ReadFrame DEF IInv
  <1>4. TypeOK /\ HistoryKept /\ call.ids \subseteq Issues
    BY <1>2 DEF IInv, TypeOK
  <1>5. \A i \in Issues : /\ RefreshedNode(i, page, first) \in Node
                          /\ RefreshedNode(i, page, first).issue = i
                          /\ NodeTrue(RefreshedNode(i, page, first))
    BY <1>4, RefreshedNodeGives
  <1>6. TypeOK'
    <2>1. queue' \subseteq Node /\ answer' \in Seq(Issue) /\ list' \in PageInfo
      BY <1>1, <1>2, <1>4, <1>5 DEF TypeOK
    <2>2. QED
      BY <1>2, <1>4, <2>1, ReadTypes
  <1>7. CallSteps'
    BY <1>2, <1>3 DEF CallSteps
  <1>8. AnswerWasTrue'
    BY <1>2, <1>3, TrueAnswerStays DEF IInv
  <1>9. NodesTrue'
    BY <1>1, <1>3, <1>4, <1>5 DEF NodesTrue
  <1>10. ListedSoFar'
    BY <1>2, <1>3 DEF ListedSoFar
  <1>11. RefreshedSoFar'
    <2>1. ASSUME NEW i \in call.ids
          PROVE  Accounted(i)'
      <3>1. RefreshedNode(i, page, first) \in queue' /\ i \in Issues
        BY <1>1, <1>4
      <3>2. QED
        BY <1>5, <3>1 DEF Accounted
    <2>2. QED
      BY <1>3, <2>1 DEF RefreshedSoFar
  <1>12. QED
    BY <1>3, <1>6, <1>7, <1>8, <1>9, <1>10, <1>11 DEF IInv

LEMMA EndOfPageKeeps ==
  ASSUME IInv, EndOfPage
  PROVE  IInv'
  <1>1. /\ at = "nodes" /\ queue = {} /\ Read
        /\ list' = list /\ queue' = queue /\ answer' = answer
        /\ call.op = "list" /\ list.next => at' = "page"
        /\ ~(call.op = "list" /\ list.next) => at' = "done"
    BY DEF EndOfPage
  <1>2. /\ call' = call /\ left' = left /\ held' = held /\ place' = place
        /\ HistoryKept' /\ (\A n : NodeTrue(n) => NodeTrue(n)')
        /\ \A i, s : Stays(i, s)' => Stays(i, s)
    BY <1>1, ReadFrame DEF IInv
  <1>3. at' \in {"page", "done"} /\ TypeOK
    BY <1>1 DEF IInv
  <1>4. TypeOK'
    <2>1. queue' \subseteq Node /\ answer' \in Seq(Issue) /\ list' \in PageInfo
      BY <1>1, <1>3 DEF TypeOK
    <2>2. QED
      BY <1>1, <1>3, <2>1, ReadTypes
  <1>5. CallSteps'
    BY <1>1, <1>2, <1>3 DEF IInv, CallSteps
  <1>6. AnswerWasTrue'
    BY <1>1, <1>2, TrueAnswerStays DEF IInv
  <1>7. NodesTrue'
    BY <1>1 DEF NodesTrue
  <1>8. \A i : Accounted(i) => Accounted(i)'
    BY <1>1 DEF Accounted
  <1>9. ListedSoFar'
    BY <1>1, <1>2, <1>8 DEF IInv, ListedSoFar
  <1>10. RefreshedSoFar'
    BY <1>1, <1>2, <1>8 DEF IInv, RefreshedSoFar
  <1>11. QED
    BY <1>2, <1>4, <1>5, <1>6, <1>7, <1>9, <1>10 DEF IInv

LEMMA GiveUpKeeps ==
  ASSUME IInv, GiveUp \/ GiveUpNested
  PROVE  IInv'
  <1>1. Fail /\ disturbances' = disturbances
    BY DEF GiveUp, GiveUpNested
  <1>2. disturbances' \in 0..MaxDisturbances
    BY <1>1 DEF IInv, TypeOK
  <1>3. QED
    BY <1>1, <1>2, FailKeeps

LEMMA RequestFailsKeeps ==
  ASSUME IInv, RequestFails
  PROVE  IInv'
  <1>1. Fail /\ disturbances' = disturbances + 1 /\ disturbances < MaxDisturbances
    BY DEF RequestFails
  <1>2. disturbances \in 0..MaxDisturbances /\ MaxDisturbances \in Nat
    BY TypeFacts DEF IInv, TypeOK
  <1>3. disturbances' \in 0..MaxDisturbances
    BY <1>1, <1>2
  <1>4. QED
    BY <1>1, <1>3, FailKeeps

\* The node a walk reads on is a node of the queue, and its walk has pages left.
LEMMA InWalk ==
  ASSUME IInv, NEW info \in PageInfo, NEW due, Walk(info, due)
  PROVE  /\ InNode /\ Read /\ UNCHANGED <<at, list, answer>>
         /\ info.next /\ info.pages < MaxPages
         /\ Current \in Node /\ NodeTrue(Current) /\ TypeOK /\ HistoryKept
  <1>1. /\ InNode /\ Read /\ UNCHANGED <<at, list, answer>> /\ info.next /\ ~IsNestedStuck(info)
        /\ Current \in queue
    BY DEF Walk, InNode
  <1>2. info.pages \in 0..MaxPages /\ MaxPages \in Nat \ {0}
    BY TypeFacts DEF PageInfo
  <1>3. info.pages < MaxPages
    BY <1>1, <1>2 DEF IsNestedStuck
  <1>4. Current \in Node /\ NodeTrue(Current) /\ TypeOK /\ HistoryKept
    BY <1>1 DEF IInv, TypeOK, NodesTrue
  <1>5. QED
    BY <1>1, <1>3, <1>4

LEMMA CurrentIsNode ==
  ASSUME IInv, InNode
  PROVE  Current \in Node /\ Current.labels \in PageInfo /\ Current.items \in PageInfo
         /\ Current.fields \in PageInfo
  <1>1. Current \in Node
    BY DEF InNode, IInv, TypeOK
  <1>2. QED
    BY <1>1, NodeFields

LEMMA WalkLabelsKeeps ==
  ASSUME IInv, WalkLabels
  PROVE  IInv'
  <1> DEFINE c == Current
  <1>1. InNode /\ Walk(c.labels, LabelsDue)
    BY DEF WalkLabels, Walk
  <1>2. PICK page \in Page(Pair, c.labels.end, 2) :
          Replace([ReadLabels(c, c.labels.end, page) EXCEPT !.labels = After(@, page)])
    BY DEF WalkLabels
  <1>3. c.labels \in PageInfo
    BY <1>1, CurrentIsNode
  <1>4. /\ Read /\ UNCHANGED <<at, list, answer>> /\ c.labels.next /\ c.labels.pages < MaxPages
        /\ c \in Node /\ NodeTrue(c)
    BY <1>1, <1>3, InWalk
  <1> HIDE DEF c
  <1> DEFINE m == [ReadLabels(c, c.labels.end, page) EXCEPT !.labels = After(@, page)]
  <1>5. m \in Node /\ m.issue = c.issue /\ NodeTrue(m)
    BY <1>4, LabelsStayTrue
  <1> HIDE DEF m
  <1>6. Replace(m)
    BY <1>2 DEF m
  <1>7. QED
    BY <1>1, <1>4, <1>5, <1>6, ReplaceKeeps DEF c

LEMMA WalkItemsKeeps ==
  ASSUME IInv, WalkItems
  PROVE  IInv'
  <1> DEFINE c == Current
  <1>1. InNode /\ Walk(c.items, ItemsDue)
    BY DEF WalkItems, Walk
  <1>2. PICK page \in Page(Memberships(c.issue), c.items.end, 2), first \in Pairs :
          Replace([ReadItems(c, c.items.end, page, first) EXCEPT !.items = After(@, page)])
    BY DEF WalkItems, Pairs
  <1>3. c.items \in PageInfo
    BY <1>1, CurrentIsNode
  <1>4. /\ Read /\ UNCHANGED <<at, list, answer>> /\ c.items.next /\ c.items.pages < MaxPages
        /\ c \in Node /\ NodeTrue(c) /\ TypeOK /\ HistoryKept
    BY <1>1, <1>3, InWalk
  <1> HIDE DEF c
  <1> DEFINE m == [ReadItems(c, c.items.end, page, first) EXCEPT !.items = After(@, page)]
  <1>5. m \in Node /\ m.issue = c.issue /\ NodeTrue(m)
    BY <1>4, ItemsStayTrue
  <1> HIDE DEF m
  <1>6. Replace(m)
    BY <1>2 DEF m
  <1>7. QED
    BY <1>1, <1>4, <1>5, <1>6, ReplaceKeeps DEF c

LEMMA WalkFieldsKeeps ==
  ASSUME IInv, WalkFields
  PROVE  IInv'
  <1> DEFINE c == Current
  <1>1. InNode /\ Walk(c.fields, FieldsDue)
    BY DEF WalkFields, Walk
  <1>2. PICK page \in Page(Pair, c.fields.end, 2) :
          Replace([ReadStatus(c, c.fields.end, page) EXCEPT !.fields = After(@, page)])
    BY DEF WalkFields
  <1>3. c.fields \in PageInfo
    BY <1>1, CurrentIsNode
  <1>4. /\ Read /\ UNCHANGED <<at, list, answer>> /\ c.fields.pages < MaxPages
        /\ c \in Node /\ NodeTrue(c) /\ TypeOK /\ HistoryKept
    BY <1>1, <1>3, InWalk
  <1> HIDE DEF c
  <1> DEFINE m == [ReadStatus(c, c.fields.end, page) EXCEPT !.fields = After(@, page)]
  <1>5. m \in Node /\ m.issue = c.issue /\ NodeTrue(m)
    BY <1>4, FieldsStayTrue
  <1> HIDE DEF m
  <1>6. Replace(m)
    BY <1>2 DEF m
  <1>7. QED
    BY <1>1, <1>4, <1>5, <1>6, ReplaceKeeps DEF c

LEMMA NormalizeKeeps ==
  ASSUME IInv, Normalize
  PROVE  IInv'
  <1> DEFINE c == Current
             entry == [issue |-> c.issue, state |-> c.state, blocked |-> c.blocked]
  <1>1. InNode /\ IsRead /\ c \in queue /\ at = "nodes" /\ TypeOK /\ HistoryKept
    BY DEF Normalize, InNode, IInv
  <1>2. c \in Node /\ NodeTrue(c) /\ answer \in Seq(Issue)
    BY <1>1 DEF IInv, TypeOK, NodesTrue
  <1>3. CASE Fail /\ UNCHANGED disturbances
    <2>1. disturbances' \in 0..MaxDisturbances
      BY <1>1, <1>3 DEF TypeOK
    <2>2. QED
      BY <1>3, <2>1, FailKeeps
  <1>4. CASE /\ IsSkipped \/ c.state # Unset
             /\ queue' = queue \ {c}
             /\ answer' = IF IsSkipped \/ IsFiltered THEN answer ELSE Append(answer, entry)
             /\ UNCHANGED <<at, list>> /\ Read
    <2>1. /\ call' = call /\ left' = left /\ held' = held /\ place' = place
          /\ HistoryKept' /\ (\A n : NodeTrue(n) => NodeTrue(n)')
          /\ \A i, s : Stays(i, s)' => Stays(i, s)
      BY <1>1, <1>4, ReadFrame
    <2>2. ~(IsSkipped \/ IsFiltered) => /\ entry \in Issue /\ entry.issue = c.issue
                                         /\ entry.state \in held[c.issue]
                                         /\ entry.blocked = (c.issue \in Labelled)
      <3> SUFFICES ASSUME ~(IsSkipped \/ IsFiltered)
                   PROVE  /\ entry \in Issue /\ entry.issue = c.issue
                          /\ entry.state \in held[c.issue]
                          /\ entry.blocked = (c.issue \in Labelled)
        OBVIOUS
      <3>1. c.state # Unset /\ c.state \in States /\ c.issue \in Issues /\ c.blocked \in BOOLEAN
        BY <1>2, <1>4, NodeFields, TypeFacts
      <3>2. entry \in Issue
        BY <3>1 DEF Issue
      <3>3. c.state \in held[c.issue]
        BY <1>2, <3>1 DEF NodeTrue
      <3>4. c.blocked = (c.issue \in Labelled)
        BY <1>1, <1>2 DEF IsRead, NodeTrue, Passed
      <3>5. QED
        BY <3>2, <3>3, <3>4
    <2> HIDE DEF entry
    <2>3. \/ answer' = answer /\ (IsSkipped \/ IsFiltered)
          \/ answer' = Append(answer, entry) /\ ~(IsSkipped \/ IsFiltered)
      BY <1>4
    <2>4. TypeOK'
      <3>1. answer' \in Seq(Issue)
        BY <1>2, <2>2, <2>3
      <3>2. queue' \subseteq Node /\ list' \in PageInfo /\ at' = at
        BY <1>1, <1>4 DEF TypeOK
      <3>3. QED
        BY <1>1, <1>4, <3>1, <3>2, ReadTypes
    <2>5. CallSteps'
      BY <1>1, <1>4, <2>1 DEF IInv, CallSteps
    <2>6. AnswerWasTrue'
      <3>1. CASE answer' = answer
        BY <2>1, <3>1, TrueAnswerStays DEF IInv
      <3>2. CASE answer' = Append(answer, entry) /\ ~(IsSkipped \/ IsFiltered)
        <4> SUFFICES ASSUME NEW n \in DOMAIN answer'
                     PROVE  /\ answer'[n].state \in held[answer'[n].issue]
                            /\ answer'[n].blocked = (answer'[n].issue \in Labelled)
          BY <2>1 DEF AnswerWasTrue
        <4>1. \/ n \in DOMAIN answer /\ answer'[n] = answer[n]
              \/ answer'[n] = entry
          BY <1>2, <2>2, <3>2
        <4>2. QED
          BY <2>2, <3>2, <4>1 DEF IInv, AnswerWasTrue
      <3>3. QED
        BY <2>3, <3>1, <3>2
    <2>7. NodesTrue'
      BY <1>4, <2>1 DEF IInv, NodesTrue
    <2>8. \A i : Accounted(i) /\ ~(i = c.issue /\ (IsSkipped \/ IsFiltered)) => Accounted(i)'
      <3> SUFFICES ASSUME NEW i, Accounted(i), ~(i = c.issue /\ (IsSkipped \/ IsFiltered))
                   PROVE  Accounted(i)'
        OBVIOUS
      <3>1. \A n \in DOMAIN answer : n \in DOMAIN answer' /\ answer'[n] = answer[n]
        BY <1>2, <2>2, <2>3
      <3>2. CASE \E n \in DOMAIN answer : answer[n].issue = i
        BY <3>1, <3>2 DEF Accounted
      <3>3. CASE \E n \in queue : n.issue = i
        <4>1. CASE i = c.issue
          <5>1. answer' = Append(answer, entry) /\ entry.issue = i /\ entry \in Issue
            BY <2>2, <2>3, <4>1
          <5>2. Len(answer) + 1 \in DOMAIN answer' /\ answer'[Len(answer) + 1] = entry
            BY <1>2, <5>1
          <5>3. QED
            BY <5>1, <5>2 DEF Accounted
        <4>2. CASE i # c.issue
          BY <1>4, <3>3, <4>2 DEF Accounted
        <4>3. QED
          BY <4>1, <4>2
      <3>4. QED
        BY <3>2, <3>3 DEF Accounted
    <2>9. ListedSoFar'
      <3> SUFFICES ASSUME call.op = "list",
                          NEW i \in Issues \ Foreign, NEW s \in call.states, Stays(i, s),
                          ~list.next \/ place[i] <= list.end
                   PROVE  Accounted(i)'
        BY <1>4, <2>1 DEF ListedSoFar
      <3>1. Accounted(i)
        BY <1>1 DEF IInv, ListedSoFar
      <3>2. i = c.issue => ~(IsSkipped \/ IsFiltered)
        <4> SUFFICES ASSUME i = c.issue
                     PROVE  ~(IsSkipped \/ IsFiltered)
          OBVIOUS
        <4>1. ~IsSkipped
          BY DEF IsSkipped
        <4>2. c.state \in held[i] /\ held[i] = {s}
          BY <1>2, <1>4, <4>1 DEF NodeTrue, Stays
        <4>3. QED
          BY <4>1, <4>2 DEF IsFiltered
      <3>3. QED
        BY <2>8, <3>1, <3>2
    <2>10. RefreshedSoFar'
      <3> SUFFICES ASSUME call.op = "refresh", NEW i \in call.ids \ left
                   PROVE  Accounted(i)'
        BY <1>1, <2>1 DEF RefreshedSoFar
      <3>1. Accounted(i)
        BY <1>1 DEF IInv, RefreshedSoFar
      <3>2. i = c.issue => ~(IsSkipped \/ IsFiltered)
        <4>1. Passed(c.items)
          BY <1>1 DEF IsRead, Passed
        <4>2. QED
          BY <1>2, <4>1 DEF NodeTrue, IsSkipped, IsFiltered
      <3>3. QED
        BY <2>8, <3>1, <3>2
    <2>11. QED
      BY <2>1, <2>4, <2>5, <2>6, <2>7, <2>9, <2>10 DEF IInv
  <1>5. QED
    BY <1>3, <1>4 DEF Normalize

\* A move reads no nodes, and its answer stays empty of new entries.
LEMMA MoveKeeps ==
  ASSUME IInv, call.op = "move", at # "nodes", call' = call, TypeOK', HistoryKept',
         at' \in {"options", "item", "mutation", "done", "failed"}, UNCHANGED <<queue, answer>>,
         at' \in {"options", "item"} => list'.next, at' = "mutation" => list'.after = 2,
         \A i \in Issues : held[i] \subseteq held'[i]
  PROVE  IInv'
  <1>1. queue' = {} /\ call'.op = "move" /\ answer' = answer
    BY DEF IInv, CallSteps
  <1>2. CallSteps'
    BY <1>1 DEF CallSteps
  <1>3. AnswerWasTrue'
    <2>1. \A n \in DOMAIN answer : answer[n].issue \in Issues
      <3>1. answer \in Seq(Issue)
        BY DEF IInv, TypeOK
      <3>2. \A n \in DOMAIN answer : answer[n] \in Issue
        BY <3>1
      <3>3. QED
        BY <3>2 DEF Issue
    <2>2. QED
      BY <1>1, <2>1 DEF IInv, AnswerWasTrue
  <1>4. NodesTrue' /\ ListedSoFar' /\ RefreshedSoFar'
    BY <1>1 DEF NodesTrue, ListedSoFar, RefreshedSoFar
  <1>5. QED
    BY <1>2, <1>3, <1>4 DEF IInv

LEMMA FindOptionKeeps ==
  ASSUME IInv, FindOption
  PROVE  IInv'
  <1>1. at = "options" /\ call.op = "move" /\ TypeOK /\ HistoryKept /\ list \in PageInfo /\ list.next
    BY DEF FindOption, IInv, CallSteps, TypeOK
  <1>2. CASE Fail /\ UNCHANGED disturbances
    <2>1. disturbances' \in 0..MaxDisturbances
      BY <1>1, <1>2 DEF TypeOK
    <2>2. QED
      BY <1>2, <2>1, FailKeeps
  <1>3. ASSUME NEW where \in {"options", "item"}, Step(where), list' \in PageInfo, list'.next
        PROVE  IInv'
    <2>1. at' = where /\ queue' = queue /\ answer' = answer /\ Read
      BY <1>3 DEF Step
    <2>2. call' = call /\ held' = held /\ HistoryKept'
      BY <1>1, <2>1, ReadFrame
    <2>3. TypeOK'
      <3>1. queue' \subseteq Node /\ answer' \in Seq(Issue)
        BY <1>1, <2>1 DEF TypeOK
      <3>2. QED
        BY <1>1, <1>3, <2>1, <3>1, ReadTypes
    <2>4. QED
      BY <1>1, <1>3, <2>1, <2>2, <2>3, MoveKeeps
  <1>4. CASE list' = NotStarted /\ Step("item")
    BY <1>3, <1>4, TypeFacts
  <1>5. ASSUME NEW page \in Page(Pair, list.end, 2), page.next, list' = After(list, page),
               Step("options")
        PROVE  IInv'
    <2>1. list.pages < MaxPages
      <3>1. list.pages \in 0..MaxPages /\ MaxPages \in Nat \ {0}
        BY <1>1, TypeFacts DEF PageInfo
      <3>2. ~IsStuck(list)
        BY DEF FindOption
      <3>3. QED
        BY <1>1, <3>1, <3>2 DEF IsStuck
    <2>2. list' \in PageInfo /\ list'.next
      <3>1. MaxRank \in Nat /\ 2 \in Nat /\ 2 <= MaxRank + 2 /\ Pair \in SUBSET Nat
        BY TypeFacts
      <3>2. QED
        BY <1>1, <1>5, <2>1, <3>1, AfterTypes
    <2>3. QED
      BY <1>3, <1>5, <2>2
  <1>6. QED
    BY <1>2, <1>4, <1>5 DEF FindOption

LEMMA FindItemKeeps ==
  ASSUME IInv, FindItem
  PROVE  IInv'
  <1>1. at = "item" /\ call.op = "move" /\ TypeOK /\ HistoryKept /\ list \in PageInfo /\ list.next
        /\ call.issue \in Issues
    BY DEF FindItem, IInv, CallSteps, TypeOK
  <1>2. CASE Fail /\ UNCHANGED disturbances
    <2>1. disturbances' \in 0..MaxDisturbances
      BY <1>1, <1>2 DEF TypeOK
    <2>2. QED
      BY <1>2, <2>1, FailKeeps
  <1>3. ASSUME NEW where \in {"item", "mutation"}, Step(where), list' \in PageInfo,
               where = "item" => list'.next, where = "mutation" => list'.after = 2
        PROVE  IInv'
    <2>1. at' = where /\ queue' = queue /\ answer' = answer /\ Read
      BY <1>3 DEF Step
    <2>2. call' = call /\ held' = held /\ HistoryKept'
      BY <1>1, <2>1, ReadFrame
    <2>3. TypeOK'
      <3>1. queue' \subseteq Node /\ answer' \in Seq(Issue)
        BY <1>1, <2>1 DEF TypeOK
      <3>2. QED
        BY <1>1, <1>3, <2>1, <3>1, ReadTypes
    <2>4. QED
      BY <1>1, <1>3, <2>1, <2>2, <2>3, MoveKeeps
  <1>4. ASSUME NEW r, IsOwnItem(r), list' = [Complete EXCEPT !.after = r], Step("mutation")
        PROVE  IInv'
    <2>1. r = 2 /\ 2 \in 0..MaxRank + 2
      BY <1>4, TypeFacts DEF IsOwnItem
    <2>2. list' \in PageInfo /\ list'.after = 2
      BY <1>4, <2>1, TypeFacts DEF PageInfo
    <2>3. QED
      BY <1>3, <1>4, <2>2
  <1>5. ASSUME NEW page \in Page(Memberships(call.issue), list.end, 2), page.next,
               list' = After(list, page), Step("item")
        PROVE  IInv'
    <2>1. list.pages < MaxPages
      <3>1. list.pages \in 0..MaxPages /\ MaxPages \in Nat \ {0}
        BY <1>1, TypeFacts DEF PageInfo
      <3>2. ~IsStuck(list)
        BY DEF FindItem
      <3>3. QED
        BY <1>1, <3>1, <3>2 DEF IsStuck
    <2>2. Memberships(call.issue) \in SUBSET Nat
      BY <1>1, RankedTypes
    <2>3. list' \in PageInfo /\ list'.next
      <3>1. MaxRank \in Nat /\ 2 \in Nat /\ 2 <= MaxRank + 2
        BY TypeFacts
      <3> DEFINE ranks == Memberships(call.issue)
      <3>2. ranks \in SUBSET Nat /\ page \in Page(ranks, list.end, 2)
        BY <1>5, <2>2
      <3> HIDE DEF ranks
      <3>3. After(list, page) \in PageInfo /\ After(list, page).next = page.next
        BY <1>1, <2>1, <3>1, <3>2, AfterTypes
      <3>4. QED
        BY <1>5, <3>3
    <2>4. QED
      BY <1>3, <1>5, <2>3
  <1>6. QED
    BY <1>2, <1>4, <1>5 DEF FindItem

LEMMA MutateKeeps ==
  ASSUME IInv, Mutate
  PROVE  IInv'
  <1> DEFINE i == call.issue
  <1>1. /\ at = "mutation" /\ call.op = "move" /\ list.after = 2 /\ TypeOK /\ HistoryKept
        /\ i \in Issues /\ call.target \in State
    BY TypeFacts DEF Mutate, IInv, CallSteps, TypeOK
  <1>2. call' = call /\ list' = list /\ queue' = queue /\ answer' = answer /\ bad' = bad
    BY DEF Mutate
  <1>3. CASE /\ OnBoard(i) /\ SetStatus(i, call.target)
             /\ UNCHANGED <<place, away, moved, left>>
             /\ \/ at' = "done" /\ UNCHANGED disturbances
                \/ /\ disturbances < MaxDisturbances
                   /\ at' = "failed" /\ disturbances' = disturbances + 1
    <2>1. /\ status' = [status EXCEPT ![i] = call.target]
          /\ held' = [held EXCEPT ![i] = @ \cup {call.target}]
          /\ place' = place /\ left' = left /\ moved' = moved /\ away' = away
      BY <1>3 DEF SetStatus
    <2>2. at' \in {"done", "failed"} /\ disturbances' \in 0..MaxDisturbances
      <3>1. disturbances \in 0..MaxDisturbances /\ MaxDisturbances \in Nat
        BY <1>1, TypeFacts DEF TypeOK
      <3>2. QED
        BY <1>3, <3>1
    <2>3. /\ status' \in [Issues -> State] /\ held' \in [Issues -> SUBSET State]
          /\ \A j \in Issues : status'[j] \in held'[j] /\ held[j] \subseteq held'[j]
      BY <1>1, <2>1 DEF TypeOK, HistoryKept
    <2>4. TypeOK'
      BY <1>1, <1>2, <2>1, <2>2, <2>3 DEF TypeOK
    <2>5. HistoryKept'
      BY <1>1, <2>1, <2>3 DEF HistoryKept, OnBoard
    <2>6. QED
      BY <1>1, <1>2, <2>2, <2>3, <2>4, <2>5, MoveKeeps
  <1>4. CASE at' = "failed" /\ UNCHANGED <<board, history, disturbances>>
    <2>1. /\ status' = status /\ held' = held /\ disturbances' = disturbances
          /\ place' = place /\ left' = left /\ moved' = moved /\ away' = away
      BY <1>4 DEF board, history
    <2>2. TypeOK'
      BY <1>1, <1>2, <1>4, <2>1 DEF TypeOK
    <2>3. HistoryKept'
      BY <1>1, <2>1 DEF HistoryKept, OnBoard
    <2>4. QED
      BY <1>1, <1>2, <1>4, <2>1, <2>2, <2>3, MoveKeeps
  <1>5. QED
    BY <1>1, <1>3, <1>4 DEF Mutate

-----------------------------------------------------------------------------
(* The board changes while the client is somewhere in its call. *)

LEMMA BoardChanges ==
  ASSUME IInv, UNCHANGED <<call, at, list, queue, answer>>, TypeOK', HistoryKept',
         left \subseteq left', moved \subseteq moved',
         \A i \in Issues : held[i] \subseteq held'[i],
         \A i \in Issues \ moved' : place'[i] = place[i]
  PROVE  IInv'
  <1>1. call' = call /\ at' = at /\ list' = list /\ queue' = queue /\ answer' = answer
    OBVIOUS
  <1>2. CallSteps'
    BY <1>1 DEF IInv, CallSteps
  <1>3. AnswerWasTrue'
    <2>1. \A n \in DOMAIN answer : answer[n].issue \in Issues
      <3>1. answer \in Seq(Issue)
        BY DEF IInv, TypeOK
      <3>2. \A n \in DOMAIN answer : answer[n] \in Issue
        BY <3>1
      <3>3. QED
        BY <3>2 DEF Issue
    <2>2. QED
      BY <1>1, <2>1 DEF IInv, AnswerWasTrue
  <1>4. NodesTrue'
    <2>1. ASSUME NEW n \in queue
          PROVE  NodeTrue(n)'
      <3>1. n.issue \in Issues /\ NodeTrue(n)
        BY <2>1 DEF IInv, TypeOK, Node, NodesTrue
      <3>2. QED
        BY <1>1, <3>1 DEF NodeTrue
    <2>2. QED
      BY <1>1, <2>1 DEF NodesTrue
  <1>5. \A i \in Issues : \A s : Stays(i, s)' => Stays(i, s)
    <2>1. ASSUME NEW i \in Issues, NEW s, Stays(i, s)'
          PROVE  Stays(i, s)
      <3>1. status[i] \in held[i] /\ held[i] \subseteq held'[i] /\ held'[i] = {s}
        BY <2>1 DEF Stays, IInv, HistoryKept
      <3>2. held[i] = {s}
        BY <3>1
      <3>3. i \notin moved' /\ place'[i] = place[i] /\ place'[i] # 0
        BY <2>1 DEF Stays, OnBoard
      <3>4. QED
        BY <3>2, <3>3 DEF Stays, OnBoard
    <2>2. QED
      BY <2>1
  <1>6. \A i : Accounted(i) => Accounted(i)'
    BY <1>1 DEF Accounted
  <1>7. ListedSoFar'
    <2> SUFFICES ASSUME call.op = "list", at \in {"page", "nodes", "done"},
                        NEW i \in Issues \ Foreign, NEW s \in call.states, Stays(i, s)',
                        ~list.next \/ place'[i] <= list.end
                 PROVE  Accounted(i)'
      BY <1>1 DEF ListedSoFar
    <2>1. Stays(i, s) /\ place'[i] = place[i]
      BY <1>5 DEF Stays
    <2>2. Accounted(i)
      BY <2>1 DEF IInv, ListedSoFar
    <2>3. QED
      BY <1>6, <2>2
  <1>8. RefreshedSoFar'
    BY <1>1, <1>6 DEF IInv, RefreshedSoFar
  <1>9. QED
    BY <1>2, <1>3, <1>4, <1>7, <1>8 DEF IInv

LEMMA ChangeCounts ==
  ASSUME TypeOK, Change
  PROVE  /\ call' = call /\ at' = at /\ list' = list /\ queue' = queue /\ answer' = answer
         /\ bad' = bad /\ away' = away /\ disturbances' \in 0..MaxDisturbances
  <1>1. disturbances \in 0..MaxDisturbances /\ MaxDisturbances \in Nat
    BY TypeFacts DEF TypeOK
  <1>2. QED
    BY <1>1 DEF Change, client

LEMMA MoveByOthersKeeps ==
  ASSUME IInv, NEW i \in Issues, NEW s \in State, MoveByOthers(i, s)
  PROVE  IInv'
  <1>1. TypeOK /\ HistoryKept /\ Change
    BY DEF IInv, MoveByOthers
  <1>2. /\ status' = [status EXCEPT ![i] = s] /\ held' = [held EXCEPT ![i] = @ \cup {s}]
        /\ place' = place /\ moved' = moved /\ left' = left
    BY DEF MoveByOthers, SetStatus
  <1>3. /\ status' \in [Issues -> State] /\ held' \in [Issues -> SUBSET State]
        /\ \A j \in Issues : status'[j] \in held'[j] /\ held[j] \subseteq held'[j]
    BY <1>1, <1>2 DEF TypeOK, HistoryKept
  <1>4. /\ call' = call /\ at' = at /\ list' = list /\ queue' = queue /\ answer' = answer
        /\ bad' = bad /\ away' = away /\ disturbances' \in 0..MaxDisturbances
    BY <1>1, ChangeCounts
  <1>5. TypeOK'
    BY <1>1, <1>2, <1>3, <1>4 DEF TypeOK
  <1>6. HistoryKept'
    BY <1>1, <1>2, <1>3 DEF HistoryKept, OnBoard
  <1>7. QED
    BY <1>2, <1>3, <1>4, <1>5, <1>6, BoardChanges

LEMMA PlaceIssueKeeps ==
  ASSUME IInv, NEW i \in Issues, NEW r \in 0..MaxRank, PlaceIssue(i, r)
  PROVE  IInv'
  <1>1. TypeOK /\ HistoryKept /\ Change
    BY DEF IInv, PlaceIssue
  <1>2. /\ place' = [place EXCEPT ![i] = r] /\ moved' = moved \cup {i}
        /\ left' = (IF r = 0 THEN left \cup {i} ELSE left)
        /\ status' = status /\ held' = held
    BY DEF PlaceIssue
  <1>3. /\ call' = call /\ at' = at /\ list' = list /\ queue' = queue /\ answer' = answer
        /\ bad' = bad /\ away' = away /\ disturbances' \in 0..MaxDisturbances
    BY <1>1, ChangeCounts
  <1>4. left' \in SUBSET Issues /\ left \subseteq left'
    BY <1>1, <1>2 DEF TypeOK
  <1>5. \A j \in Issues : place'[j] = IF j = i THEN r ELSE place[j]
    BY <1>1, <1>2 DEF TypeOK
  <1>6. TypeOK'
    <2>1. place' \in [Issues -> 0..MaxRank] /\ moved' \in SUBSET Issues
      BY <1>1, <1>2 DEF TypeOK
    <2>2. QED
      BY <1>1, <1>2, <1>3, <1>4, <2>1 DEF TypeOK
  <1>7. HistoryKept'
    <2>1. \A j \in Issues : place'[j] = 0 => j \in left'
      BY <1>1, <1>2, <1>5 DEF HistoryKept, OnBoard
    <2>2. QED
      BY <1>1, <1>2, <2>1 DEF HistoryKept, OnBoard
  <1>8. QED
    BY <1>2, <1>3, <1>4, <1>5, <1>6, <1>7, BoardChanges

-----------------------------------------------------------------------------
(* The theorems. *)

LEMMA InitEstablishes ==
  ASSUME Init
  PROVE  IInv
  <1>1. list = NotStarted /\ queue = {} /\ answer = <<>> /\ DOMAIN answer = {}
    BY DEF Init
  <1>2. \/ \E states \in SUBSET States :
             /\ call = [op |-> "list", states |-> states]
             /\ at = IF states = {} THEN "done" ELSE "page"
        \/ \E ids \in SUBSET Issues :
             /\ call = [op |-> "refresh", ids |-> ids]
             /\ at = IF ids = {} THEN "done" ELSE "page"
        \/ \E i \in Issues, s \in States :
             call = [op |-> "move", issue |-> i, target |-> s] /\ at = "options"
    BY DEF Init, Begins
  <1>3. /\ call \in [op : {"list"}, states : SUBSET States]
                \cup [op : {"refresh"}, ids : SUBSET Issues]
                \cup [op : {"move"}, issue : Issues, target : States]
        /\ at \in {"page", "options", "done"}
        /\ call.op = "move" => at = "options"
        /\ call.op # "move" => at \in {"page", "done"}
        /\ call.op = "list" /\ at = "done" => call.states = {}
        /\ call.op = "refresh" /\ at = "done" => call.ids = {}
    BY <1>2
  <1>4. TypeOK
    <2>1. 0 \in 0..MaxDisturbances
      BY TypeFacts
    <2>2. held \in [Issues -> SUBSET State]
      BY DEF Init
    <2>3. left \in SUBSET Issues /\ moved \in SUBSET Issues
      BY DEF Init
    <2>4. answer \in Seq(Issue) /\ queue \subseteq Node /\ list \in PageInfo
      BY <1>1, TypeFacts
    <2>5. QED
      BY <1>3, <2>1, <2>2, <2>3, <2>4 DEF Init, TypeOK
  <1>5. HistoryKept
    BY DEF Init, HistoryKept
  <1>6. CallSteps
    BY <1>1, <1>3, TypeFacts DEF CallSteps
  <1>7. AnswerWasTrue /\ NodesTrue
    BY <1>1 DEF AnswerWasTrue, NodesTrue
  <1>8. ListedSoFar
    <2> SUFFICES ASSUME call.op = "list", at = "page",
                        NEW i \in Issues, NEW s, Stays(i, s), ~list.next \/ place[i] <= list.end
                 PROVE  FALSE
      BY <1>3 DEF ListedSoFar
    <2>1. place[i] \in 0..MaxRank /\ MaxRank \in Nat /\ place[i] # 0
      BY <1>4, TypeFacts DEF TypeOK, Stays, OnBoard
    <2>2. QED
      BY <1>1, <2>1, TypeFacts
  <1>9. RefreshedSoFar
    BY <1>3 DEF RefreshedSoFar
  <1>10. QED
    BY <1>4, <1>5, <1>6, <1>7, <1>8, <1>9 DEF IInv

LEMMA StepKeeps ==
  ASSUME IInv, [Next]_vars
  PROVE  IInv'
  <1>1. CASE ListPage
    BY <1>1, ListPageKeeps
  <1>2. CASE RefreshNodes
    BY <1>2, RefreshNodesKeeps
  <1>3. CASE EndOfPage
    BY <1>3, EndOfPageKeeps
  <1>4. CASE GiveUp \/ GiveUpNested
    BY <1>4, GiveUpKeeps
  <1>5. CASE WalkLabels
    BY <1>5, WalkLabelsKeeps
  <1>6. CASE WalkItems
    BY <1>6, WalkItemsKeeps
  <1>7. CASE WalkFields
    BY <1>7, WalkFieldsKeeps
  <1>8. CASE Normalize
    BY <1>8, NormalizeKeeps
  <1>9. CASE FindOption
    BY <1>9, FindOptionKeeps
  <1>10. CASE FindItem
    BY <1>10, FindItemKeeps
  <1>11. CASE Mutate
    BY <1>11, MutateKeeps
  <1>12. CASE RequestFails
    BY <1>12, RequestFailsKeeps
  <1>13. CASE \E i \in Issues : \E s \in State : MoveByOthers(i, s)
    BY <1>13, MoveByOthersKeeps
  <1>14. CASE \E i \in Issues : \E r \in 0..MaxRank : PlaceIssue(i, r)
    BY <1>14, PlaceIssueKeeps
  <1>15. CASE UNCHANGED vars
    <2>1. /\ place' = place /\ status' = status /\ away' = away /\ call' = call /\ at' = at
          /\ list' = list /\ queue' = queue /\ answer' = answer /\ bad' = bad
          /\ moved' = moved /\ left' = left /\ held' = held /\ disturbances' = disturbances
      BY <1>15 DEF vars, board, client, history
    <2>2. TypeOK' /\ HistoryKept'
      BY <2>1 DEF IInv, TypeOK, HistoryKept, OnBoard
    <2>3. QED
      BY <2>1, <2>2, BoardChanges
  <1>16. QED
    BY <1>1, <1>2, <1>3, <1>4, <1>5, <1>6, <1>7, <1>8, <1>9, <1>10, <1>11, <1>12, <1>13, <1>14,
       <1>15 DEF Next, Request

LEMMA Inductive == Spec => []IInv
  <1>1. Init => IInv
    BY InitEstablishes
  <1>2. IInv /\ [Next]_vars => IInv'
    BY StepKeeps
  <1>3. QED
    BY <1>1, <1>2, PTL DEF Spec

\* The variables of a call have the types of the code's structures: no walk
\* exceeds its page limit and an answer holds issues with a state only.
THEOREM TypeCorrect == Spec => []TypeOK
  <1>1. IInv => TypeOK
    BY DEF IInv
  <1>2. QED
    BY <1>1, Inductive, PTL

\* fetch_candidate_issues and fetch_issues_by_states (issues_by_states): a listing
\* that succeeds holds every issue that stayed in its place and in a wanted state,
\* on every board, for every page size, every change and every server.
THEOREM ListingIsComplete == Spec => []ListComplete
  <1>1. IInv => ListComplete
    <2> SUFFICES ASSUME IInv, at = "done", call.op = "list", call.states # {},
                        NEW i \in Issues \ Foreign, NEW s \in call.states,
                        OnBoard(i), i \notin moved, held[i] = {s}
                 PROVE  \E n \in DOMAIN answer : answer[n].issue = i
      BY DEF ListComplete
    <2>1. ~list.next /\ queue = {}
      BY DEF IInv, CallSteps
    <2>2. Accounted(i)
      BY <2>1 DEF IInv, ListedSoFar, Stays
    <2>3. QED
      BY <2>1, <2>2 DEF Accounted
  <1>2. QED
    BY <1>1, Inductive, PTL

\* fetch_issue_states_by_ids: a refresh leaves out no issue that was on the board
\* all the time, however its item is spread over pages.
THEOREM RefreshFindsWhatStayed == Spec => []AbsentOnlyIfGone
  <1>1. IInv => AbsentOnlyIfGone
    BY DEF IInv, CallSteps, RefreshedSoFar, Accounted, AbsentOnlyIfGone
  <1>2. QED
    BY <1>1, Inductive, PTL

\* normalize: what a call reports of an issue was true at some time of the call,
\* on this board, and says of blockers what all its labels say.
THEOREM ReportsWereTrue == Spec => []AnswerWasTrue
  <1>1. IInv => AnswerWasTrue
    BY DEF IInv
  <1>2. QED
    BY <1>1, Inductive, PTL

\* move_issue_to_state: no call changes an issue's item on another board, and a
\* move that is reported as done has set the state.
THEOREM MovesTouchOwnItem == Spec => MovesOwnItem
  <1> DEFINE Own == /\ away' = away
                    /\ at = "mutation" /\ at' = "done" => status'[call.issue] = call.target
  <1>1. ASSUME IInv, [Next]_vars
        PROVE  Own
    <2>1. CASE Mutate
      <3>1. list.after = 2 /\ call.op = "move" /\ TypeOK
        BY <1>1, <2>1 DEF Mutate, IInv, CallSteps
      <3>2. call.issue \in Issues /\ status \in [Issues -> State]
        BY <3>1 DEF TypeOK
      <3>3. QED
        BY <2>1, <3>1, <3>2 DEF Mutate, SetStatus, board
    <2>2. CASE UNCHANGED <<board, call, bad, history>> /\ at # "mutation"
      BY <2>2 DEF board
    <2>3. CASE Fail
      BY <2>3 DEF Fail, board
    <2>4. CASE at' = at /\ away' = away
      BY <2>4
    <2>5. CASE UNCHANGED vars
      BY <2>5 DEF vars, board, client
    <2>6. CASE Next /\ ~Mutate
      <3>1. CASE ListPage \/ RefreshNodes \/ EndOfPage
        BY <2>2, <3>1 DEF ListPage, RefreshNodes, EndOfPage, Read
      <3>2. CASE GiveUp \/ GiveUpNested \/ RequestFails
        BY <2>3, <3>2 DEF GiveUp, GiveUpNested, RequestFails
      <3>3. CASE WalkLabels \/ WalkItems \/ WalkFields
        BY <2>2, <3>3 DEF WalkLabels, WalkItems, WalkFields, Walk, InNode, Read
      <3>4. CASE Normalize
        BY <2>2, <2>3, <3>4 DEF Normalize, InNode, Read
      <3>5. CASE FindOption \/ FindItem
        BY <2>2, <2>3, <3>5 DEF FindOption, FindItem, Step, Read
      <3>6. CASE \E i \in Issues : \E s \in State : MoveByOthers(i, s)
        BY <2>4, <3>6 DEF MoveByOthers, Change, client
      <3>7. CASE \E i \in Issues : \E r \in 0..MaxRank : PlaceIssue(i, r)
        BY <2>4, <3>7 DEF PlaceIssue, Change, client
      <3>8. QED
        BY <2>6, <3>1, <3>2, <3>3, <3>4, <3>5, <3>6, <3>7 DEF Next, Request
    <2>7. QED
      BY <1>1, <2>1, <2>5, <2>6
  <1>2. IInv /\ [Next]_vars => [Own]_vars
    BY <1>1
  <1>3. QED
    BY <1>2, Inductive, PTL DEF Spec, MovesOwnItem

-----------------------------------------------------------------------------
(* The order of a listing. *)

PlacesDistinct == \A i, j \in Issues : i # j /\ OnBoard(i) => place[i] # place[j]

\* What has been answered lies before what waits, which lies before the cursor.
InOrder ==
    /\ \A n \in queue : n.issue \notin moved => n.rank = place[n.issue]
    /\ \A m, n \in queue : m.rank = n.rank => m = n
    /\ \A k \in DOMAIN answer : answer[k].issue \notin moved =>
         /\ \A n \in queue : place[answer[k].issue] < n.rank
         /\ list.next => place[answer[k].issue] <= list.end
    /\ list.next => \A n \in queue : n.rank <= list.end
    /\ \A k, l \in DOMAIN answer : k < l /\ {answer[k].issue, answer[l].issue} \cap moved = {} =>
         place[answer[k].issue] < place[answer[l].issue]

Listing == ~bad /\ call.op = "list"

OInv == PlacesDistinct /\ (Listing => InOrder)

LEMMA LeastNumber ==
  ASSUME NEW T \in SUBSET Nat, T # {}
  PROVE  \E m \in T : \A k \in T : m <= k
  <1>1. PICK m \in T : \A k \in T : ~(<<k, m>> \in OpToRel(<, Nat))
    BY NatLessThanWellFounded, WFMin, Zenon
  <1>2. ASSUME NEW k \in T
        PROVE  m <= k
    <2>1. m \in Nat /\ k \in Nat
      OBVIOUS
    <2>2. ~(k < m)
      BY <1>1, <2>1, Zenon DEF OpToRel
    <2>3. QED
      BY <2>1, <2>2
  <1>3. QED
    BY <1>2

\* The node that is completed next is the first of its page.
LEMMA CurrentIsFirst ==
  ASSUME queue \subseteq Node, queue # {}
  PROVE  Current \in queue /\ \A m \in queue : Current.rank <= m.rank
  <1> DEFINE T == {n.rank : n \in queue}
  <1>1. \A n \in queue : n.rank \in Nat
    BY NodeFields, TypeFacts
  <1>2. T \in SUBSET Nat /\ T # {}
    BY <1>1
  <1>3. PICK r \in T : \A k \in T : r <= k
    <2> HIDE DEF T
    <2> QED
      BY <1>2, LeastNumber
  <1>4. PICK n \in queue : n.rank = r
    BY <1>3
  <1>5. \A m \in queue : ~(m.rank < n.rank)
    <2> SUFFICES ASSUME NEW m \in queue PROVE ~(m.rank < n.rank)
      OBVIOUS
    <2>1. m.rank \in T
      OBVIOUS
    <2>2. r <= m.rank /\ r = n.rank
      BY <1>3, <1>4, <2>1
    <2>3. QED
      BY <1>1, <2>2
  <1>6. Current \in queue /\ \A m \in queue : ~(m.rank < Current.rank)
    BY <1>5 DEF Current
  <1>7. QED
    BY <1>1, <1>6

LEMMA ListedRank ==
  ASSUME TypeOK, NEW i \in Issues, NEW first \in Pairs
  PROVE  ListedNode(i, first).rank = place[i]
  <1> DEFINE n == NewNode(i, place[i])
             l == WithLabels(n, first)
  <1>1. place[i] \in 0..MaxRank
    BY DEF TypeOK
  <1>2. n \in Node /\ n.rank = place[i]
    BY <1>1, TypeFacts DEF NewNode, Node
  <1>3. FirstOf(first) \in PageInfo
    BY FirstTypes, TypeFacts DEF Pairs
  <1>4. ListedNode(i, first) = WithItem(l, first)
    BY DEF ListedNode
  <1>5. l = [ReadLabels(n, 0, first) EXCEPT !.labels = FirstOf(first)]
    BY DEF WithLabels
  <1> HIDE DEF n, l
  <1>6. l \in Node /\ l.rank = n.rank
    BY <1>2, <1>3, <1>5, ReadLabelsGives
  <1>7. WithItem(l, first).rank = l.rank
    BY <1>6, WithItemGives
  <1>8. QED
    BY <1>2, <1>4, <1>6, <1>7

\* A step that leaves the board and a listing's answer alone, and whose nodes keep their
\* places, keeps the order.
LEMMA RereadKeepsOrder ==
  ASSUME IInv, InOrder, InNode, NEW m \in Node, m.issue = Current.issue, m.rank = Current.rank,
         Replace(m), UNCHANGED <<list, answer, place, moved>>
  PROVE  InOrder'
  <1>1. /\ Current \in queue /\ queue' = (queue \ {Current}) \cup {m}
        /\ list' = list /\ answer' = answer /\ place' = place /\ moved' = moved
    BY DEF InNode, Replace
  <1> DEFINE c == Current
  <1>2. /\ c \in queue /\ queue' = (queue \ {c}) \cup {m} /\ m.issue = c.issue /\ m.rank = c.rank
    BY <1>1
  <1> HIDE DEF c
  <1>3. \A n \in queue' : n.issue \notin moved => n.rank = place[n.issue]
    BY <1>2 DEF InOrder
  <1>4. \A k, n \in queue' : k.rank = n.rank => k = n
    BY <1>2 DEF InOrder
  <1>5. \A k \in DOMAIN answer : answer[k].issue \notin moved =>
          \A n \in queue' : place[answer[k].issue] < n.rank
    BY <1>2 DEF InOrder
  <1>6. list.next => \A n \in queue' : n.rank <= list.end
    BY <1>2 DEF InOrder
  <1>7. QED
    BY <1>1, <1>3, <1>4, <1>5, <1>6 DEF InOrder

LEMMA WalksKeepOrder ==
  ASSUME IInv, InOrder, call.op = "list", WalkLabels \/ WalkItems \/ WalkFields
  PROVE  InOrder'
  <1>1. TypeOK /\ HistoryKept
    BY DEF IInv
  <1> DEFINE c == Current
  <1>2. InNode
    BY DEF WalkLabels, WalkItems, WalkFields, Walk
  <1>3. c \in Node /\ c.labels \in PageInfo /\ c.fields \in PageInfo
    BY <1>2, CurrentIsNode
  <1>4. CASE WalkLabels
    <2>1. PICK page \in Page(Pair, c.labels.end, 2) :
            Replace([ReadLabels(c, c.labels.end, page) EXCEPT !.labels = After(@, page)])
      BY <1>4 DEF WalkLabels
    <2>2. /\ Read /\ UNCHANGED <<at, list, answer>> /\ c.labels.next /\ c.labels.pages < MaxPages
          /\ NodeTrue(c) /\ Walk(c.labels, LabelsDue)
      <3>1. Walk(c.labels, LabelsDue)
        BY <1>4 DEF WalkLabels, Walk
      <3>2. QED
        BY <1>3, <3>1, InWalk
    <2>3. UNCHANGED <<place, moved>>
      BY <1>1, <2>2, ReadFrame
    <2> HIDE DEF c
    <2> DEFINE r == ReadLabels(c, c.labels.end, page)
               m == [r EXCEPT !.labels = After(@, page)]
    <2>4. m \in Node /\ m.issue = c.issue
      BY <1>3, <2>2, LabelsStayTrue
    <2>5. r.rank = c.rank /\ m.rank = r.rank
      <3>1. r.rank = c.rank
        BY <1>3 DEF ReadLabels, Node
      <3> HIDE DEF r
      <3>2. QED
        BY <3>1
    <2>6. Replace(m)
      BY <2>1
    <2> HIDE DEF m
    <2>7. QED
      BY <1>2, <2>2, <2>3, <2>4, <2>5, <2>6, RereadKeepsOrder DEF c
  <1>5. CASE WalkItems
    BY <1>5 DEF WalkItems, Walk, ItemsDue
  <1>6. CASE WalkFields
    <2>1. PICK page \in Page(Pair, c.fields.end, 2) :
            Replace([ReadStatus(c, c.fields.end, page) EXCEPT !.fields = After(@, page)])
      BY <1>6 DEF WalkFields
    <2>2. /\ Read /\ UNCHANGED <<at, list, answer>> /\ c.fields.next /\ c.fields.pages < MaxPages
          /\ NodeTrue(c)
      <3>1. Walk(c.fields, FieldsDue)
        BY <1>6 DEF WalkFields, Walk
      <3>2. QED
        BY <1>3, <3>1, InWalk
    <2>3. UNCHANGED <<place, moved>>
      BY <1>1, <2>2, ReadFrame
    <2> HIDE DEF c
    <2> DEFINE r == ReadStatus(c, c.fields.end, page)
               m == [r EXCEPT !.fields = After(@, page)]
    <2>4. m \in Node /\ m.issue = c.issue
      BY <1>1, <1>3, <2>2, FieldsStayTrue
    <2>5. r.rank = c.rank /\ m.rank = r.rank
      <3>1. r.rank = c.rank
        BY <1>3 DEF ReadStatus, Node
      <3> HIDE DEF r
      <3>2. QED
        BY <3>1
    <2>6. Replace(m)
      BY <2>1
    <2> HIDE DEF m
    <2>7. QED
      BY <1>2, <2>2, <2>3, <2>4, <2>5, <2>6, RereadKeepsOrder DEF c
  <1>7. QED
    BY <1>4, <1>5, <1>6

\* A page has what lies between the last cursor and its own end.
LEMMA ListPageKeepsOrder ==
  ASSUME IInv, PlacesDistinct, Listing, InOrder, ListPage
  PROVE  InOrder'
  <1>1. PICK page \in Page(Ranked, list.end, MaxRank), first \in Pairs :
          /\ list' = After(list, page)
          /\ queue' = {ListedNode(i, first) : i \in {j \in Issues : IsIn(place[j], list.end, page)}}
    BY DEF ListPage, Pairs
  <1>2. /\ at = "page" /\ list.next /\ answer' = answer /\ TypeOK /\ HistoryKept /\ Read
        /\ list \in PageInfo /\ list.pages < MaxPages
    <2>1. at = "page" /\ ~IsStuck(list) /\ answer' = answer /\ Read
      BY DEF ListPage
    <2>2. TypeOK /\ HistoryKept /\ list.next /\ list \in PageInfo
      BY <2>1 DEF IInv, CallSteps, TypeOK
    <2>3. list.pages \in 0..MaxPages /\ MaxPages \in Nat \ {0}
      BY <2>2, TypeFacts DEF PageInfo
    <2>4. QED
      BY <2>1, <2>2, <2>3 DEF IsStuck
  <1>3. place' = place /\ moved' = moved
    BY <1>2, ReadFrame
  <1>4. /\ list.end \in Nat /\ MaxRank \in Nat \ {0} /\ Ranked \in SUBSET Nat
        /\ \A i \in Issues : place[i] \in 0..MaxRank
    <2>1. MaxRank \in Nat \ {0}
      BY TypeFacts
    <2>2. list.end \in 0..MaxRank + 2
      BY <1>2 DEF PageInfo
    <2>3. QED
      BY <1>2, <2>1, <2>2, RankedTypes DEF TypeOK
  <1>5. list'.next = page.next /\ list'.end = page.end
    BY <1>1 DEF After
  <1>6. page.next => page.end = page.upto /\ (list.end <= page.upto \/ page.upto = MaxRank)
    <2>1. ~bad
      BY DEF Listing
    <2>2. PICK k \in (list.end + 1..MaxRank) \cup {MaxRank} :
            page = [upto |-> k, next |-> \E r \in Ranked : r > k,
                    end |-> IF \E r \in Ranked : r > k THEN k ELSE 0]
      BY <1>1, <2>1 DEF Page
    <2>3. page.upto = k /\ (page.next => page.end = k)
      BY <2>2
    <2>4. QED
      BY <1>4, <2>2, <2>3
  <1>7. ASSUME NEW n \in queue'
        PROVE  /\ n.issue \in Issues /\ n.rank = place[n.issue] /\ OnBoard(n.issue)
               /\ list.end < n.rank /\ n.rank <= page.upto /\ n = ListedNode(n.issue, first)
    <2>1. PICK i \in Issues : n = ListedNode(i, first) /\ IsIn(place[i], list.end, page)
      BY <1>1
    <2>2. n.issue = i /\ n.rank = place[i]
      BY <1>2, <2>1, ListedNodeGives, ListedRank DEF Listing
    <2>3. QED
      BY <1>4, <2>1, <2>2 DEF IsIn, OnBoard
  <1>8. \A n \in queue' : n.issue \notin moved' => n.rank = place'[n.issue]
    BY <1>3, <1>7
  <1>9. \A m, n \in queue' : m.rank = n.rank => m = n
    <2> SUFFICES ASSUME NEW m \in queue', NEW n \in queue', m.rank = n.rank PROVE m = n
      OBVIOUS
    <2>1. m.issue = n.issue
      BY <1>7 DEF PlacesDistinct
    <2>2. QED
      BY <1>7, <2>1
  <1>10. \A k \in DOMAIN answer : answer[k].issue \in Issues
    <2>1. \A k \in DOMAIN answer : answer[k] \in Issue
      BY <1>2 DEF TypeOK
    <2>2. QED
      BY <2>1 DEF Issue
  <1>11. ASSUME NEW k \in DOMAIN answer, answer[k].issue \notin moved
         PROVE  /\ \A n \in queue' : place[answer[k].issue] < n.rank
                /\ list'.next => place[answer[k].issue] <= list'.end
    <2>1. place[answer[k].issue] <= list.end /\ place[answer[k].issue] \in 0..MaxRank
      BY <1>2, <1>4, <1>10, <1>11 DEF InOrder
    <2>2. \A n \in queue' : n.rank \in Nat
      BY <1>4, <1>7
    <2>3. page.upto \in Nat
      BY <1>1, <1>4, PageProps
    <2>4. QED
      BY <1>4, <1>5, <1>6, <1>7, <2>1, <2>2, <2>3
  <1>12. list'.next => \A n \in queue' : n.rank <= list'.end
    BY <1>5, <1>6, <1>7
  <1>13. QED
    BY <1>2, <1>3, <1>8, <1>9, <1>11, <1>12 DEF InOrder

LEMMA NormalizeKeepsOrder ==
  ASSUME IInv, InOrder, Normalize
  PROVE  InOrder'
  <1> DEFINE c == Current
             entry == [issue |-> c.issue, state |-> c.state, blocked |-> c.blocked]
  <1>1. InNode /\ TypeOK /\ HistoryKept
    BY DEF Normalize, IInv
  <1>2. c \in queue /\ \A n \in queue : c.rank <= n.rank
    BY <1>1, CurrentIsFirst DEF InNode, TypeOK
  <1>3. /\ answer \in Seq(Issue)
        /\ \A n \in queue : n.issue \in Issues /\ n.rank \in Nat
        /\ \A i \in Issues : place[i] \in Nat
    <2>1. queue \subseteq Node /\ answer \in Seq(Issue) /\ \A i \in Issues : place[i] \in 0..MaxRank
      BY <1>1 DEF TypeOK
    <2>2. QED
      BY <2>1, NodeFields, TypeFacts
  <1>4. \A k \in DOMAIN answer : answer[k].issue \in Issues
    <2>1. \A k \in DOMAIN answer : answer[k] \in Issue
      BY <1>3
    <2>2. QED
      BY <2>1 DEF Issue
  <1>5. CASE Fail
    <2>1. queue' = {} /\ answer' = <<>> /\ list' = Complete
      BY <1>5 DEF Fail
    <2>2. QED
      BY <2>1, TypeFacts DEF InOrder
  <1>6. CASE /\ queue' = queue \ {c} /\ UNCHANGED list /\ Read
             /\ answer' = answer \/ answer' = Append(answer, entry)
    <2>1. place' = place /\ moved' = moved
      BY <1>1, <1>6, ReadFrame
    <2>2. CASE answer' = answer
      BY <1>6, <2>1, <2>2 DEF InOrder
    <2>3. CASE answer' = Append(answer, entry)
      <3>1. entry.issue = c.issue
        OBVIOUS
      <3> HIDE DEF entry, c
      <3>2. /\ DOMAIN answer' = 1..Len(answer) + 1 /\ DOMAIN answer = 1..Len(answer)
            /\ Len(answer) \in Nat /\ answer'[Len(answer) + 1] = entry
            /\ \A k \in DOMAIN answer : answer'[k] = answer[k]
        BY <1>3, <2>3
      <3>3. \A n \in queue' : c.rank < n.rank
        BY <1>2, <1>3, <1>6 DEF InOrder
      <3>4. c.issue \notin moved => c.rank = place[c.issue]
        BY <1>2 DEF InOrder
      <3>5. \A k \in DOMAIN answer : answer[k].issue \notin moved => place[answer[k].issue] < c.rank
        BY <1>2 DEF InOrder
      <3>6. list.next => c.rank <= list.end
        BY <1>2 DEF InOrder
      <3>7. ASSUME NEW k \in DOMAIN answer', answer'[k].issue \notin moved
            PROVE  /\ \A n \in queue' : place[answer'[k].issue] < n.rank
                   /\ list.next => place[answer'[k].issue] <= list.end
        <4>1. CASE k \in DOMAIN answer
          BY <1>6, <3>2, <3>7, <4>1 DEF InOrder
        <4>2. CASE k = Len(answer) + 1
          BY <3>1, <3>2, <3>3, <3>4, <3>6, <3>7, <4>2
        <4>3. QED
          BY <3>2, <4>1, <4>2
      <3>8. ASSUME NEW k \in DOMAIN answer', NEW l \in DOMAIN answer', k < l,
                   {answer'[k].issue, answer'[l].issue} \cap moved = {}
            PROVE  place[answer'[k].issue] < place[answer'[l].issue]
        <4>1. k \in DOMAIN answer
          BY <3>2, <3>8
        <4>2. CASE l \in DOMAIN answer
          BY <3>2, <3>8, <4>1, <4>2 DEF InOrder
        <4>3. CASE l = Len(answer) + 1
          BY <3>1, <3>2, <3>4, <3>5, <3>8, <4>1, <4>3
        <4>4. QED
          BY <3>2, <4>2, <4>3
      <3>9. QED
        BY <1>6, <2>1, <3>7, <3>8 DEF InOrder
    <2>4. QED
      BY <1>6, <2>2, <2>3
  <1>7. QED
    BY <1>5, <1>6 DEF Normalize

\* People who move an issue leave the places of the others.
LEMMA PlacesStayDistinct ==
  ASSUME TypeOK, PlacesDistinct, NEW i \in Issues, NEW r \in 0..MaxRank, PlaceIssue(i, r)
  PROVE  PlacesDistinct'
  <1>1. place' = [place EXCEPT ![i] = r] /\ r \notin Ranked /\ DOMAIN place = Issues
    BY DEF PlaceIssue, TypeOK
  <1>2. \A j \in Issues : place[j] = r => r = 0
    BY <1>1 DEF Ranked
  <1>3. QED
    BY <1>1, <1>2 DEF PlacesDistinct, OnBoard

LEMMA StepKeepsOrder ==
  ASSUME IInv, OInv, [Next]_vars
  PROVE  OInv'
  <1>1. CASE \E i \in Issues : \E r \in 0..MaxRank : PlaceIssue(i, r)
    <2>1. PICK i \in Issues, r \in 0..MaxRank : PlaceIssue(i, r)
      BY <1>1
    <2>2. PlacesDistinct'
      BY <2>1, PlacesStayDistinct DEF IInv, OInv
    <2>3. /\ call' = call /\ bad' = bad /\ list' = list /\ queue' = queue /\ answer' = answer
          /\ moved' = moved \cup {i} /\ \A j \in Issues \ {i} : place'[j] = place[j]
      BY <2>1 DEF PlaceIssue, Change, client, IInv, TypeOK
    <2>4. \A n \in queue : n.issue \in Issues
      BY NodeFields DEF IInv, TypeOK
    <2>5. \A k \in DOMAIN answer : answer[k].issue \in Issues
      <3>1. \A k \in DOMAIN answer : answer[k] \in Issue
        BY DEF IInv, TypeOK
      <3>2. QED
        BY <3>1 DEF Issue
    <2>6. Listing => InOrder'
      <3> SUFFICES ASSUME Listing PROVE InOrder'
        OBVIOUS
      <3>1. InOrder
        BY DEF OInv
      <3>2. QED
        BY <2>3, <2>4, <2>5, <3>1 DEF InOrder
    <2>7. QED
      BY <2>2, <2>3, <2>6 DEF OInv, Listing
  <1>2. ASSUME place' = place
        PROVE  PlacesDistinct'
    BY <1>2 DEF OInv, PlacesDistinct, OnBoard
  <1>3. CASE ListPage \/ WalkLabels \/ WalkItems \/ WalkFields \/ Normalize
    <2>1. place' = place /\ call' = call /\ bad' = bad
      BY <1>3 DEF ListPage, WalkLabels, WalkItems, WalkFields, Walk, Normalize, Fail, Read, board
    <2>2. Listing => InOrder'
      BY <1>3, ListPageKeepsOrder, WalksKeepOrder, NormalizeKeepsOrder DEF OInv, Listing
    <2>3. QED
      BY <1>2, <2>1, <2>2 DEF OInv, Listing
  <1>4. CASE EndOfPage
    BY <1>2, <1>4 DEF EndOfPage, Read, board, history, OInv, Listing, InOrder
  <1>5. CASE GiveUp \/ GiveUpNested \/ RequestFails
    <2>1. Fail
      BY <1>5 DEF GiveUp, GiveUpNested, RequestFails
    <2>2. /\ queue' = {} /\ answer' = <<>> /\ list' = Complete
          /\ place' = place /\ call' = call /\ bad' = bad
      BY <2>1 DEF Fail, board
    <2>3. QED
      BY <1>2, <2>2, TypeFacts DEF OInv, Listing, InOrder
  <1>6. CASE RefreshNodes \/ FindOption \/ FindItem \/ Mutate
    <2>1. call.op # "list"
      BY <1>6 DEF RefreshNodes, FindOption, FindItem, Mutate, IInv, CallSteps
    <2>2. call' = call /\ place' = place
      BY <1>6 DEF RefreshNodes, FindOption, FindItem, Mutate, Fail, Step, Read, board
    <2>3. QED
      BY <1>2, <2>1, <2>2 DEF OInv, Listing
  <1>7. CASE (\E i \in Issues : \E s \in State : MoveByOthers(i, s)) \/ UNCHANGED vars
    <2>1. /\ place' = place /\ call' = call /\ bad' = bad /\ list' = list /\ queue' = queue
          /\ answer' = answer /\ moved' = moved
      BY <1>7 DEF MoveByOthers, Change, client, vars, board, history
    <2>2. QED
      BY <1>2, <2>1 DEF OInv, Listing, InOrder
  <1>8. QED
    BY <1>1, <1>3, <1>4, <1>5, <1>6, <1>7 DEF Next, Request

\* Issues that stay in their places are listed in the order of the board, each once, for
\* every page size and whatever people do to the others (issues_by_states).
THEOREM OrderIsKept == Spec => []OrderKept
  <1>1. Init => OInv
    <2> SUFFICES ASSUME Init PROVE OInv
      OBVIOUS
    <2>1. PlacesDistinct /\ queue = {} /\ answer = <<>>
      BY DEF Init, PlacesDistinct
    <2>2. QED
      BY <2>1 DEF OInv, InOrder
  <1>2. IInv /\ OInv /\ [Next]_vars => OInv'
    BY StepKeepsOrder
  <1>3. OInv => OrderKept
    BY DEF OInv, Listing, InOrder, OrderKept
  <1>4. QED
    BY <1>1, <1>2, <1>3, Inductive, PTL DEF Spec
=============================================================================

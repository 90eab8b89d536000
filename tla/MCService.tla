---------------------------- MODULE MCService ----------------------------
(* Constants of the TLC runs of Service. *)
EXTENDS ServiceProperties

CONSTANTS S1, S2, i1, i2, i3, n1, n2, n3, h1, h2

AllStates == {"todo", "doing", "done", "backlog"}

AllActive == [s \in Sources |-> {"todo", "doing"}]
AllTerminal == [s \in Sources |-> {"done"}]
NoStateLimit == [s \in Sources |-> [state \in States |-> MaxAgents[s]]]
OneInTodo == [s \in Sources |-> [NoStateLimit[s] EXCEPT !["todo"] = 1]]
NoBlockers == [k \in Key |-> {}]
FirstBlocks == [k \in Key |-> {i1} \ {k[2]}]
NoHosts == [s \in Sources |-> <<>>]
BothHosts == [s \in Sources |-> <<h1, h2>>]
ZeroCapacity == [s \in Sources |-> 0]
NoStart == [s \in Sources |-> None]
NoCommit == [s \in Sources |-> FALSE]
Keeps == [s \in Sources |-> FALSE]
ToDone == [k \in Key |-> "done"]

One == [s \in Sources |-> 1]
Two == [s \in Sources |-> 2]

OneSource == {S1}
TwoSources == {S1, S2}
SourceOrder == [s \in Sources |-> IF s = S1 THEN 1 ELSE 2]
IdRank == [i \in IssueIds |-> IF i = i1 THEN 1 ELSE IF i = i2 THEN 2 ELSE 3]
Rank == [k \in Key |-> 3 * IdRank[k[2]] + SourceOrder[k[1]]]

\* Every issue has a name of its own; two issues may be the same to a workspace.
OwnNames == [i \in IssueIds |-> IF i = i1 THEN {n1} ELSE {n2}]
SameName == [i \in IssueIds |-> {n1}]
OwnOrSameName == [i \in IssueIds |-> IF i = i1 THEN {n1, n2} ELSE {n2}]
NoRename == [i \in IssueIds |-> {}]
\* The first issue may be renamed to a name nobody else takes.
FirstRenamed == [i \in IssueIds |-> IF i = i1 THEN {n3} ELSE {}]

\* The first issue may be renamed to what the second one is called.
FirstTakesSecond == [i \in IssueIds |-> IF i = i1 THEN {n2} ELSE {}]

NoLeftovers == {}
OneLeftover == {<<Local, <<S1, n1>>>>}

\* The first source may run two agents, the second one.
TwoAndOne == [s \in Sources |-> IF s = S1 THEN 2 ELSE 1]

Commits == [s \in Sources |-> TRUE]
Removes == [s \in Sources |-> TRUE]
StartsDoing == [s \in Sources |-> "doing"]

=============================================================================

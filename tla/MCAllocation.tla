---------------------------- MODULE MCAllocation -----------------------------
(* Instances of Allocation: the interface "if" with a board "a" and an      *)
(* interface "hub", which has the boards "b" and "c" of its own.            *)
EXTENDS Allocation

Root == << >>
Hub == <<1>>

Rows(uids) == [k \in 1..Len(uids) |-> [local |-> k - 1, uid |-> uids[k]]]

\* A board that comes, or goes, before board a changes the address of a;
\* e is there so that a is noted before the table is through.
RootTables == {Rows(<<"if", "hub", "a", "e">>), Rows(<<"if", "hub", "d", "a", "e">>)}

\* One table for the interface, and boards that come and go behind the hub.
HubTables == {Rows(<<"hub", "b">>), Rows(<<"hub", "b", "c">>)}

RootChanges == [n \in {Root, Hub} |-> IF n = Root THEN RootTables ELSE {Rows(<<"hub", "b", "c">>)}]
HubChanges == [n \in {Root, Hub} |-> IF n = Root THEN {Rows(<<"if", "hub", "a">>)} ELSE HubTables]
MCInterface == {Root, Hub}
OnlyRoot == {Root}
OnlyHub == {Hub}
=============================================================================

------------------------------ MODULE MCStartup ------------------------------
(* Instances of Startup: the interface "if" with the hub "hub" and one more *)
(* place, where board "a" or board "b" is, before a board "d" that is not   *)
(* configured and keeps a from being the last row; board "c" is behind the  *)
(* hub.  Board "a" has one feature more than the intern queue has places.   *)
EXTENDS Startup

Root == << >>
Hub == <<1>>

Rows(uids) == [k \in 1..Len(uids) |-> [local |-> k - 1, uid |-> uids[k]]]

MCInterface == {Root, Hub}
OnlyRoot == {Root}
MCTables == [n \in {Root, Hub} |->
  IF n = Root THEN {Rows(<<"if", "hub">>), Rows(<<"if", "hub", "a", "d">>), Rows(<<"if", "hub", "b", "d">>)}
  ELSE {Rows(<<"hub", "c">>)}]
MCOrder == <<"c", "b", "hub", "a">>
MCFeatures == [u \in {"hub", "a", "b", "c"} |->
  CASE u = "hub" -> << >> [] u = "a" -> <<1, 2, 3, 4, 5, 6>> [] u = "b" -> <<1, 2>> [] u = "c" -> <<2>>]
MCMayRefuse == {<<"a", 3>>, <<"b", 1>>, <<"c", 2>>}
=============================================================================

---------------------------- MODULE MCNodeStates -----------------------------
(* Small instances of NodeStates: a node with a subnode, and three message  *)
(* types that differ in the size and in the possible answers of a request.  *)
EXTENDS NodeStates

\* A single node.
Leaf == {<<1>>}

\* Node 1 of the interface and its subnode 1.
Branch == {<<1>>, <<1, 1>>}

\* After MSG_NODETAB_GETALL (answered by MSG_NODETAB_COUNT), MSG_NODETAB_GETNEXT
\* (by MSG_NODETAB, or by MSG_NODETAB_COUNT when the table has changed) and
\* MSG_SYS_ENABLE (by nothing).
MCAnswers == [getall |-> <<"COUNT">>, getnext |-> <<"NODETAB", "COUNT">>, enable |-> << >>]
MCMaxResponse == [getall |-> 1, getnext |-> 2, enable |-> 0]
MCType == DOMAIN MCAnswers
MCUplink == {"COUNT", "NODETAB", "STALL"}

\* MSG_SYS_GET_MAGIC and MSG_SYS_GET_P_VERSION, for the runs that need fewer types.
PlainAnswers == [magic |-> <<"MAGIC">>, version |-> <<"VERSION">>]
PlainMaxResponse == [magic |-> 1, version |-> 1]
PlainType == DOMAIN PlainAnswers
PlainUplink == {"MAGIC", "VERSION"}
=============================================================================

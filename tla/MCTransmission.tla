--------------------------- MODULE MCTransmission ----------------------------
(* Instances of Transmission: node 1 reports occupancy with secure          *)
(* acknowledge, node 1.1 is its subnode.                                    *)
EXTENDS Transmission

Branch == {<<1>>, <<1, 1>>}

\* A request answered by one message, one with no answer, and the mirror of an
\* occupancy message.
MCAnswers == [magic |-> <<"MAGIC">>, enable |-> << >>, mirror |-> << >>]
MCMaxResponse == [magic |-> 1, enable |-> 0, mirror |-> 0]
MCSize == [magic |-> 1, enable |-> 1, mirror |-> 2]
MCType == DOMAIN MCAnswers
MCUplink == {"MAGIC", "OCC", "STALL"}

\* Only the caller sends to the subnode, the receiver may join it on node 1.
MCSendTo == [t \in {"main", "receiver"} |->
               IF t = "main" THEN Branch ELSE {<<1>>}]
=============================================================================

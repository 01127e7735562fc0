----------------------------- MODULE MCOccupancy ------------------------------
(* Instances of Occupancy: board "m", which is asked by the start and has   *)
(* SecAck, with two segments, and board "o" with one.                       *)
EXTENDS Occupancy

MCSegments == <<"m1", "o1", "m2">>
MCBoardOf == [m1 |-> "m", o1 |-> "o", m2 |-> "m"]
=============================================================================

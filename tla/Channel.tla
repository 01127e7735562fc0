------------------------------- MODULE Channel -------------------------------
(****************************************************************************)
(* What the transmission layer promises for a node that only one thread     *)
(* sends to: the messages of that thread reach the serial line in the order *)
(* they were sent in, each once, however many stations they wait at on the  *)
(* way.  Messages are their sequence numbers.                               *)
(****************************************************************************)
EXTENDS Naturals, Sequences

CONSTANTS Address, MaxSeqnum

VARIABLES
  waiting,         \* waiting[n]: messages for n that are not on the line, in order
  wire,            \* wire[n]: messages for n written to the line, in order
  next             \* next[n]: number of the next message to n

vars == <<waiting, wire, next>>

Init ==
  /\ waiting = [n \in Address |-> << >>]
  /\ wire = [n \in Address |-> << >>]
  /\ next = [n \in Address |-> 1]

\* A thread sends its next message to n; after MaxSeqnum comes 1.
Send(n) ==
  /\ waiting' = [waiting EXCEPT ![n] = Append(@, next[n])]
  /\ next' = [next EXCEPT ![n] = IF @ = MaxSeqnum THEN 1 ELSE @ + 1]
  /\ UNCHANGED wire

\* A flush writes some of the messages for every node.
Write ==
  /\ \A n \in Address : \E k \in 0..Len(waiting[n]) :
       /\ waiting'[n] = SubSeq(waiting[n], k + 1, Len(waiting[n]))
       /\ wire'[n] = wire[n] \o SubSeq(waiting[n], 1, k)
  /\ DOMAIN waiting' = Address
  /\ DOMAIN wire' = Address
  /\ UNCHANGED next

Next == Write \/ \E n \in Address : Send(n)

Spec == Init /\ [][Next]_vars
=============================================================================

------------------------------ MODULE NodeStates -----------------------------
(****************************************************************************)
(* The node state table between one calling thread and the nodes of the     *)
(* bus.  A message the table lets through reaches its node at once (the     *)
(* send buffer and concurrent callers are the business of Transmission).    *)
(* A node answers the requests it has got in the order it got them.         *)
(*                                                                          *)
(* What may go wrong on the bus is the constant Faults:                     *)
(*   "late"    a request stays unanswered for RESPONSE_QUEUE_EXPIRATION_SECS*)
(*   "lost"    an answer is dropped (bad CRC in bidib_receive_packet)       *)
(*   "unasked" a node sends a message of an answer type of its own accord   *)
(****************************************************************************)
EXTENDS NodeTable

CONSTANTS
  Faults,          \* a subset of {"late", "lost", "unasked"}
  MaxStored,       \* bound: messages stored per node (unbounded in the code)
  MaxOwed          \* bound: requests a node has open when a fault happens to it

ASSUME FaultAssumption == Faults \subseteq {"late", "lost", "unasked"}

VARIABLES
  expects,         \* expects[n]: the sequence number node n expects next
  owed             \* owed[n]: types of the requests node n has got and not answered

bus == <<expects, owed>>
vars == <<table, locals, bus>>

----------------------------------------------------------------------------
\* Node n gets message m.
Arrive(n, m) ==
  /\ expects' = [expects EXCEPT ![n] = NextSeqnum(m.seq)]
  /\ owed' = IF MaxResponse[m.type] > 0
             THEN [owed EXCEPT ![n] = Append(@, m.type)] ELSE owed

Numbered(n, t) == [type |-> t, seq |-> send_seqnum[n]]

(* bidib_buffer_message_without_data, bidib_buffer_message_with_data        *)
SendAtOnce(n, t) ==
  /\ SendNow(n, Numbered(n, t))
  /\ TakeSeqnum(n)
  /\ Arrive(n, Numbered(n, t))

SendLater(n, t) ==
  /\ Len(message_queue[n]) < MaxStored
  /\ Store(n, Numbered(n, t))
  /\ TakeSeqnum(n)
  /\ UNCHANGED bus

SendStored ==
  /\ Dequeue
  /\ Arrive(serving, Head(message_queue[serving]))

\* An uplink message of type u from n comes in; it may find nothing awaited.
Hear(n, u) ==
  \/ BeginUpdate(n, u)
  \/ /\ MutexFree
     /\ response_queue[n] = << >>
     /\ UNCHANGED <<table, locals>>

Answer(n) ==
  /\ owed[n] # << >>
  /\ \E i \in 1..Len(Answers[Head(owed[n])]) : Hear(n, Answers[Head(owed[n])][i])
  /\ owed' = [owed EXCEPT ![n] = Tail(@)]
  /\ UNCHANGED expects

LoseAnswer(n) ==
  /\ "lost" \in Faults
  /\ owed[n] # << >>
  /\ owed' = [owed EXCEPT ![n] = Tail(@)]
  /\ UNCHANGED <<table, locals, expects>>

Unasked(n, u) ==
  /\ "unasked" \in Faults
  /\ Len(owed[n]) < MaxOwed
  /\ BeginUpdate(n, u)
  /\ UNCHANGED bus

TimePasses(n) ==
  /\ "late" \in Faults
  /\ Len(owed[n]) < MaxOwed
  /\ Age(n)
  /\ UNCHANGED bus

\* MSG_STALL 1 and MSG_STALL 0.  bidib_split_packet passes them to state_update
\* first; MSG_STALL answers no request, so that call can only expire requests,
\* as an unasked message does, and is left to Unasked (u = MSG_STALL).
Busy(n) == ~stall[n] /\ StallOn(n) /\ UNCHANGED bus

Ready(n) == stall[n] /\ StallOff(n) /\ UNCHANGED bus

\* bidib_send_sys_reset: the nodes start afresh with the table.
SysReset ==
  /\ Reset
  /\ expects' = [n \in Address |-> 1]
  /\ owed' = [n \in Address |-> << >>]

\* The other iterations of the loops in the table's operations.
Step ==
  /\ Match \/ Expire \/ Skip \/ EndUpdate \/ EndServing \/ ServeNextAffected \/ EndStallOff
  /\ UNCHANGED bus

Init ==
  /\ TableInit /\ LocalsInit
  /\ expects = [n \in Address |-> 1]
  /\ owed = [n \in Address |-> << >>]

Send(n) == \E t \in Type : SendAtOnce(n, t) \/ SendLater(n, t)

Next ==
  \/ \E n \in Address : Send(n)
  \/ SendStored
  \/ Step
  \/ \E n \in Address : Answer(n)
  \/ \E n \in Address : LoseAnswer(n)
  \/ \E n \in Address, u \in Uplink : Unasked(n, u)
  \/ \E n \in Address : TimePasses(n)
  \/ \E n \in Address : Busy(n)
  \/ \E n \in Address : Ready(n)
  \/ SysReset

Spec == Init /\ [][Next]_vars

(* The receiver thread finishes the operation it is in; every node gets to  *)
(* answer and to take back its stall.  A node competes with others for the  *)
(* line, so that is strong fairness.  Nobody has to send or to reset.       *)
Fairness ==
  /\ WF_vars(SendStored) /\ WF_vars(Step)
  /\ \A n \in Address : SF_vars(Answer(n)) /\ SF_vars(Ready(n))

FairSpec == Spec /\ Fairness

----------------------------------------------------------------------------
(* Every variable has its type; the free mutex leaves no locals behind.     *)
TypeOK ==
  /\ TableTypeOK
  /\ expects \in [Address -> Seqnum]
  /\ owed \in [Address -> Seq(Type)]
  /\ MutexFree => node = NoNode /\ serving = NoNode

(* The numbers of the messages a node gets are consecutive, and the stored  *)
(* ones continue them up to the next number to be given out: no message is  *)
(* lost, doubled or overtaken, neither by storing nor by dequeuing it.      *)
Continues(q, first, next) ==
  /\ \A i \in 2..Len(q) : q[i].seq = NextSeqnum(q[i - 1].seq)
  /\ q # << >> => q[1].seq = first
  /\ next = IF q = << >> THEN first ELSE NextSeqnum(q[Len(q)].seq)

Consecutive ==
  \A n \in Address : Continues(message_queue[n], expects[n], send_seqnum[n])

(* Nothing reaches a node while it or a supernode other than the interface  *)
(* is stalled (a reset sets the expected numbers back).                     *)
StallObeyed ==
  [][\A n \in Address :
       (\E s \in Supernodes(n) : stall[s]) => expects'[n] = expects[n] \/ SysReset]_vars

(* Who waits for a release: only nodes at or below a node that is stalled   *)
(* (or being released right now), each at most once.                        *)
AffectedOK ==
  \A s \in Address :
    LET q == stall_affected[s] IN
    /\ q # << >> => stall[s] \/ (fn = "update_stall" /\ node = s)
    /\ \A i \in 1..Len(q) : s \in Supernodes(q[i])
    /\ \A i, j \in 1..Len(q) : q[i] = q[j] => i = j

(* A node is stranded when messages are stored for it and no event that     *)
(* tries them is to come: no request is open and no stalled node has it in  *)
(* its queue.  Later messages join the stored ones.                         *)
Stranded(n) ==
  /\ message_queue[n] # << >>
  /\ response_queue[n] = << >>
  /\ serving # n
  /\ \A s \in Address : n \notin Members(stall_affected[s])

NoneStranded == \A n \in Address : ~Stranded(n)

(* The expiry of the last open request is the only way into that state.     *)
StrandedOnlyByExpiry ==
  [][\A n \in Address : Stranded(n)' => Stranded(n) \/ (Expire /\ node = n)]_vars

(* Neither an answer nor a new message leads out of it, only a stall of     *)
(* the node or a supernode, by which it is registered again, or a reset.    *)
StrandedUntilStall ==
  [][\A n \in Address :
       Stranded(n) => \/ Stranded(n)'
                      \/ \E s \in Supernodes(n) : stall[s]
                      \/ SysReset]_vars

(* As long as every request is answered in time, the response queue is the  *)
(* list of what the node still has to answer: an answer is always booked on *)
(* the request it belongs to, and the node is never made to owe more than   *)
(* response_limit bytes.                                                    *)
Mirror ==
  MutexFree =>
    \A n \in Address :
      /\ Len(response_queue[n]) = Len(owed[n])
      /\ \A i \in 1..Len(owed[n]) : response_queue[n][i].type = owed[n][i]

(* As long as every request is answered in time, a message is stored only   *)
(* while its node is stalled or the first stored message does not fit.      *)
StoredForReason ==
  MutexFree => \A n \in Address : ~CanDequeue(n)

(* If from some point on no node stalls, every stored message is handed     *)
(* over in the end.  (Two nodes on one branch that stall in turns can hold  *)
(* a message of the lower one back for ever, each release finding the other *)
(* one stalled.)                                                            *)
StoredIsSent ==
  <>[](\A n \in Address : ~stall[n])
    => \A n \in Address : \A s \in Seqnum :
         message_queue[n] # << >> /\ Head(message_queue[n]).seq = s
           ~> message_queue[n] = << >> \/ Head(message_queue[n]).seq # s
=============================================================================

----------------------------- MODULE Transmission ----------------------------
(****************************************************************************)
(* The way of a downlink message through the threads of the library, from   *)
(* the call of a send function to the serial line:                          *)
(*   - calling threads run bidib_buffer_message_*: they take a number, ask  *)
(*     the node state table, and put the message into the send buffer, in   *)
(*     three separate critical sections;                                    *)
(*   - the receiver thread handles uplink messages; the table makes it put  *)
(*     stored messages into the buffer, and it answers occupancy messages   *)
(*     of nodes with secure acknowledge with a message of its own;          *)
(*   - the autoflush thread and bidib_flush write the buffer to the line.   *)
(*                                                                          *)
(* Requests are answered before they expire here, all that a node sends     *)
(* unasked is occupancy and stalls, and the system is not reset (README.md  *)
(* forbids to send during a reset).                                         *)
(****************************************************************************)
EXTENDS NodeTable, FiniteSets

CONSTANTS
  Caller,          \* application threads
  Receiver,        \* the thread of bidib_auto_receive
  SendTo,          \* SendTo[t]: the nodes thread t sends to; for the receiver
                   \* the nodes with secack_on
  CallType,        \* types of the messages that callers send
  ReplyType,       \* MSG_BM_MIRROR_OCC
  Occupancy, Stall,\* the uplink types MSG_BM_OCC and MSG_STALL
  Size,            \* Size[t]: bytes of a message of type t
  pkt_max_cap,     \* bytes of the buffer that are used
  MinSize,         \* bytes of the shortest message (4 in the code)
  MaxCalls,        \* bound: messages a caller sends
  MaxEvents        \* bound: occupancy messages and stalls

Thread == Caller \cup {Receiver}

ASSUME TransmissionAssumption ==
  /\ IsFiniteSet(Caller) /\ Receiver \notin Caller
  /\ SendTo \in [Thread -> SUBSET Address]
  /\ CallType \subseteq Type /\ ReplyType \in Type
  /\ {Occupancy, Stall} \subseteq Uplink
  /\ pkt_max_cap \in Nat /\ MinSize \in Nat
  /\ Size \in [Type -> 1..pkt_max_cap]
  /\ MaxCalls \in Nat /\ MaxEvents \in Nat

VARIABLES
  pc,              \* pc[t]: "idle", or how far t's bidib_buffer_message_* has come
  job,             \* job[t]: the message t sends, and the node it is for
  given,           \* history: given[n][s]: how often n's number s was given out
  buffer,          \* buffer[n]: the messages for n in the send buffer, in order
  buffer_index,    \* the bytes in it
  wire,            \* wire[n]: numbers of the messages for n on the line
  owed,            \* owed[n]: what n has got since the last request it answered
  heard,           \* the uplink message the receiver handles, <<node, type>>
  dequeued,        \* sent_count > 0 in bidib_node_try_queued_messages
  calls, events    \* what is left of MaxCalls and MaxEvents

sending == <<pc, job, calls, given>>
line == <<buffer, buffer_index, wire, owed>>
receiving == <<heard, dequeued, events>>
vars == <<table, locals, sending, line, receiving>>

Nothing == <<NoNode, NoType>>
Job == [to : Address, msg : Message]
NoJob == [to |-> NoNode, msg |-> NoType]

----------------------------------------------------------------------------
(* bidib_flush_impl: the messages of q go to the line and reach their nodes.*)
Numbers(q) == [i \in 1..Len(q) |-> q[i].seq]
Types(q) == [i \in 1..Len(q) |-> q[i].type]
NoMessages == [n \in Address |-> << >>]
With(q, e) == [q EXCEPT ![e.to] = Append(@, e.msg)]

Write(q) ==
  /\ wire' = [n \in Address |-> wire[n] \o Numbers(q[n])]
  /\ owed' = [n \in Address |-> owed[n] \o Types(q[n])]

Flush ==
  IF buffer_index > 0
  THEN Write(buffer) /\ buffer' = NoMessages /\ buffer_index' = 0
  ELSE UNCHANGED line

\* Mutant: a message that does not fit replaces the buffer, and is not flushed before.
AddToBufferDropping(e) ==
  LET before == buffer_index + Size[e.msg.type] > pkt_max_cap
      kept == IF before THEN NoMessages ELSE buffer
      index == (IF before THEN 0 ELSE buffer_index) + Size[e.msg.type]
      after == index > pkt_max_cap - MinSize
  IN  /\ Write(IF after THEN With(kept, e) ELSE NoMessages)
      /\ buffer' = IF after THEN NoMessages ELSE With(kept, e)
      /\ buffer_index' = IF after THEN 0 ELSE index

(* bidib_add_to_buffer: the buffer is flushed before e if e does not fit,   *)
(* and after e if no further message would.                                 *)
AddToBuffer(e) ==
  LET before == buffer_index + Size[e.msg.type] > pkt_max_cap
      index == (IF before THEN 0 ELSE buffer_index) + Size[e.msg.type]
      after == index > pkt_max_cap - MinSize
  IN  /\ Write(IF after THEN With(buffer, e) ELSE IF before THEN buffer ELSE NoMessages)
      /\ buffer' = IF after THEN NoMessages
                   ELSE With(IF before THEN NoMessages ELSE buffer, e)
      /\ buffer_index' = IF after THEN 0 ELSE index

----------------------------------------------------------------------------
(* A thread in bidib_buffer_message_*.                                      *)

GoTo(t, l) == pc' = [pc EXCEPT ![t] = l]

\* t sends a message of type y to n; it takes the number first.
TakeNumber(t, n, y) ==
  /\ MutexFree
  /\ pc[t] = "idle"
  /\ n \in SendTo[t]
  /\ TakeSeqnum(n)
  /\ job' = [job EXCEPT ![t] = [to |-> n, msg |-> [type |-> y, seq |-> send_seqnum[n]]]]
  /\ given' = [given EXCEPT ![n][send_seqnum[n]] = @ + 1]
  /\ GoTo(t, "numbered")
  /\ UNCHANGED <<stall, stall_affected, response_queue, response_bytes, message_queue,
                 locals, line>>

Call(t, n, y) ==
  /\ calls[t] > 0
  /\ calls' = [calls EXCEPT ![t] = @ - 1]
  /\ TakeNumber(t, n, y)
  /\ UNCHANGED receiving

\* The receiver flushes after its reply, also after one that was stored.
AfterSend(t) == IF t = Receiver THEN "flush" ELSE "idle"

TrySend(t) ==
  /\ pc[t] = "numbered"
  /\ \/ SendNow(job[t].to, job[t].msg) /\ GoTo(t, "accepted")
     \/ Store(job[t].to, job[t].msg) /\ GoTo(t, AfterSend(t))
  /\ UNCHANGED <<send_seqnum, job, calls, given, line, receiving>>

PutIntoBuffer(t) ==
  /\ pc[t] = "accepted"
  /\ AddToBuffer(job[t])
  /\ GoTo(t, AfterSend(t))
  /\ UNCHANGED <<table, locals, job, calls, given, receiving>>

\* bidib_auto_flush, or bidib_flush called by the application
AutoFlush == Flush /\ UNCHANGED <<table, locals, sending, receiving>>

----------------------------------------------------------------------------
(* The receiver: bidib_split_packet calls bidib_node_state_update and then  *)
(* bidib_handle_received_message for each uplink message.                   *)
Listening == heard = Nothing /\ MutexFree /\ pc[Receiver] = "idle"

Hear(n, u) ==
  /\ Listening
  /\ heard' = <<n, u>>
  /\ \/ BeginUpdate(n, u)
     \/ response_queue[n] = << >> /\ UNCHANGED <<table, locals>>
  /\ UNCHANGED <<sending, buffer, buffer_index, wire, dequeued>>

\* The oldest request among what n has got.
HearAnswer(n) ==
  /\ \E k \in 1..Len(owed[n]) :
       /\ MaxResponse[owed[n][k]] > 0
       /\ \A j \in 1..(k - 1) : MaxResponse[owed[n][j]] = 0
       /\ \E i \in 1..Len(Answers[owed[n][k]]) : Hear(n, Answers[owed[n][k]][i])
       /\ owed' = [owed EXCEPT ![n] = SubSeq(@, k + 1, Len(@))]
  /\ UNCHANGED events

HearEvent(n, u) ==
  /\ events > 0
  /\ events' = events - 1
  /\ Hear(n, u)
  /\ UNCHANGED owed

HearOccupancy(n) == HearEvent(n, Occupancy)
HearStall(n) == ~stall[n] /\ HearEvent(n, Stall)

HearReady(n) ==
  /\ stall[n]
  /\ Hear(n, Stall)
  /\ UNCHANGED <<owed, events>>

\* Turns of the loops of state_update and update_stall.
UpdateStep ==
  /\ Match \/ Skip \/ EndUpdate \/ ServeNextAffected \/ EndStallOff
  /\ UNCHANGED <<sending, line, receiving>>

SendStored ==
  /\ Dequeue
  /\ AddToBuffer([to |-> serving, msg |-> Head(message_queue[serving])])
  /\ dequeued' = TRUE
  /\ UNCHANGED <<sending, heard, events>>

EndSendStored ==
  /\ EndServing
  /\ IF dequeued THEN Flush ELSE UNCHANGED line
  /\ dequeued' = FALSE
  /\ UNCHANGED <<sending, heard, events>>

\* state_update has returned; what is left to do depends on the type.
Updated(u) == heard[1] \in Address /\ heard[2] = u /\ MutexFree /\ pc[Receiver] = "idle"

HandleStall ==
  /\ Updated(Stall)
  /\ IF stall[heard[1]] THEN StallOff(heard[1]) ELSE StallOn(heard[1])
  /\ heard' = Nothing
  /\ UNCHANGED <<sending, line, dequeued, events>>

\* A node without secack_on gets no reply.
HandleOther ==
  /\ \E u \in Uplink \ {Stall} :
       Updated(u) /\ (u = Occupancy => heard[1] \notin SendTo[Receiver])
  /\ heard' = Nothing
  /\ UNCHANGED <<table, locals, sending, line, dequeued, events>>

\* bidib_send_bm_mirror_occ and bidib_flush
Reply ==
  /\ Updated(Occupancy)
  /\ TakeNumber(Receiver, heard[1], ReplyType)
  /\ UNCHANGED <<calls, receiving>>

FlushReply ==
  /\ pc[Receiver] = "flush"
  /\ Flush
  /\ GoTo(Receiver, "idle")
  /\ heard' = Nothing
  /\ UNCHANGED <<table, locals, job, calls, given, dequeued, events>>

----------------------------------------------------------------------------
Init ==
  /\ TableInit /\ LocalsInit
  /\ pc = [t \in Thread |-> "idle"]
  /\ job = [t \in Thread |-> NoJob]
  /\ calls = [t \in Caller |-> MaxCalls]
  /\ given = [n \in Address |-> [s \in Seqnum |-> 0]]
  /\ buffer = NoMessages /\ buffer_index = 0
  /\ wire = [n \in Address |-> << >>]
  /\ owed = [n \in Address |-> << >>]
  /\ heard = Nothing /\ dequeued = FALSE /\ events = MaxEvents

Handle == UpdateStep \/ SendStored \/ EndSendStored \/ HandleStall \/ HandleOther
            \/ Reply \/ FlushReply

Next ==
  \/ \E t \in Caller, n \in Address, y \in CallType : Call(t, n, y)
  \/ \E t \in Thread : TrySend(t) \/ PutIntoBuffer(t)
  \/ AutoFlush
  \/ \E n \in Address : HearAnswer(n) \/ HearOccupancy(n) \/ HearStall(n) \/ HearReady(n)
  \/ Handle

Spec == Init /\ [][Next]_vars

(* Every thread goes on with what it has begun, the buffer is flushed again *)
(* and again, and a node answers and takes back its stall.  The mutex is    *)
(* held by a thread that goes on, so it is free again and again; a thread   *)
(* that waits for it gets it in the end (strong fairness).                  *)
Fairness ==
  /\ WF_vars(AutoFlush) /\ WF_vars(Handle)
  /\ \A t \in Thread : SF_vars(TrySend(t)) /\ WF_vars(PutIntoBuffer(t))
  /\ \A n \in Address : SF_vars(HearAnswer(n)) /\ SF_vars(HearReady(n))

FairSpec == Spec /\ Fairness

----------------------------------------------------------------------------
(* Every variable has its type; a thread between its critical sections has  *)
(* a message for a node it sends to; and the receiver is working on a       *)
(* message while it is in an update or sends a reply, never in both.        *)
TypeOK ==
  /\ TableTypeOK
  /\ pc \in [Thread -> {"idle", "numbered", "accepted", "flush"}]
  /\ job \in [Thread -> Job \cup {NoJob}]
  /\ \A t \in Thread :
       pc[t] \in {"numbered", "accepted"} => job[t] \in Job /\ job[t].to \in SendTo[t]
  /\ given \in [Address -> [Seqnum -> Nat]]
  /\ buffer \in [Address -> Seq(Message)]
  /\ buffer_index \in 0..pkt_max_cap
  /\ buffer_index = 0 => buffer = NoMessages
  /\ wire \in [Address -> Seq(Seqnum)]
  /\ owed \in [Address -> Seq(Type)]
  /\ heard \in (Address \X Uplink) \cup {Nothing}
  /\ dequeued \in BOOLEAN /\ (dequeued => serving # NoNode)
  /\ calls \in [Caller -> Nat] /\ events \in Nat
  /\ pc[Receiver] # "idle" => heard # Nothing /\ MutexFree
  /\ fn = "state_update" => heard # Nothing

\* Where the messages with number s for node n are, and how many.
Times(s, q) == Cardinality({i \in DOMAIN q : q[i] = s})
Carriers(s, n) ==
  {t \in Thread : pc[t] \in {"numbered", "accepted"} /\ job[t].to = n /\ job[t].msg.seq = s}
Copies(s, n) ==
  Cardinality(Carriers(s, n)) + Times(s, Numbers(message_queue[n]))
    + Times(s, Numbers(buffer[n])) + Times(s, wire[n])

(* For every number given out there is exactly one message, which is in the *)
(* hands of a thread, stored, in the buffer or on the line: whichever       *)
(* threads race, no message gets lost or is sent twice.                     *)
Conserved == \A n \in Address : \A s \in Seqnum : Copies(s, n) = given[n][s]

(* A node never has more than response_limit bytes of answers to give: the  *)
(* table books a request before it can be on its way.  `due' lists the      *)
(* bytes n has to give for what it has got, message by message.             *)
NotOverloaded ==
  \A n \in Address :
    \E due \in [0..Len(owed[n]) -> 0..response_bytes[n]] :
      /\ due[0] = 0
      /\ \A i \in 1..Len(owed[n]) : due[i] = due[i - 1] + MaxResponse[owed[n][i]]

(* Every message reaches the line in the end, also one that was stored: for *)
(* every node there is again and again a moment when nothing waits.  (The   *)
(* callers fall silent after MaxCalls messages, the nodes after MaxEvents.) *)
OnLine(n) == \A s \in Seqnum : Times(s, wire[n]) = given[n][s]

AllTransmitted == \A n \in Address : []<>OnLine(n)

----------------------------------------------------------------------------
(* For the nodes with one sender the stations a message passes form one     *)
(* first-in-first-out channel.                                              *)
Exclusive ==
  {n \in Address : \E t \in Thread : \A u \in Thread : n \in SendTo[u] <=> u = t}

InHand(n, l) ==
  LET t == CHOOSE u \in Thread : n \in SendTo[u]
  IN  IF pc[t] = l /\ job[t].to = n THEN <<job[t].msg.seq>> ELSE << >>

Waiting ==
  [n \in Exclusive |-> Numbers(buffer[n]) \o InHand(n, "accepted")
                         \o Numbers(message_queue[n]) \o InHand(n, "numbered")]

Ordered == INSTANCE Channel WITH
  Address <- Exclusive, waiting <- Waiting,
  wire <- [n \in Exclusive |-> wire[n]], next <- [n \in Exclusive |-> send_seqnum[n]]

(* The transmission layer implements the channel for those nodes.           *)
OrderedSpec == Ordered!Spec
=============================================================================

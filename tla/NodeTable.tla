------------------------------ MODULE NodeTable ------------------------------
(****************************************************************************)
(* The node state table of src/transmission/bidib_transmission_node_states.c*)
(* For every node of the BiDiB bus the table decides whether a downlink     *)
(* message may be put into the send buffer now or has to be stored: a node  *)
(* may owe the host at most response_limit bytes of answers, and a stalled  *)
(* node and its subnodes get nothing.                                       *)
(*                                                                          *)
(* All operations hold bidib_node_state_table_mutex.  Those without a loop  *)
(* are one action.  The two that loop (state_update, update_stall) are one  *)
(* action per iteration; `fn', `node', `got', `at' and `serving' are their  *)
(* locals, and the mutex is free exactly when fn = "none".                  *)
(*                                                                          *)
(* A node that is not in the hash table behaves like one with a fresh entry *)
(* (bidib_node_query), so the table is a total function on addresses.       *)
(****************************************************************************)
EXTENDS Naturals, Sequences

CONSTANTS
  Address,         \* node addresses in use: sequences of at most 3 address bytes;
                   \* <<>> is the interface (address 0x00 0x00 0x00)
  Type,            \* types of downlink messages
  Uplink,          \* types of uplink messages
  Answers,         \* Answers[t]: the uplink types that answer t, in table order
  MaxResponse,     \* MaxResponse[t]: size of the answer to t in bytes, 0 if there is none
  response_limit,  \* answer bytes a node may owe (48 in the code)
  MaxSeqnum,       \* last sequence number before the wrap to 1 (255 in the code)
  NoNode, NoType   \* NULL values of the locals

ASSUME AddressAssumption ==
  /\ \A a \in Address : a \in Seq(1..255) /\ Len(a) <= 3
  /\ NoNode \notin Address

ASSUME TypeAssumption ==
  /\ NoType \notin Uplink
  /\ Answers \in [Type -> Seq(Uplink)]
  /\ MaxResponse \in [Type -> Nat]
  /\ response_limit \in Nat
  /\ \A t \in Type : MaxResponse[t] <= response_limit
  /\ \A t \in Type : MaxResponse[t] > 0 => Answers[t] # << >>

ASSUME SeqnumAssumption == MaxSeqnum \in Nat \ {0}

VARIABLES
  stall,           \* stall[n]: n has sent MSG_STALL 1
  stall_affected,  \* stall_affected[n]: nodes whose messages wait for n's MSG_STALL 0
  response_queue,  \* response_queue[n]: requests n has not answered, oldest first
  response_bytes,  \* current_response_bytes
  message_queue,   \* message_queue[n]: stored messages for n
  send_seqnum,     \* number of the next message to n
  fn, node, got, at, serving

table == <<stall, stall_affected, response_queue, response_bytes,
           message_queue, send_seqnum>>
locals == <<fn, node, got, at, serving>>

Seqnum   == 1..MaxSeqnum
Message  == [type : Type, seq : Seqnum]
Response == [type : Type, old : BOOLEAN]

NextSeqnum(s) == IF s = MaxSeqnum THEN 1 ELSE s + 1

Members(q) == {q[i] : i \in DOMAIN q}

MutexFree == fn = "none"

----------------------------------------------------------------------------
(* The supernodes of n, n included.  The walk of bidib_node_stall_ready     *)
(* ends when the first address byte is 0, so the interface is never on it.  *)
Supernodes(n) ==
  {s \in Address : /\ Len(s) \in 1..Len(n)
                   /\ \A i \in 1..Len(s) : s[i] = n[i]}

StalledAbove(n) == {s \in Supernodes(n) : stall[s]}

\* Mutant: only the node's own stall counts.
StallReadyOwn(n) == n \notin DOMAIN stall \/ ~stall[n]

StallReady(n) == StalledAbove(n) = {}

\* The walk goes from n towards the interface and stops at the first stalled node.
NearestStalled(n) ==
  CHOOSE s \in StalledAbove(n) : \A t \in StalledAbove(n) : Len(t) <= Len(s)

\* Mutants: the entry is added again on each try; it is not added at all.
AwaitReleaseAgain(n) ==
  stall_affected' =
    [s \in Address |-> IF ~StallReady(n) /\ s = NearestStalled(n)
                       THEN Append(stall_affected[s], n) ELSE stall_affected[s]]
AwaitReleaseNot(n) == UNCHANGED stall_affected

\* What bidib_node_stall_ready leaves behind: n waits for the nearest stalled node.
AwaitRelease(n) ==
  stall_affected' =
    [s \in Address |->
       IF ~StallReady(n) /\ s = NearestStalled(n) /\ n \notin Members(stall_affected[s])
       THEN Append(stall_affected[s], n)
       ELSE stall_affected[s]]

\* Mutant: the answer to come is not counted.
HasCapacityLate(n, t) == response_bytes[n] <= response_limit

HasCapacity(n, t) == response_bytes[n] + MaxResponse[t] <= response_limit

\* Mutant: push_head for push_tail.
AddResponseInFront(n, t) ==
  IF MaxResponse[t] > 0
  THEN /\ response_bytes' = [response_bytes EXCEPT ![n] = @ + MaxResponse[t]]
       /\ response_queue' =
            [response_queue EXCEPT ![n] = <<[type |-> t, old |-> FALSE]>> \o @]
  ELSE UNCHANGED <<response_bytes, response_queue>>

AddResponse(n, t) ==
  IF MaxResponse[t] > 0
  THEN /\ response_bytes' = [response_bytes EXCEPT ![n] = @ + MaxResponse[t]]
       /\ response_queue' =
            [response_queue EXCEPT ![n] = Append(@, [type |-> t, old |-> FALSE])]
  ELSE UNCHANGED <<response_bytes, response_queue>>

PopResponse(n) ==
  /\ response_queue' = [response_queue EXCEPT ![n] = Tail(@)]
  /\ response_bytes' =
       [response_bytes EXCEPT ![n] = @ - MaxResponse[Head(response_queue[n]).type]]

Return ==
  /\ fn' = "none"  /\ node' = NoNode /\ got' = NoType /\ at' = 0

----------------------------------------------------------------------------
TableInit ==
  /\ stall = [n \in Address |-> FALSE]
  /\ stall_affected = [n \in Address |-> << >>]
  /\ response_queue = [n \in Address |-> << >>]
  /\ response_bytes = [n \in Address |-> 0]
  /\ message_queue = [n \in Address |-> << >>]
  /\ send_seqnum = [n \in Address |-> 1]

LocalsInit ==
  fn = "none" /\ node = NoNode /\ got = NoType /\ at = 0 /\ serving = NoNode

(* bidib_node_state_get_and_incr_send_seqnum *)
TakeSeqnum(n) == send_seqnum' = [send_seqnum EXCEPT ![n] = NextSeqnum(@)]

\* Mutant: messages already stored are not looked at.
SendNowOvertaking(n, m) ==
  /\ MutexFree
  /\ StallReady(n)
  /\ HasCapacity(n, m.type)
  /\ AddResponse(n, m.type)
  /\ UNCHANGED <<stall, stall_affected, message_queue, locals>>

(* bidib_node_try_send, returning true: the caller puts m into the buffer.  *)
SendNow(n, m) ==
  /\ MutexFree
  /\ StallReady(n)
  /\ message_queue[n] = << >>
  /\ HasCapacity(n, m.type)
  /\ AddResponse(n, m.type)
  /\ UNCHANGED <<stall, stall_affected, message_queue, locals>>

(* bidib_node_try_send, returning false: the message is stored.             *)
Store(n, m) ==
  /\ MutexFree
  /\ ~(StallReady(n) /\ message_queue[n] = << >> /\ HasCapacity(n, m.type))
  /\ message_queue' = [message_queue EXCEPT ![n] = Append(@, m)]
  /\ AwaitRelease(n)
  /\ UNCHANGED <<stall, response_queue, response_bytes, locals>>

----------------------------------------------------------------------------
(* bidib_node_try_queued_messages, called for `serving'.                    *)
CanDequeue(n) ==
  /\ StallReady(n)
  /\ message_queue[n] # << >>
  /\ HasCapacity(n, Head(message_queue[n]).type)

\* Mutant: the answer to come is not booked.
DequeueUnbooked ==
  /\ serving # NoNode
  /\ CanDequeue(serving)
  /\ message_queue' = [message_queue EXCEPT ![serving] = Tail(@)]
  /\ UNCHANGED <<stall, stall_affected, response_queue, response_bytes, send_seqnum, locals>>

\* One turn of its loop: the stored message at the head goes into the buffer.
Dequeue ==
  /\ serving # NoNode
  /\ CanDequeue(serving)
  /\ AddResponse(serving, Head(message_queue[serving]).type)
  /\ message_queue' = [message_queue EXCEPT ![serving] = Tail(@)]
  /\ UNCHANGED <<stall, stall_affected, send_seqnum, locals>>

\* The end of its loop; state_update returns with it, update_stall goes on.
EndServing ==
  /\ serving # NoNode
  /\ ~CanDequeue(serving)
  /\ AwaitRelease(serving)
  /\ serving' = NoNode
  /\ IF fn = "state_update" THEN Return ELSE UNCHANGED <<fn, node, got, at>>
  /\ UNCHANGED <<stall, response_queue, response_bytes, message_queue, send_seqnum>>

----------------------------------------------------------------------------
(* bidib_node_state_update: n has sent an uplink message of type u.  With   *)
(* an empty response queue the call changes nothing.                        *)
BeginUpdate(n, u) ==
  /\ MutexFree
  /\ response_queue[n] # << >>
  /\ fn' = "state_update" /\ node' = n /\ got' = u /\ at' = 1
  /\ UNCHANGED <<table, serving>>

Updating == fn = "state_update" /\ serving = NoNode
HeadResponse == Head(response_queue[node])
HeadAnswers == Answers[HeadResponse.type]
Matches == HeadAnswers[at] = got

\* Mutant: the freed capacity is not used for stored messages.
MatchOnly ==
  /\ Updating
  /\ at <= Len(HeadAnswers)
  /\ Matches
  /\ PopResponse(node)
  /\ Return
  /\ UNCHANGED <<stall, stall_affected, message_queue, send_seqnum, serving>>

\* The oldest request accepts the message: its bytes are free again.
Match ==
  /\ Updating
  /\ at <= Len(HeadAnswers)
  /\ Matches
  /\ PopResponse(node)
  /\ serving' = node
  /\ UNCHANGED <<stall, stall_affected, message_queue, send_seqnum, fn, node, got, at>>

\* Mutant: the bytes of the request given up stay booked.
ExpireKeepingBytes ==
  /\ Updating
  /\ at <= Len(HeadAnswers)
  /\ ~Matches
  /\ HeadResponse.old
  /\ response_queue' = [response_queue EXCEPT ![node] = Tail(@)]
  /\ IF Len(response_queue[node]) = 1
     THEN Return
     ELSE at' = at + 1 /\ UNCHANGED <<fn, node, got>>
  /\ UNCHANGED <<stall, stall_affected, response_bytes, message_queue, send_seqnum, serving>>

\* It does not, and it is older than RESPONSE_QUEUE_EXPIRATION_SECS: it is
\* given up.  The next one is looked at from answer at + 1 on, and no stored
\* message is tried.
Expire ==
  /\ Updating
  /\ at <= Len(HeadAnswers)
  /\ ~Matches
  /\ HeadResponse.old
  /\ PopResponse(node)
  /\ IF Len(response_queue[node]) = 1
     THEN Return
     ELSE at' = at + 1 /\ UNCHANGED <<fn, node, got>>
  /\ UNCHANGED <<stall, stall_affected, message_queue, send_seqnum, serving>>

\* It does not, and may still be answered.
Skip ==
  /\ Updating
  /\ at <= Len(HeadAnswers)
  /\ ~Matches
  /\ ~HeadResponse.old
  /\ at' = at + 1
  /\ UNCHANGED <<table, fn, node, got, serving>>

EndUpdate ==
  /\ Updating
  /\ at > Len(HeadAnswers)
  /\ Return
  /\ UNCHANGED <<table, serving>>

----------------------------------------------------------------------------
(* bidib_node_update_stall *)
StallOn(n) ==
  /\ MutexFree
  /\ stall' = [stall EXCEPT ![n] = TRUE]
  /\ UNCHANGED <<stall_affected, response_queue, response_bytes, message_queue,
                 send_seqnum, locals>>

\* Mutant: the nodes that wait for the release are forgotten.
StallOffOnly(n) ==
  /\ MutexFree
  /\ stall' = [stall EXCEPT ![n] = FALSE]
  /\ UNCHANGED <<stall_affected, response_queue, response_bytes, message_queue,
                 send_seqnum, locals>>

StallOff(n) ==
  /\ MutexFree
  /\ stall' = [stall EXCEPT ![n] = FALSE]
  /\ fn' = "update_stall" /\ node' = n
  /\ UNCHANGED <<stall_affected, response_queue, response_bytes, message_queue,
                 send_seqnum, got, at, serving>>

Releasing == fn = "update_stall" /\ serving = NoNode

ServeNextAffected ==
  /\ Releasing
  /\ stall_affected[node] # << >>
  /\ serving' = Head(stall_affected[node])
  /\ stall_affected' = [stall_affected EXCEPT ![node] = Tail(@)]
  /\ UNCHANGED <<stall, response_queue, response_bytes, message_queue, send_seqnum,
                 fn, node, got, at>>

EndStallOff ==
  /\ Releasing
  /\ stall_affected[node] = << >>
  /\ Return
  /\ UNCHANGED <<table, serving>>

----------------------------------------------------------------------------
\* Mutant: the nodes keep their numbers.
ResetKeepingNumbers ==
  /\ MutexFree
  /\ stall' = [n \in Address |-> FALSE]
  /\ stall_affected' = [n \in Address |-> << >>]
  /\ response_queue' = [n \in Address |-> << >>]
  /\ response_bytes' = [n \in Address |-> 0]
  /\ message_queue' = [n \in Address |-> << >>]
  /\ UNCHANGED <<send_seqnum, locals>>

(* bidib_node_state_table_reset *)
Reset ==
  /\ MutexFree
  /\ stall' = [n \in Address |-> FALSE]
  /\ stall_affected' = [n \in Address |-> << >>]
  /\ response_queue' = [n \in Address |-> << >>]
  /\ response_bytes' = [n \in Address |-> 0]
  /\ message_queue' = [n \in Address |-> << >>]
  /\ send_seqnum' = [n \in Address |-> 1]
  /\ UNCHANGED locals

(* Time: the oldest fresh request to n reaches RESPONSE_QUEUE_EXPIRATION_SECS. *)
Age(n) ==
  /\ MutexFree
  /\ \E i \in 1..Len(response_queue[n]) :
       /\ ~response_queue[n][i].old
       /\ \A j \in 1..(i - 1) : response_queue[n][j].old
       /\ response_queue' = [response_queue EXCEPT ![n][i].old = TRUE]
  /\ UNCHANGED <<stall, stall_affected, response_bytes, message_queue, send_seqnum, locals>>

----------------------------------------------------------------------------
TableTypeOK ==
  /\ stall \in [Address -> BOOLEAN]
  /\ stall_affected \in [Address -> Seq(Address)]
  /\ response_queue \in [Address -> Seq(Response)]
  /\ response_bytes \in [Address -> 0..response_limit]
  /\ message_queue \in [Address -> Seq(Message)]
  /\ send_seqnum \in [Address -> Seqnum]
  /\ fn \in {"none", "state_update", "update_stall"}
  /\ node \in Address \cup {NoNode}
  /\ got \in Uplink \cup {NoType}
  /\ at \in Nat
  /\ serving \in Address \cup {NoNode}

(* current_response_bytes is exactly the sum of the answers still awaited,  *)
(* whatever mix of answers, expiries, dequeued messages and resets led      *)
(* there: `sum' lists the running totals over the response queue.           *)
Totals(q, total) ==
  \E sum \in [0..Len(q) -> 0..total] :
    /\ sum[0] = 0
    /\ sum[Len(q)] = total
    /\ \A i \in 1..Len(q) : sum[i] = sum[i - 1] + MaxResponse[q[i].type]
    /\ \A i \in 0..Len(q) : \A j \in 0..i : sum[j] <= sum[i]

BudgetExact == \A n \in Address : Totals(response_queue[n], response_bytes[n])
=============================================================================

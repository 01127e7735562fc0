----------------------------- MODULE Allocation ------------------------------
(****************************************************************************)
(* How a reset finds the nodes of the bus: bidib_state_init_allocation_table*)
(* of src/state/bidib_state.c asks the interface, and then every interface  *)
(* node found, for its node table, row by row, and notes the address of     *)
(* every board that is configured.  The answers come through the intern     *)
(* uplink queue, into which the receiver thread puts them as they arrive.   *)
(*                                                                          *)
(* Requests to one node are served in order; answers of different nodes may *)
(* overtake each other.  A node whose table has changed answers the next    *)
(* MSG_NODETAB_GETNEXT with MSG_NODETAB_COUNT.                              *)
(****************************************************************************)
EXTENDS Integers, Sequences

CONSTANTS
  Interface,       \* addresses of the nodes with a node table; <<>> is one
  Changing,        \* those whose table may change during the dialogue
  Tables,          \* Tables[n]: the tables n may have, sequences of rows
                   \* [local, uid]; row 1 is the node itself, with local = 0;
                   \* no two rows have the same local address
  Uid,             \* unique ids
  HasSubnodes,     \* unique ids with the class bit of an interface
  Configured,      \* unique ids of the boards in the configuration
  QUEUE_SIZE,      \* limit of the intern queue (128 in the code)
  NoAddr,          \* the board is not connected
  MaxChanges       \* bound: changes of tables

ASSUME AllocationAssumption ==
  /\ << >> \in Interface /\ Interface \subseteq Seq(Nat \ {0})
  /\ QUEUE_SIZE \in Nat \ {0}
  /\ NoAddr \notin Seq(Nat)
  /\ Changing \subseteq Interface
  /\ HasSubnodes \subseteq Uid /\ Configured \subseteq Uid
  /\ \A n \in Interface : \A t \in Tables[n] :
       t \in Seq([local : Nat, uid : Uid]) /\ t # << >> /\ t[1].local = 0
       /\ \A k, l \in 1..Len(t) : t[k].local = t[l].local => k = l

VARIABLES
  pc,              \* where bidib_state_query_nodetab is: it waits for the
                   \* count or for a row; "query" before, "done" after all
  asked,           \* node_address
  node_count, i,   \* its locals
  sub_iface_queue,
  skew,            \* send_seqnum of the interface in the node state table, minus
                   \* the number the interface expects once all messages are there
  boards,          \* boards[u]: address noted for board u
  uplink_intern_queue,
  nodetab,         \* nodetab[n]: the table of node n
  changed,         \* changed[n]: n has not told the host about its last change
  row,             \* row[n]: row n sends next
  requests,        \* requests[n]: requests n has not answered
  changes          \* changes of tables so far

host == <<pc, asked, node_count, i, sub_iface_queue, skew, boards>>
nodes == <<nodetab, changed, row>>
vars == <<host, uplink_intern_queue, nodes, requests, changes>>

----------------------------------------------------------------------------
(* The receiver and the intern queue.                                       *)

\* A full queue drops its oldest element (bidib_message_queue_add).
Enqueue(m) ==
  uplink_intern_queue' =
    IF Len(uplink_intern_queue) = QUEUE_SIZE
    THEN Append(Tail(uplink_intern_queue), m) ELSE Append(uplink_intern_queue, m)

\* bidib_read_intern_message takes out a message of type y.
Read(y) ==
  /\ uplink_intern_queue # << >>
  /\ Head(uplink_intern_queue).type = y
  /\ uplink_intern_queue' = Tail(uplink_intern_queue)

\* The messages carry the address of their sender; nothing ever looks at it.
Count(n) == [type |-> "MSG_NODETAB_COUNT", count |-> Len(nodetab[n])]
Row(n) == [type |-> "MSG_NODETAB", entry |-> nodetab[n][row[n]]]

----------------------------------------------------------------------------
(* bidib_state_query_nodetab.                                               *)

\* Mutant: a number is skipped at every node asked.
SkipEach == skew' = skew + 1

\* The number skipped at the interface stands for the one of MSG_SYS_RESET.
SkipNumber == skew' = IF asked = << >> THEN skew + 1 ELSE skew

AskForTable ==
  /\ pc = "query"
  /\ SkipNumber
  /\ requests' = [requests EXCEPT ![asked] = Append(@, "getall")]
  /\ pc' = "count"
  /\ UNCHANGED <<asked, node_count, i, sub_iface_queue, boards, uplink_intern_queue, nodes, changes>>

GetCount ==
  /\ pc = "count"
  /\ Read("MSG_NODETAB_COUNT")
  /\ LET count == Head(uplink_intern_queue).count IN
       /\ node_count' = count
       /\ requests' = [requests EXCEPT ![asked] = @ \o [k \in 1..count |-> "getnext"]]
  /\ i' = 0 /\ pc' = "rows"
  /\ UNCHANGED <<asked, sub_iface_queue, skew, boards, nodes, changes>>

\* Mutant: the row stays in the queue.
SkipRowPeeking ==
  /\ pc = "count"
  /\ uplink_intern_queue # << >> /\ Head(uplink_intern_queue).type = "MSG_NODETAB"
  /\ UNCHANGED vars

\* A row that is still there from before a restart.
SkipRow ==
  /\ pc = "count"
  /\ Read("MSG_NODETAB")
  /\ UNCHANGED <<host, nodes, requests, changes>>

\* The address of a row of n; there are three levels, and a row of a node on
\* the third one replaces its last byte.
Below(n, local) ==
  LET above == IF Len(n) = 3 THEN SubSeq(n, 1, 2) ELSE n
  IN IF local = 0 THEN above ELSE Append(above, local)

\* Mutant: an address is noted once.
NoteOnce(e) ==
  boards' = IF e.uid \in Configured /\ boards[e.uid] = NoAddr
            THEN [boards EXCEPT ![e.uid] = Below(asked, e.local)] ELSE boards

\* The row belongs to the node asked, whoever has sent it.
Note(e) ==
  boards' = IF e.uid \in Configured
            THEN [boards EXCEPT ![e.uid] = Below(asked, e.local)] ELSE boards

\* Interfaces still to be asked after entry e.
SubInterfaces(e) ==
  IF i > 0 /\ e.uid \in HasSubnodes
  THEN Append(sub_iface_queue, Below(asked, e.local)) ELSE sub_iface_queue

\* bidib_state_init_allocation_table goes on with the next interface in q.
NextInterface(q) ==
  IF q = << >>
  THEN pc' = "done" /\ sub_iface_queue' = q /\ UNCHANGED asked
  ELSE pc' = "query" /\ asked' = Head(q) /\ sub_iface_queue' = Tail(q)

GetRow ==
  /\ pc = "rows"
  /\ Read("MSG_NODETAB")
  /\ LET e == Head(uplink_intern_queue).entry IN
       /\ Note(e)
       /\ IF i + 1 < node_count
          THEN sub_iface_queue' = SubInterfaces(e) /\ UNCHANGED <<pc, asked>>
          ELSE NextInterface(SubInterfaces(e))
  /\ i' = i + 1
  /\ UNCHANGED <<node_count, skew, nodes, requests, changes>>

\* A table has changed: everything starts again with the interface.
Restart ==
  /\ pc = "rows"
  /\ Read("MSG_NODETAB_COUNT")
  /\ pc' = "query" /\ asked' = << >> /\ sub_iface_queue' = << >>
  /\ UNCHANGED <<node_count, i, skew, boards, nodes, requests, changes>>

----------------------------------------------------------------------------
(* The nodes of the bus.                                                    *)

\* n answers its oldest request; a request past the last row gets MSG_NODE_NA,
\* which goes to the error queue.
Serve(n) ==
  /\ requests[n] # << >>
  /\ requests' = [requests EXCEPT ![n] = Tail(@)]
  /\ \/ /\ Head(requests[n]) = "getall" \/ changed[n]
        /\ Enqueue(Count(n))
        /\ changed' = [changed EXCEPT ![n] = FALSE]
        /\ row' = [row EXCEPT ![n] = 1]
     \/ /\ Head(requests[n]) = "getnext" /\ ~changed[n]
        /\ IF row[n] <= Len(nodetab[n])
           THEN Enqueue(Row(n)) /\ row' = [row EXCEPT ![n] = @ + 1]
           ELSE UNCHANGED <<uplink_intern_queue, row>>
        /\ UNCHANGED changed
  /\ UNCHANGED <<host, nodetab, changes>>

\* During the dialogue the host learns of a change by the answer to its next
\* request; after it by MSG_NODE_NEW or MSG_NODE_LOST, which are not part of it.
Change(n) ==
  /\ pc # "done"
  /\ n \in Changing
  /\ changes < MaxChanges
  /\ changes' = changes + 1
  /\ \E t \in Tables[n] \ {nodetab[n]} : nodetab' = [nodetab EXCEPT ![n] = t]
  /\ changed' = [changed EXCEPT ![n] = TRUE]
  /\ UNCHANGED <<host, uplink_intern_queue, row, requests>>

----------------------------------------------------------------------------
Init ==
  /\ pc = "query" /\ asked = << >> /\ node_count = 0 /\ i = 0
  /\ sub_iface_queue = << >>
  /\ skew = -1        \* MSG_SYS_RESET had number 1; the table was reset after it
  /\ boards = [u \in Configured |-> NoAddr]
  /\ uplink_intern_queue = << >>
  /\ nodetab \in {f \in [Interface -> UNION {Tables[n] : n \in Interface}] :
                    \A n \in Interface : f[n] \in Tables[n]}
  /\ changed = [n \in Interface |-> FALSE]
  /\ row = [n \in Interface |-> 1]
  /\ requests = [n \in Interface |-> << >>]
  /\ changes = 0

Host == AskForTable \/ GetCount \/ SkipRow \/ GetRow \/ Restart

Done == pc = "done" /\ UNCHANGED vars

Next == Host \/ Done \/ \E n \in Interface : Serve(n) \/ Change(n)

Spec == Init /\ [][Next]_vars

(* The calling thread polls the queue, the nodes answer; tables need not    *)
(* change.                                                                  *)
Fairness == WF_vars(Host) /\ \A n \in Interface : WF_vars(Serve(n))

FairSpec == Spec /\ Fairness

----------------------------------------------------------------------------
\* The entries of the tables that can be reached from the interface.
Reachable(n) ==
  n = << >> \/ \E e \in {nodetab[<< >>][k] : k \in DOMAIN nodetab[<< >>]} :
                 e.uid \in HasSubnodes /\ Below(<< >>, e.local) = n
Entries ==
  UNION {{<<nodetab[n][k].uid, Below(n, nodetab[n][k].local)>> : k \in DOMAIN nodetab[n]} :
         n \in {m \in Interface : Reachable(m)}}

Settled == pc = "done" /\ \A n \in Interface : ~changed[n]

(* When the dialogue is over and no change of a table is left to be told,   *)
(* every board on the bus is noted with the address it has, also when the   *)
(* dialogue had to start again.                                             *)
Allocated == Settled => \A e \in Entries : e[1] \in Configured => boards[e[1]] = e[2]

(* From the first request on the host gives the interface the numbers it    *)
(* expects, but for one it is ahead after each restart: every pass over the *)
(* tables skips the number of MSG_SYS_RESET again.                          *)
NumbersInStep == pc # "query" => skew \in 0..changes

(* The dialogue comes to an end once the tables stop changing.              *)
Finishes == <>(pc = "done")
=============================================================================

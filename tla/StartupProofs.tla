----------------------------- MODULE StartupProofs ----------------------------
(****************************************************************************)
(* What a start achieves while no table of a node changes under it, on a    *)
(* bus of two levels: the interface, hubs, and what is behind them.  The    *)
(* dialogue of the node tables notes every board where it is; the features  *)
(* of each board reach it; and nodes that come and go afterwards are known  *)
(* as such once their reports have been handled.                            *)
(*                                                                          *)
(* Everything here is about behaviours with changes = 0; what a change does *)
(* to the dialogue is for the model checker.                                *)
(****************************************************************************)
EXTENDS Startup, SequenceTheorems, TLAPS

(* A node has one address, and an address one node.                         *)
OnePlace == \A x, y \in Entries : x[1] = y[1] <=> x[2] = y[2]

(* The hubs below the interface are in the configuration.                   *)
HubsConfigured == \A e \in Entries : e[1] \in HasSubnodes /\ e[2] # << >> => e[1] \in Configured

(* A row of the table of a hub is never a hub with a table of its own.      *)
TwoLevels == \A n \in Interface : Len(n) <= 1

----------------------------------------------------------------------------
(* Types.                                                                   *)

RowType == [local : Nat, uid : Uid]

TableOK(t) ==
  /\ t \in Seq(RowType) /\ t # << >> /\ t[1].local = 0
  /\ \A k, l \in 1..Len(t) : t[k].local = t[l].local => k = l

Message == [type : {"MSG_NODETAB_COUNT"}, count : Nat] \cup [type : {"MSG_NODETAB"}, entry : RowType]
             \cup [type : {"MSG_FEATURE"}]

AllocationTypeOK ==
  /\ pc \in {"query", "count", "rows", "done"}
  /\ asked \in Seq(Nat) /\ node_count \in Nat /\ i \in Nat
  /\ sub_iface_queue \in Seq(Seq(Nat))
  /\ skew \in Int
  /\ boards \in [Configured -> Seq(Nat) \cup {NoAddr}]
  /\ uplink_intern_queue \in Seq(Message)
  /\ DOMAIN nodetab = Interface /\ \A n \in Interface : TableOK(nodetab[n])
  /\ changed \in [Interface -> BOOLEAN]
  /\ row \in [Interface -> Nat \ {0}]
  /\ requests \in [Interface -> Seq({"getall", "getnext"})]
  /\ changes \in Nat

LEMMA TablesOK == \A n \in Interface : \A t \in Tables[n] : TableOK(t)
BY AllocationAssumption DEF TableOK, RowType

LEMMA BelowType ==
  ASSUME NEW n \in Seq(Nat), NEW l \in Nat
  PROVE  Below(n, l) \in Seq(Nat)
BY DEF Below

LEMMA QueueType ==
  ASSUME uplink_intern_queue \in Seq(Message), NEW m \in Message, Enqueue(m)
  PROVE  uplink_intern_queue' \in Seq(Message)
<1>1. CASE Len(uplink_intern_queue) = QUEUE_SIZE
  BY <1>1, AllocationAssumption DEF Enqueue
<1>2. CASE Len(uplink_intern_queue) # QUEUE_SIZE
  BY <1>2 DEF Enqueue
<1> QED
  BY <1>1, <1>2

(* A node that has no table does not get the requests sent to it.           *)
LEMMA SendType ==
  ASSUME requests \in [Interface -> Seq({"getall", "getnext"})],
         NEW s \in Seq({"getall", "getnext"})
  PROVE  [requests EXCEPT ![asked] = @ \o s] \in [Interface -> Seq({"getall", "getnext"})]
<1>1. CASE asked \in Interface
  BY <1>1
<1>2. CASE asked \notin Interface
  BY <1>2
<1> QED
  BY <1>1, <1>2

LEMMA AllocationTypeInit == Init => AllocationTypeOK
<1> SUFFICES ASSUME Init PROVE AllocationTypeOK
  OBVIOUS
<1>1. \A n \in Interface : TableOK(nodetab[n])
  BY TablesOK DEF Init
<1>2. << >> \in Seq(Nat) /\ << >> \in Seq(Seq(Nat)) /\ << >> \in Seq(Message)
  OBVIOUS
<1> QED
  BY <1>1, <1>2 DEF Init, AllocationTypeOK

LEMMA HostType ==
  ASSUME AllocationTypeOK, Host
  PROVE  AllocationTypeOK'
<1> USE DEF AllocationTypeOK, host, nodes
<1>1. CASE AskForTable
  <2>1. requests' \in [Interface -> Seq({"getall", "getnext"})]
    <3>1. CASE asked \in Interface
      BY <1>1, <3>1 DEF AskForTable
    <3>2. CASE asked \notin Interface
      BY <1>1, <3>2 DEF AskForTable
    <3> QED
      BY <3>1, <3>2
  <2>2. skew' \in Int
    BY <1>1 DEF AskForTable, SkipNumber
  <2> QED
    BY <1>1, <2>1, <2>2 DEF AskForTable
<1>2. CASE GetCount
  <2> DEFINE count == Head(uplink_intern_queue).count
  <2>1. Head(uplink_intern_queue) \in Message /\ uplink_intern_queue' \in Seq(Message)
    BY <1>2 DEF GetCount, Read
  <2>2. count \in Nat
    BY <1>2, <2>1 DEF GetCount, Read, Message
  <2>3. [k \in 1..count |-> "getnext"] \in Seq({"getall", "getnext"})
    BY <2>2
  <2>4. requests' \in [Interface -> Seq({"getall", "getnext"})]
    BY <1>2, <2>3, SendType DEF GetCount
  <2> QED
    BY <1>2, <2>1, <2>2, <2>4 DEF GetCount
<1>3. CASE SkipRow
  BY <1>3 DEF SkipRow, Read
<1>4. CASE GetRow
  <2> DEFINE e == Head(uplink_intern_queue).entry
  <2>1. Head(uplink_intern_queue) \in Message /\ uplink_intern_queue' \in Seq(Message)
    BY <1>4 DEF GetRow, Read
  <2>2. e \in RowType
    BY <1>4, <2>1 DEF GetRow, Read, Message
  <2>3. Below(asked, e.local) \in Seq(Nat)
    BY <2>2, BelowType DEF RowType
  <2>4. boards' \in [Configured -> Seq(Nat) \cup {NoAddr}]
    BY <1>4, <2>3 DEF GetRow, Note
  <2>5. SubInterfaces(e) \in Seq(Seq(Nat))
    BY <2>3 DEF SubInterfaces
  <2> HIDE DEF e
  <2>6. CASE sub_iface_queue' = SubInterfaces(e) /\ UNCHANGED <<pc, asked>>
    BY <1>4, <2>1, <2>4, <2>5, <2>6 DEF GetRow
  <2>7. CASE NextInterface(SubInterfaces(e))
    <3>1. pc' \in {"query", "done"} /\ asked' \in Seq(Nat) /\ sub_iface_queue' \in Seq(Seq(Nat))
      <4> DEFINE q == SubInterfaces(e)
      <4>1. q # << >> => Head(q) \in Seq(Nat) /\ Tail(q) \in Seq(Seq(Nat))
        BY <2>5
      <4> HIDE DEF q
      <4>2. q \in Seq(Seq(Nat))
        BY <2>5 DEF q
      <4> QED
        BY <4>1, <4>2, <2>7 DEF NextInterface, q
    <3> QED
      BY <1>4, <2>1, <2>4, <3>1 DEF GetRow
  <2> QED
    BY <1>4, <2>6, <2>7 DEF GetRow, e
<1>5. CASE Restart
  BY <1>5 DEF Restart, Read
<1> QED
  BY <1>1, <1>2, <1>3, <1>4, <1>5 DEF Host

LEMMA ServeType ==
  ASSUME AllocationTypeOK, NEW n \in Interface, Serve(n)
  PROVE  AllocationTypeOK'
<1> USE DEF AllocationTypeOK, host, nodes
<1>1. requests' \in [Interface -> Seq({"getall", "getnext"})]
  BY DEF Serve
<1>2. CASE /\ Enqueue(Count(n))
           /\ changed' = [changed EXCEPT ![n] = FALSE]
           /\ row' = [row EXCEPT ![n] = 1]
  <2>1. Count(n) \in Message
    BY DEF Count, Message, TableOK
  <2>2. uplink_intern_queue' \in Seq(Message)
    BY <1>2, <2>1, QueueType
  <2> QED
    BY <1>1, <1>2, <2>2 DEF Serve
<1>3. CASE row[n] <= Len(nodetab[n]) /\ Enqueue(Row(n)) /\ row' = [row EXCEPT ![n] = @ + 1] /\ UNCHANGED changed
  <2>1. Row(n) \in Message
    BY <1>3 DEF Row, Message, TableOK
  <2>2. uplink_intern_queue' \in Seq(Message)
    BY <1>3, <2>1, QueueType
  <2>3. row' \in [Interface -> Nat \ {0}]
    BY <1>3
  <2> QED
    BY <1>1, <1>3, <2>2, <2>3 DEF Serve
<1>4. CASE UNCHANGED <<uplink_intern_queue, row, changed>>
  BY <1>1, <1>4 DEF Serve
<1> QED
  BY <1>2, <1>3, <1>4 DEF Serve

LEMMA ChangeType ==
  ASSUME AllocationTypeOK, NEW n \in Interface, Change(n)
  PROVE  AllocationTypeOK'
BY TablesOK DEF AllocationTypeOK, Change, host
LEMMA StutterType ==
  ASSUME AllocationTypeOK, UNCHANGED vars
  PROVE  AllocationTypeOK'
BY DEF AllocationTypeOK, vars, host, nodes

----------------------------------------------------------------------------
(* The dialogue.                                                            *)

\* An interface asked, or to be asked, is one of the bus.
Found(n) == n \in Interface => Reachable(n)

\* What is noted is true.
Sound == \A b \in Configured : boards[b] # NoAddr => <<b, boards[b]>> \in Entries

NotedRow(n, k) ==
  nodetab[n][k].uid \in Configured => boards[nodetab[n][k].uid] = Below(n, nodetab[n][k].local)

Noted(n) == \A k \in DOMAIN nodetab[n] : NotedRow(n, k)

\* What is there is noted.
AllNoted == \A e \in Entries : e[1] \in Configured => boards[e[1]] = e[2]

\* When the dialogue ends nothing of it is left in the queue.
Complete == AllNoted /\ Sound /\ uplink_intern_queue = << >>

\* A request for a table is on its way to its node,
Asking ==
  /\ uplink_intern_queue = << >>
  /\ asked \in Interface => requests[asked] = <<"getall">>

\* or has been answered,
Counted ==
  /\ asked \in Interface /\ requests[asked] = << >> /\ row[asked] = 1
  /\ uplink_intern_queue = <<Count(asked)>>

\* and then its rows come in order, the last ones of those sent being in the
\* queue; those before have been read, or were dropped.
RowsComing ==
  /\ asked \in Interface
  /\ node_count = Len(nodetab[asked]) /\ i < node_count
  /\ requests[asked] \in Seq({"getnext"})
  /\ row[asked] - 1 + Len(requests[asked]) = node_count
  /\ i + Len(uplink_intern_queue) < row[asked]
  /\ \A k \in 1..Len(uplink_intern_queue) :
       uplink_intern_queue[k] =
         [type |-> "MSG_NODETAB",
          entry |-> nodetab[asked][row[asked] - 1 - Len(uplink_intern_queue) + k]]

\* None was dropped.
Whole == i + Len(uplink_intern_queue) + 1 = row[asked]

\* Row k of the table of the interface is the hub at n.
HubAt(k, n) ==
  /\ k \in DOMAIN nodetab[<< >>] /\ k > 1
  /\ nodetab[<< >>][k].uid \in HasSubnodes
  /\ n = Below(<< >>, nodetab[<< >>][k].local)

\* All of a table is noted when the next one is asked for, and each hub has
\* been asked or is going to be.
Progress ==
  /\ asked # << >> => Noted(<< >>)
  /\ pc = "rows" /\ Whole => \A k \in 1..i : NotedRow(asked, k)
  /\ asked = << >> /\ pc = "rows" /\ Whole =>
       \A n \in Interface, k \in 1..i : HubAt(k, n) => n \in Range(sub_iface_queue)
  /\ asked # << >> =>
       \A n \in Interface, k \in DOMAIN nodetab[<< >>] :
         HubAt(k, n) => n \in Range(sub_iface_queue) \/ n = asked \/ Noted(n)

Dialogue ==
  /\ \A n \in Interface : ~changed[n] /\ (n # asked \/ pc = "query" => requests[n] = << >>)
  /\ Found(asked)
  /\ \A q \in Range(sub_iface_queue) : Found(q) /\ q # << >>
  /\ pc = "query" => uplink_intern_queue = << >>
  /\ pc = "count" => Asking \/ Counted
  /\ pc = "rows" => RowsComing
  /\ Progress
  /\ Sound

Idle == \A n \in Interface : ~changed[n] /\ requests[n] = << >>

\* The one number skipped so far is that of MSG_SYS_RESET.
SkippedOnce == skew = IF pc = "query" /\ asked = << >> THEN -1 ELSE 0

UnchangedInv ==
  changes = 0 =>
    /\ SkippedOnce
    /\ pc # "done" => Dialogue
    /\ pc = "done" => Idle

----------------------------------------------------------------------------
LEMMA RangeOfAppend ==
  ASSUME NEW T, NEW s \in Seq(T), NEW x \in T
  PROVE  Range(Append(s, x)) = Range(s) \cup {x}
<1>1. DOMAIN Append(s, x) = 1..(Len(s) + 1) /\ DOMAIN s = 1..Len(s)
  OBVIOUS
<1>2. \A k \in 1..Len(s) : Append(s, x)[k] = s[k]
  OBVIOUS
<1>3. Append(s, x)[Len(s) + 1] = x
  OBVIOUS
<1> QED
  BY <1>1, <1>2, <1>3 DEF Range

LEMMA RangeOfTail ==
  ASSUME NEW T, NEW s \in Seq(T), s # << >>
  PROVE  Range(s) = {Head(s)} \cup Range(Tail(s))
<1>1. DOMAIN Tail(s) = 1..(Len(s) - 1) /\ DOMAIN s = 1..Len(s) /\ Len(s) > 0
  OBVIOUS
<1>2. \A k \in 1..(Len(s) - 1) : Tail(s)[k] = s[k + 1]
  OBVIOUS
<1>3. Head(s) = s[1]
  OBVIOUS
<1>4. \A k \in 2..Len(s) : k - 1 \in 1..(Len(s) - 1) /\ Tail(s)[k - 1] = s[k]
  BY <1>2
<1>5. \A x \in Range(s) : x \in {Head(s)} \cup Range(Tail(s))
  <2> SUFFICES ASSUME NEW k \in 1..Len(s), k # 1 PROVE s[k] \in Range(Tail(s))
    BY <1>1, <1>3 DEF Range
  <2>1. k \in 2..Len(s)
    BY <1>1
  <2> QED
    BY <2>1, <1>1, <1>4 DEF Range
<1>6. \A k \in 1..(Len(s) - 1) : k + 1 \in 1..Len(s)
  BY <1>1
<1>7. 1 \in 1..Len(s)
  BY <1>1
<1> QED
  BY <1>1, <1>2, <1>3, <1>5, <1>6, <1>7 DEF Range

LEMMA SameTables ==
  ASSUME nodetab' = nodetab
  PROVE  Entries' = Entries /\ \A n : Reachable(n)' <=> Reachable(n)
BY DEF Entries, Reachable

(* What an entry of the bus is.                                             *)
LEMMA EntryOf ==
  ASSUME AllocationTypeOK, NEW n \in Interface, Reachable(n), NEW k \in DOMAIN nodetab[n]
  PROVE  <<nodetab[n][k].uid, Below(n, nodetab[n][k].local)>> \in Entries
BY DEF Entries

LEMMA EntryIs ==
  ASSUME NEW e \in Entries
  PROVE  \E n \in Interface : Reachable(n) /\ \E k \in DOMAIN nodetab[n] :
           e = <<nodetab[n][k].uid, Below(n, nodetab[n][k].local)>>
BY DEF Entries

LEMMA RootReachable == Reachable(<< >>)
BY DEF Reachable

LEMMA HubReachable ==
  ASSUME NEW n, NEW k, HubAt(k, n)
  PROVE  Reachable(n)
BY DEF Reachable, HubAt

(* Addresses of a bus with two levels.                                      *)
LEMMA BelowRoot ==
  ASSUME NEW l \in Nat
  PROVE  Below(<< >>, l) = IF l = 0 THEN << >> ELSE <<l>>
BY DEF Below

LEMMA BelowHub ==
  ASSUME TwoLevels, NEW n \in Interface, NEW l \in Nat
  PROVE  /\ Below(n, l) = IF l = 0 THEN n ELSE Append(n, l)
         /\ n \in Seq(Nat) /\ Len(n) <= 1
         /\ n = << >> \/ n = <<n[1]>>
<1>1. n \in Seq(Nat) /\ Len(n) \in Nat /\ Len(n) <= 1
  <2>1. n \in Seq(Nat \ {0}) /\ Len(n) <= 1
    BY AllocationAssumption DEF TwoLevels
  <2> QED
    BY <2>1
<1> DEFINE length == Len(n)
<1>2. length = 0 \/ length = 1
  <2>1. length \in Nat /\ length <= 1
    BY <1>1
  <2> HIDE DEF length
  <2> QED
    BY <2>1
<1>3. Below(n, l) = IF l = 0 THEN n ELSE Append(n, l)
  BY <1>2 DEF Below
<1>4. n = << >> \/ n = <<n[1]>>
  <2>1. Len(n) = 0 \/ Len(n) = 1
    BY <1>2
  <2>2. CASE Len(n) = 0
    BY <1>1, <2>2
  <2>3. CASE Len(n) = 1
    BY <1>1, <2>3
  <2> QED
    BY <2>1, <2>2, <2>3
<1> QED
  BY <1>1, <1>3, <1>4

LEMMA BehindHub ==
  ASSUME TwoLevels, NEW n \in Interface, n # << >>, NEW l \in Nat \ {0}
  PROVE  /\ Below(n, l) = <<n[1], l>> /\ n[1] \in Nat
         /\ Below(n, l) \notin Interface /\ Below(n, l) # << >>
<1>1. n = <<n[1]>> /\ n \in Seq(Nat) /\ Below(n, l) = Append(n, l)
  BY BelowHub
<1> DEFINE x == n[1]
<1>2. x \in Nat
  <2>1. Len(n) = 1
    BY <1>1
  <2> QED
    BY <1>1, <2>1
<1>3. n = <<x>>
  BY <1>1
<1> HIDE DEF x
<1>7. Below(n, l) = <<x, l>>
  <2>1. Append(<<x>>, l) = <<x, l>>
    <3> DEFINE s == Append(<<x>>, l)
               t == <<x, l>>
    <3>1. <<x>> \in Seq(Nat) /\ Len(<<x>>) = 1 /\ <<x>>[1] = x
      BY <1>2
    <3>2. s \in Seq(Nat) /\ Len(s) = 2 /\ s[1] = x /\ s[2] = l
      BY <3>1
    <3>3. t \in Seq(Nat) /\ Len(t) = 2 /\ t[1] = x /\ t[2] = l
      BY <1>2
    <3> HIDE DEF s, t
    <3>4. \A k \in 1..2 : s[k] = t[k]
      BY <3>2, <3>3
    <3> QED
      BY <3>2, <3>3, <3>4, SeqEqual DEF s, t
  <2> QED
    BY <1>1, <1>3, <2>1
<1>4. Len(<<x, l>>) = 2 /\ <<x, l>> # << >>
  OBVIOUS
<1>5. \A m \in Interface : ~(Len(m) = 2)
  BY BelowHub
<1>6. <<x, l>> \notin Interface
  BY <1>4, <1>5
<1> QED
  BY <1>2, <1>4, <1>6, <1>7 DEF x

----------------------------------------------------------------------------
(* Steps of the dialogue in which no table changes.                         *)

LEMMA AskKeeps ==
  ASSUME AllocationTypeOK, UnchangedInv, AskForTable, changes' = 0
  PROVE  UnchangedInv'
<1>1. changes = 0 /\ pc = "query" /\ pc' = "count" /\ Dialogue /\ SkippedOnce
  BY DEF AskForTable, UnchangedInv
<1>2. UNCHANGED <<asked, node_count, i, sub_iface_queue, boards, uplink_intern_queue, nodes>>
  BY DEF AskForTable
<1>3. SkippedOnce'
  BY <1>1, <1>2 DEF SkippedOnce, AskForTable, SkipNumber
<1>4. Entries' = Entries /\ \A n : Reachable(n)' <=> Reachable(n)
  BY <1>2, SameTables DEF nodes
<1>5. \A n \in Interface : n # asked => requests'[n] = requests[n]
  BY DEF AskForTable, AllocationTypeOK
<1>6. \A n \in Interface : ~changed'[n] /\ (n # asked' \/ pc' = "query" => requests'[n] = << >>)
  BY <1>1, <1>2, <1>5 DEF Dialogue, nodes
<1>7. asked \in Interface => requests'[asked] = <<"getall">>
  <2> SUFFICES ASSUME asked \in Interface PROVE requests'[asked] = <<"getall">>
    OBVIOUS
  <2>1. requests[asked] = << >>
    BY <1>1 DEF Dialogue
  <2>2. requests'[asked] = Append(requests[asked], "getall")
    BY DEF AskForTable, AllocationTypeOK
  <2> QED
    BY <2>1, <2>2
<1>8. Asking'
  BY <1>1, <1>2, <1>7 DEF Asking, Dialogue
<1>9. Progress'
  BY <1>1, <1>2 DEF Dialogue, Progress, nodes, Noted, NotedRow, HubAt, Whole
<1>10. Sound' /\ Found(asked)' /\ \A q \in Range(sub_iface_queue)' : Found(q)' /\ q # << >>
  BY <1>1, <1>2, <1>4 DEF Dialogue, Sound, Found
<1> QED
  BY <1>1, <1>3, <1>6, <1>8, <1>9, <1>10 DEF UnchangedInv, Dialogue

LEMMA CountKeeps ==
  ASSUME AllocationTypeOK, UnchangedInv, GetCount, changes' = 0
  PROVE  UnchangedInv'
<1>1. changes = 0 /\ pc = "count" /\ pc' = "rows" /\ Dialogue /\ SkippedOnce
  BY DEF GetCount, UnchangedInv
<1>2. UNCHANGED <<asked, sub_iface_queue, skew, boards, nodes>> /\ i' = 0
  BY DEF GetCount
<1>3. Counted
  BY <1>1 DEF GetCount, Read, Asking, Dialogue
<1>4. /\ Head(uplink_intern_queue).count = Len(nodetab[asked])
      /\ uplink_intern_queue' = << >>
  BY <1>3 DEF Counted, Count, GetCount, Read
<1> DEFINE count == Len(nodetab[asked])
<1>5. count \in Nat /\ count > 0
  BY <1>3 DEF AllocationTypeOK, TableOK, Counted
<1>6. node_count' = count
  BY <1>4 DEF GetCount
<1>7. requests' = [requests EXCEPT ![asked] = @ \o [k \in 1..count |-> "getnext"]]
  BY <1>4 DEF GetCount
<1> HIDE DEF count
<1>8. \A n \in Interface : n # asked => requests'[n] = requests[n]
  BY <1>7 DEF AllocationTypeOK
<1>9. requests'[asked] \in Seq({"getnext"}) /\ Len(requests'[asked]) = count
  <2> DEFINE new == [k \in 1..count |-> "getnext"]
  <2>1. new \in Seq({"getnext"}) /\ Len(new) = count
    BY <1>5
  <2>2. requests'[asked] = << >> \o new
    BY <1>3, <1>7 DEF Counted, AllocationTypeOK
  <2> HIDE DEF new
  <2>3. << >> \o new = new
    BY <2>1
  <2> QED
    BY <2>1, <2>2, <2>3
<1>10. RowsComing'
  <2>1. row'[asked] = 1 /\ asked \in Interface
    BY <1>2, <1>3 DEF nodes, Counted
  <2>2. node_count' = Len(nodetab'[asked'])
    BY <1>2, <1>6 DEF nodes, count
  <2>3. Len(uplink_intern_queue') = 0
    BY <1>4
  <2> QED
    BY <1>2, <1>5, <1>6, <1>9, <2>1, <2>2, <2>3 DEF RowsComing
<1>11. Entries' = Entries /\ \A n : Reachable(n)' <=> Reachable(n)
  BY <1>2, SameTables DEF nodes
<1>12. Progress'
  <2>1. \A k : k \notin 1..i'
    BY <1>2
  <2> QED
    BY <1>1, <1>2, <2>1 DEF Dialogue, Progress, nodes, Noted, NotedRow, HubAt
<1>13. Sound' /\ Found(asked)' /\ \A q \in Range(sub_iface_queue)' : Found(q)' /\ q # << >>
  BY <1>1, <1>2, <1>11 DEF Dialogue, Sound, Found
<1>14. \A n \in Interface : ~changed'[n] /\ (n # asked' \/ pc' = "query" => requests'[n] = << >>)
  BY <1>1, <1>2, <1>8 DEF Dialogue, nodes
<1>15. SkippedOnce'
  BY <1>1, <1>2 DEF SkippedOnce
<1> QED
  BY <1>1, <1>10, <1>12, <1>13, <1>14, <1>15 DEF UnchangedInv, Dialogue

(* Nothing is left over from an earlier pass, and there is no second one.   *)
LEMMA NoRestart ==
  ASSUME AllocationTypeOK, UnchangedInv, SkipRow \/ Restart, changes' = 0
  PROVE  FALSE
<1>1. changes = 0
  BY DEF SkipRow, Restart
<1>2. CASE SkipRow
  <2>1. Counted
    BY <1>1, <1>2 DEF UnchangedInv, Dialogue, SkipRow, Read, Asking
  <2> QED
    BY <1>2, <2>1 DEF SkipRow, Read, Counted, Count
<1>3. CASE Restart
  <2>1. RowsComing
    BY <1>1, <1>3 DEF UnchangedInv, Dialogue, Restart
  <2>2. uplink_intern_queue \in Seq(Message) /\ uplink_intern_queue # << >>
    BY <1>3 DEF Restart, Read, AllocationTypeOK
  <2>3. 1 \in 1..Len(uplink_intern_queue) /\ Head(uplink_intern_queue) = uplink_intern_queue[1]
    BY <2>2
  <2>4. uplink_intern_queue[1].type = "MSG_NODETAB"
    <3> DEFINE e == nodetab[asked][row[asked] - 1 - Len(uplink_intern_queue) + 1]
    <3>1. uplink_intern_queue[1] = [type |-> "MSG_NODETAB", entry |-> e]
      BY <2>1, <2>3 DEF RowsComing
    <3> HIDE DEF e
    <3> QED
      BY <3>1
  <2> QED
    BY <1>3, <2>3, <2>4 DEF Restart, Read
<1> QED
  BY <1>2, <1>3

(* The row read is one of the node asked, and what is noted of it is true.  *)
LEMMA RowRead ==
  ASSUME AllocationTypeOK, Dialogue, GetRow
  PROVE  LET at == row[asked] - Len(uplink_intern_queue) IN
         /\ asked \in Interface /\ Reachable(asked)
         /\ uplink_intern_queue \in Seq(Message) /\ Len(uplink_intern_queue) \in Nat \ {0}
         /\ at \in DOMAIN nodetab[asked] /\ at >= i + 1 /\ row[asked] <= node_count + 1
         /\ Whole <=> at = i + 1
         /\ Head(uplink_intern_queue).entry = nodetab[asked][at]
         /\ nodetab[asked][at] \in RowType
         /\ uplink_intern_queue' = Tail(uplink_intern_queue)
<1> DEFINE len == Len(uplink_intern_queue)
           at == row[asked] - len
<1>1. RowsComing /\ asked \in Interface /\ Reachable(asked)
  BY DEF GetRow, Dialogue, RowsComing, Found
<1>2. uplink_intern_queue \in Seq(Message) /\ uplink_intern_queue # << >>
  BY DEF AllocationTypeOK, GetRow, Read
<1>3. len \in Nat /\ len > 0 /\ Head(uplink_intern_queue) = uplink_intern_queue[1] /\ 1 \in 1..len
  BY <1>2
<1>4. row[asked] \in Nat /\ i \in Nat /\ node_count \in Nat /\ Len(requests[asked]) \in Nat
  BY <1>1 DEF AllocationTypeOK
<1>5. /\ row[asked] - 1 + Len(requests[asked]) = node_count
      /\ i + len < row[asked] /\ node_count = Len(nodetab[asked])
  BY <1>1 DEF RowsComing
<1>6. Head(uplink_intern_queue).entry = nodetab[asked][row[asked] - 1 - len + 1]
  <2> DEFINE r == nodetab[asked][row[asked] - 1 - len + 1]
  <2>1. uplink_intern_queue[1] = [type |-> "MSG_NODETAB", entry |-> r]
    BY <1>1, <1>3 DEF RowsComing
  <2> HIDE DEF r
  <2>2. Head(uplink_intern_queue).entry = r
    BY <1>3, <2>1
  <2> QED
    BY <2>2 DEF r
<1> HIDE DEF len
<1>7. row[asked] - 1 - len + 1 = at
  BY <1>3, <1>4
<1>8. at \in 1..node_count /\ at >= i + 1 /\ row[asked] <= node_count + 1
  BY <1>3, <1>4, <1>5
<1>9. Whole <=> at = i + 1
  BY <1>3, <1>4 DEF Whole, len
<1>10. nodetab[asked] \in Seq(RowType)
  BY <1>1 DEF AllocationTypeOK, TableOK
<1>11. at \in DOMAIN nodetab[asked]
  BY <1>5, <1>8, <1>10
<1>12. nodetab[asked][at] \in RowType
  BY <1>10, <1>11
<1>13. uplink_intern_queue' = Tail(uplink_intern_queue)
  BY DEF GetRow, Read
<1> QED
  BY <1>1, <1>2, <1>3, <1>6, <1>7, <1>8, <1>9, <1>11, <1>12, <1>13 DEF len

(* Noting a row of the bus spoils nothing that is noted of another one.     *)
LEMMA NoteKeeps ==
  ASSUME AllocationTypeOK, OnePlace, nodetab' = nodetab,
         asked \in Interface, Reachable(asked),
         NEW at \in DOMAIN nodetab[asked], Note(nodetab[asked][at])
  PROVE  /\ Sound => Sound'
         /\ nodetab[asked][at].uid \in Configured =>
              boards'[nodetab[asked][at].uid] = Below(asked, nodetab[asked][at].local)
         /\ \A n \in Interface : Reachable(n) =>
              \A k \in DOMAIN nodetab[n] : NotedRow(n, k) => NotedRow(n, k)'
<1> DEFINE e == nodetab[asked][at]
<1>1. <<e.uid, Below(asked, e.local)>> \in Entries
  BY EntryOf
<1>2. boards' = IF e.uid \in Configured
                THEN [boards EXCEPT ![e.uid] = Below(asked, e.local)] ELSE boards
  BY DEF Note
<1>3. boards \in [Configured -> Seq(Nat) \cup {NoAddr}]
  BY DEF AllocationTypeOK
<1>4. Entries' = Entries
  BY SameTables
<1>5. ASSUME Sound PROVE Sound'
  BY <1>1, <1>2, <1>3, <1>4, <1>5 DEF Sound
<1>6. ASSUME NEW n \in Interface, Reachable(n), NEW k \in DOMAIN nodetab[n], NotedRow(n, k)
      PROVE  NotedRow(n, k)'
  <2> DEFINE r == nodetab[n][k]
  <2>1. <<r.uid, Below(n, r.local)>> \in Entries
    BY <1>6, EntryOf
  <2>2. r.uid = e.uid => Below(n, r.local) = Below(asked, e.local)
    BY <1>1, <2>1 DEF OnePlace
  <2>3. r.uid \in Configured => boards'[r.uid] = Below(n, r.local)
    <3>1. CASE r.uid = e.uid
      BY <1>2, <1>3, <2>2, <3>1
    <3>2. CASE r.uid # e.uid
      <4>1. r.uid \in Configured => boards'[r.uid] = boards[r.uid]
        BY <1>2, <1>3, <3>2
      <4> QED
        BY <4>1, <1>6 DEF NotedRow
    <3> QED
      BY <3>1, <3>2
  <2> QED
    BY <2>3 DEF NotedRow
<1>7. e.uid \in Configured => boards'[e.uid] = Below(asked, e.local)
  BY <1>2, <1>3
<1> QED
  BY <1>5, <1>6, <1>7

(* The interfaces still to be asked, after a row.                           *)
LEMMA SubInterfacesAre ==
  ASSUME AllocationTypeOK, NEW e \in RowType
  PROVE  /\ SubInterfaces(e) \in Seq(Seq(Nat))
         /\ Range(SubInterfaces(e)) =
              Range(sub_iface_queue) \cup IF i > 0 /\ e.uid \in HasSubnodes
                                          THEN {Below(asked, e.local)} ELSE {}
<1>1. Below(asked, e.local) \in Seq(Nat) /\ sub_iface_queue \in Seq(Seq(Nat))
  BY BelowType DEF AllocationTypeOK, RowType
<1> DEFINE a == Below(asked, e.local)
<1>2. Append(sub_iface_queue, a) \in Seq(Seq(Nat))
  BY <1>1
<1>3. Range(Append(sub_iface_queue, a)) = Range(sub_iface_queue) \cup {a}
  BY <1>1, RangeOfAppend
<1> QED
  BY <1>1, <1>2, <1>3 DEF SubInterfaces

LEMMA SubInterfacesFound ==
  ASSUME AllocationTypeOK, Dialogue, TwoLevels, asked \in Interface, Reachable(asked),
         NEW at \in DOMAIN nodetab[asked], at >= i + 1
  PROVE  \A q \in Range(SubInterfaces(nodetab[asked][at])) : Found(q) /\ q # << >>
<1> DEFINE e == nodetab[asked][at]
<1>1. TableOK(nodetab[asked]) /\ i \in Nat
  BY DEF AllocationTypeOK
<1>2. e \in RowType
  BY <1>1 DEF TableOK
<1> SUFFICES ASSUME NEW q \in Range(SubInterfaces(e)) PROVE Found(q) /\ q # << >>
  OBVIOUS
<1>3. CASE q \in Range(sub_iface_queue)
  BY <1>3 DEF Dialogue
<1>4. CASE i > 0 /\ e.uid \in HasSubnodes /\ q = Below(asked, e.local)
  <2>1. e.local \in Nat /\ e.local # 0
    BY <1>1, <1>2, <1>4 DEF TableOK, RowType
  <2>2. CASE asked = << >>
    <3>1. q = <<e.local>>
      BY <1>4, <2>1, <2>2, BelowRoot
    <3>2. Reachable(q)
      BY <1>4, <2>2 DEF Reachable
    <3> QED
      BY <3>1, <3>2 DEF Found
  <2>3. CASE asked # << >>
    BY <1>4, <2>1, <2>3, BehindHub DEF Found
  <2> QED
    BY <2>2, <2>3
<1> QED
  BY <1>2, <1>3, <1>4, SubInterfacesAre

(* A row that is not the last one.                                          *)
LEMMA RowKeeps ==
  ASSUME AllocationTypeOK, UnchangedInv, OnePlace, TwoLevels, changes' = 0,
         GetRow, i + 1 < node_count
  PROVE  UnchangedInv'
<1> DEFINE at == row[asked] - Len(uplink_intern_queue)
           e == nodetab[asked][at]
<1>1. changes = 0 /\ pc = "rows" /\ Dialogue /\ SkippedOnce
  BY DEF GetRow, UnchangedInv
<1>2. /\ UNCHANGED <<node_count, skew, nodes, requests, changes>> /\ i' = i + 1
      /\ i \in Nat /\ node_count \in Nat
  BY DEF GetRow, AllocationTypeOK
<1>3. /\ asked \in Interface /\ Reachable(asked)
      /\ uplink_intern_queue \in Seq(Message) /\ Len(uplink_intern_queue) \in Nat \ {0}
      /\ at \in DOMAIN nodetab[asked] /\ at >= i + 1 /\ row[asked] <= node_count + 1
      /\ Whole <=> at = i + 1
      /\ Head(uplink_intern_queue).entry = e
      /\ e \in RowType
      /\ uplink_intern_queue' = Tail(uplink_intern_queue)
  BY <1>1, RowRead
<1>4. UNCHANGED <<pc, asked>> /\ sub_iface_queue' = SubInterfaces(e) /\ Note(e)
  BY <1>3 DEF GetRow
<1>5. Entries' = Entries /\ \A n : Reachable(n)' <=> Reachable(n)
  BY <1>2, SameTables DEF nodes
<1>6. /\ Sound'
      /\ e.uid \in Configured => boards'[e.uid] = Below(asked, e.local)
      /\ \A n \in Interface : Reachable(n) =>
           \A k \in DOMAIN nodetab[n] : NotedRow(n, k) => NotedRow(n, k)'
  BY <1>1, <1>2, <1>3, <1>4, NoteKeeps DEF nodes, Dialogue
<1>7. Range(sub_iface_queue') =
        Range(sub_iface_queue) \cup IF i > 0 /\ e.uid \in HasSubnodes
                                    THEN {Below(asked, e.local)} ELSE {}
  BY <1>3, <1>4, SubInterfacesAre
<1>8. RowsComing /\ TableOK(nodetab[asked]) /\ row[asked] \in Nat /\ Len(requests[asked]) \in Nat
  BY <1>1, <1>3 DEF Dialogue, AllocationTypeOK
<1>9. Len(uplink_intern_queue') = Len(uplink_intern_queue) - 1
  BY <1>3
<1>10. RowsComing'
  <2> DEFINE len == Len(uplink_intern_queue)
  <2>1. i + 1 + (len - 1) < row[asked]
    BY <1>2, <1>3, <1>8 DEF RowsComing
  <2>2. ASSUME NEW k \in 1..(len - 1)
        PROVE  uplink_intern_queue'[k] =
                 [type |-> "MSG_NODETAB", entry |-> nodetab[asked][row[asked] - 1 - (len - 1) + k]]
    <3>1. uplink_intern_queue'[k] = uplink_intern_queue[k + 1] /\ k + 1 \in 1..len
      BY <1>3
    <3>2. uplink_intern_queue[k + 1] =
            [type |-> "MSG_NODETAB", entry |-> nodetab[asked][row[asked] - 1 - len + (k + 1)]]
      BY <1>8, <3>1 DEF RowsComing
    <3>3. \A x, y, z \in Int : x - 1 - y + (z + 1) = x - 1 - (y - 1) + z
      OBVIOUS
    <3>4. row[asked] \in Int /\ len \in Int /\ k \in Int
      BY <1>3, <1>8
    <3>5. row[asked] - 1 - len + (k + 1) = row[asked] - 1 - (len - 1) + k
      BY <3>3, <3>4, Zenon
    <3> QED
      BY <3>1, <3>2, <3>5
  <2> QED
    BY <1>2, <1>4, <1>8, <1>9, <2>1, <2>2 DEF RowsComing, nodes
<1>11. Whole' <=> Whole
  BY <1>2, <1>3, <1>4, <1>8, <1>9 DEF Whole, nodes
<1>12. \A q \in Range(sub_iface_queue') : Found(q)' /\ q # << >>
  BY <1>1, <1>3, <1>4, <1>5, SubInterfacesFound DEF Found
<1>13. \A n \in Interface : Reachable(n) => (Noted(n) => Noted(n)')
  BY <1>2, <1>6 DEF Noted, nodes
<1>14. asked # << >> => Noted(<< >>)'
  BY <1>1, <1>13, RootReachable, AllocationAssumption DEF Dialogue, Progress
<1>15. Whole => \A k \in 1..(i + 1) : NotedRow(asked, k)'
  <2> SUFFICES ASSUME Whole, NEW k \in 1..(i + 1) PROVE NotedRow(asked, k)'
    OBVIOUS
  <2>1. CASE k \in 1..i
    <3>1. NotedRow(asked, k)
      BY <1>1, <2>1 DEF Dialogue, Progress
    <3>2. k \in DOMAIN nodetab[asked]
      BY <1>2, <1>3, <1>8, <2>1 DEF TableOK
    <3> QED
      BY <1>3, <1>4, <1>6, <3>1, <3>2
  <2>2. CASE k = i + 1
    BY <1>2, <1>3, <1>4, <1>6, <2>2 DEF NotedRow, nodes
  <2> QED
    BY <1>2, <2>1, <2>2
<1>16. asked = << >> /\ Whole =>
         \A n \in Interface, k \in 1..(i + 1) : HubAt(k, n) => n \in Range(sub_iface_queue')
  <2> SUFFICES ASSUME asked = << >>, Whole, NEW n \in Interface, NEW k \in 1..(i + 1), HubAt(k, n)
               PROVE  n \in Range(sub_iface_queue')
    OBVIOUS
  <2>1. CASE k \in 1..i
    BY <1>1, <1>7, <2>1 DEF Dialogue, Progress
  <2>2. CASE k = i + 1
    BY <1>2, <1>3, <1>7, <2>2 DEF HubAt
  <2> QED
    BY <1>2, <2>1, <2>2
<1>17. asked # << >> =>
         \A n \in Interface, k \in DOMAIN nodetab[<< >>] :
           HubAt(k, n) => n \in Range(sub_iface_queue') \/ n = asked \/ Noted(n)'
  BY <1>1, <1>7, <1>13, HubReachable DEF Dialogue, Progress
<1>18. Progress'
  <2>1. \A n, k : HubAt(k, n)' <=> HubAt(k, n)
    BY <1>2 DEF HubAt, nodes
  <2>2. asked' = asked /\ pc' = pc /\ i' = i + 1 /\ nodetab' = nodetab
    BY <1>2, <1>4 DEF nodes
  <2> QED
    BY <1>11, <1>14, <1>15, <1>16, <1>17, <2>1, <2>2 DEF Progress
<1>19. \A n \in Interface : ~changed'[n] /\ (n # asked' \/ pc' = "query" => requests'[n] = << >>)
  BY <1>1, <1>2, <1>4 DEF Dialogue, nodes
<1>20. Found(asked)'
  BY <1>3, <1>4, <1>5 DEF Found
<1>21. SkippedOnce'
  BY <1>1, <1>2, <1>4 DEF SkippedOnce
<1> QED
  BY <1>1, <1>4, <1>6, <1>10, <1>12, <1>18, <1>19, <1>20, <1>21 DEF UnchangedInv, Dialogue

(* The last row of a table: all rows of the table are noted, and the next   *)
(* interface is asked; if there is none, so is all that is on the bus.      *)
LEMMA TableEnds ==
  ASSUME AllocationTypeOK, UnchangedInv, OnePlace, TwoLevels, changes' = 0,
         GetRow, ~(i + 1 < node_count)
  PROVE  UnchangedInv' /\ (pc' = "done" => Complete')
<1> DEFINE at == row[asked] - Len(uplink_intern_queue)
           e == nodetab[asked][at]
           q == SubInterfaces(e)
<1>1. changes = 0 /\ pc = "rows" /\ Dialogue /\ SkippedOnce
  BY DEF GetRow, UnchangedInv
<1>2. /\ UNCHANGED <<node_count, skew, nodes, requests, changes>> /\ i' = i + 1
      /\ i \in Nat /\ node_count \in Nat
  BY DEF GetRow, AllocationTypeOK
<1>3. /\ asked \in Interface /\ Reachable(asked)
      /\ uplink_intern_queue \in Seq(Message) /\ Len(uplink_intern_queue) \in Nat \ {0}
      /\ at \in DOMAIN nodetab[asked] /\ at >= i + 1 /\ row[asked] <= node_count + 1
      /\ Whole <=> at = i + 1
      /\ Head(uplink_intern_queue).entry = e
      /\ e \in RowType
      /\ uplink_intern_queue' = Tail(uplink_intern_queue)
  BY <1>1, RowRead
<1>4. NextInterface(q) /\ Note(e)
  BY <1>3 DEF GetRow
<1>5. Entries' = Entries /\ \A n : Reachable(n)' <=> Reachable(n)
  BY <1>2, SameTables DEF nodes
<1>6. /\ Sound'
      /\ e.uid \in Configured => boards'[e.uid] = Below(asked, e.local)
      /\ \A n \in Interface : Reachable(n) =>
           \A k \in DOMAIN nodetab[n] : NotedRow(n, k) => NotedRow(n, k)'
  BY <1>1, <1>2, <1>3, <1>4, NoteKeeps DEF nodes, Dialogue
<1>7. /\ q \in Seq(Seq(Nat))
      /\ Range(q) = Range(sub_iface_queue) \cup IF i > 0 /\ e.uid \in HasSubnodes
                                                THEN {Below(asked, e.local)} ELSE {}
  BY <1>3, SubInterfacesAre
<1>8. RowsComing /\ TableOK(nodetab[asked]) /\ row[asked] \in Nat /\ Len(requests[asked]) \in Nat
  BY <1>1, <1>3 DEF Dialogue, AllocationTypeOK
<1>9. /\ Len(uplink_intern_queue) = 1 /\ Len(requests[asked]) = 0
      /\ i + 1 = node_count /\ at = i + 1
  <2> DEFINE len == Len(uplink_intern_queue)
             open == Len(requests[asked])
  <2>1. /\ len \in Nat \ {0} /\ open \in Nat /\ row[asked] \in Nat
        /\ row[asked] - 1 + open = node_count /\ i + len < row[asked] /\ i < node_count
    BY <1>3, <1>8 DEF RowsComing
  <2> HIDE DEF len, open
  <2>2. i + 1 = node_count /\ len = 1 /\ open = 0 /\ row[asked] - len = i + 1
    BY <1>2, <2>1
  <2> QED
    BY <2>2 DEF len, open
<1>10. requests[asked] = << >> /\ uplink_intern_queue' = << >>
  BY <1>3, <1>8, <1>9 DEF RowsComing
<1>20. DOMAIN nodetab[asked] = 1..(i + 1)
  BY <1>8, <1>9 DEF RowsComing, TableOK
<1>11. \A x \in Range(q) : Found(x) /\ x # << >>
  BY <1>1, <1>3, SubInterfacesFound
<1>12. \A n \in Interface : Reachable(n) /\ Noted(n) => Noted(n)'
  BY <1>2, <1>6 DEF Noted, nodes
<1>13. \A k \in DOMAIN nodetab[asked] : nodetab[asked][k].uid \in Configured =>
          boards'[nodetab[asked][k].uid] = Below(asked, nodetab[asked][k].local)
  <2> SUFFICES ASSUME NEW k \in DOMAIN nodetab[asked], nodetab[asked][k].uid \in Configured
               PROVE  boards'[nodetab[asked][k].uid] = Below(asked, nodetab[asked][k].local)
    OBVIOUS
  <2>1. k \in 1..(i + 1)
    BY <1>20
  <2>2. CASE k \in 1..i
    <3>1. NotedRow(asked, k)
      BY <1>1, <1>3, <1>9, <2>2 DEF Dialogue, Progress
    <3>2. \E n \in Interface : n = asked /\ NotedRow(n, k)'
      BY <1>3, <1>6, <3>1
    <3> QED
      BY <1>2, <3>2 DEF NotedRow, nodes
  <2>3. CASE k = i + 1
    BY <1>6, <1>9, <2>3
  <2> QED
    BY <1>2, <2>1, <2>2, <2>3
<1>14. \A n \in Interface : n = asked => Noted(n)'
  BY <1>2, <1>13 DEF Noted, NotedRow, nodes
<1>15. Noted(<< >>)'
  BY <1>1, <1>12, <1>14, RootReachable, AllocationAssumption DEF Dialogue, Progress
<1>16. \A n \in Interface, k \in DOMAIN nodetab[<< >>] : HubAt(k, n) => n \in Range(q) \/ Noted(n)'
  <2> SUFFICES ASSUME NEW n \in Interface, NEW k \in DOMAIN nodetab[<< >>], HubAt(k, n)
               PROVE  n \in Range(q) \/ Noted(n)'
    OBVIOUS
  <2>1. CASE asked = << >>
    <3>1. k \in 1..(i + 1)
      BY <1>20, <2>1
    <3>2. CASE k \in 1..i
      BY <1>1, <1>7, <1>9, <1>3, <2>1, <3>2 DEF Dialogue, Progress
    <3>3. CASE k = i + 1
      BY <1>2, <1>7, <1>9, <2>1, <3>3 DEF HubAt
    <3> QED
      BY <1>2, <3>1, <3>2, <3>3
  <2>2. CASE asked # << >>
    BY <1>1, <1>7, <1>12, <1>14, <2>2, HubReachable DEF Dialogue, Progress
  <2> QED
    BY <2>1, <2>2
<1>17. \A n \in Interface : ~changed'[n] /\ requests'[n] = << >>
  BY <1>1, <1>2, <1>10 DEF Dialogue, nodes
<1> HIDE DEF q
<1>18. CASE q = << >>
  <2>1. pc' = "done" /\ asked' = asked /\ sub_iface_queue' = << >>
    BY <1>4, <1>18 DEF NextInterface
  <2>2. Range(q) = {}
    BY <1>18 DEF Range
  <2>3. \A n \in Interface : Reachable(n) => Noted(n)'
    <3> SUFFICES ASSUME NEW n \in Interface, Reachable(n), n # << >> PROVE Noted(n)'
      BY <1>15
    <3>1. PICK k \in DOMAIN nodetab[<< >>] :
            nodetab[<< >>][k].uid \in HasSubnodes /\ Below(<< >>, nodetab[<< >>][k].local) = n
      BY DEF Reachable
    <3>2. TableOK(nodetab[<< >>])
      BY AllocationAssumption DEF AllocationTypeOK
    <3>3. k # 1
      BY <3>1, <3>2, BelowRoot DEF TableOK
    <3>4. HubAt(k, n)
      BY <3>1, <3>2, <3>3 DEF HubAt, TableOK
    <3> QED
      BY <1>16, <2>2, <3>4
  <2>4. AllNoted'
    <3> SUFFICES ASSUME NEW x \in Entries, x[1] \in Configured PROVE boards'[x[1]] = x[2]
      BY <1>5 DEF AllNoted
    <3>1. PICK n \in Interface : Reachable(n) /\ \E k \in DOMAIN nodetab[n] :
            x = <<nodetab[n][k].uid, Below(n, nodetab[n][k].local)>>
      BY EntryIs
    <3>2. PICK k \in DOMAIN nodetab[n] : x = <<nodetab[n][k].uid, Below(n, nodetab[n][k].local)>>
      BY <3>1
    <3> QED
      BY <1>2, <2>3, <3>1, <3>2 DEF Noted, NotedRow, nodes
  <2>5. Idle'
    BY <1>17 DEF Idle
  <2>6. SkippedOnce'
    BY <1>1, <1>2, <2>1 DEF SkippedOnce
  <2> QED
    BY <1>6, <1>10, <2>1, <2>4, <2>5, <2>6 DEF UnchangedInv, Complete
<1>19. CASE q # << >>
  <2>1. pc' = "query" /\ asked' = Head(q) /\ sub_iface_queue' = Tail(q)
    BY <1>4, <1>19 DEF NextInterface
  <2>2. Range(q) = {asked'} \cup Range(sub_iface_queue')
    BY <1>7, <1>19, <2>1, RangeOfTail
  <2>3. Found(asked)' /\ asked' # << >>
    BY <1>5, <1>11, <2>2 DEF Found
  <2>4. \A x \in Range(sub_iface_queue)' : Found(x)' /\ x # << >>
    BY <1>5, <1>11, <2>2 DEF Found
  <2>5. Progress'
    <3>1. \A n, k : HubAt(k, n)' <=> HubAt(k, n)
      BY <1>2 DEF HubAt, nodes
    <3>2. \A n \in Interface, k \in DOMAIN nodetab'[<< >>] :
            HubAt(k, n)' => n \in Range(sub_iface_queue)' \/ n = asked' \/ Noted(n)'
      BY <1>2, <1>16, <2>2, <3>1 DEF nodes
    <3> QED
      BY <1>15, <2>1, <2>3, <3>2 DEF Progress
  <2>6. SkippedOnce'
    BY <1>1, <1>2, <2>1, <2>3 DEF SkippedOnce
  <2> QED
    BY <1>1, <1>2, <1>6, <1>10, <1>17, <2>1, <2>3, <2>4, <2>5, <2>6 DEF UnchangedInv, Dialogue
<1> QED
  BY <1>18, <1>19

LEMMA CountServed ==
  ASSUME AllocationTypeOK, UnchangedInv, NEW n \in Interface, Serve(n), changes' = 0,
         pc = "count"
  PROVE  UnchangedInv'
<1>1. changes = 0 /\ Dialogue /\ SkippedOnce /\ UNCHANGED <<host, nodetab, changes>>
  BY DEF Serve, UnchangedInv
<1>2. n = asked /\ Asking /\ requests[n] = <<"getall">>
  BY <1>1 DEF Serve, Dialogue, Asking, Counted
<1>3. Head(requests[n]) = "getall" /\ Tail(requests[n]) = << >>
  BY <1>2
<1>4. /\ Enqueue(Count(n))
      /\ changed' = [changed EXCEPT ![n] = FALSE]
      /\ row' = [row EXCEPT ![n] = 1]
      /\ requests' = [requests EXCEPT ![n] = << >>]
  BY <1>3 DEF Serve
<1>5. Count(n) \in Message /\ Count(n)' = Count(n)
  BY <1>1 DEF AllocationTypeOK, TableOK, Count, Message
<1>6. uplink_intern_queue' = <<Count(n)>>
  <2>1. Len(uplink_intern_queue) # QUEUE_SIZE
    BY <1>2, AllocationAssumption DEF Asking
  <2>2. uplink_intern_queue' = Append(<< >>, Count(n))
    BY <1>2, <1>4, <2>1 DEF Enqueue, Asking
  <2>3. \A m : Append(<< >>, m) = <<m>>
    OBVIOUS
  <2> QED
    BY <2>2, <2>3
<1>7. /\ \A m \in Interface : ~changed'[m] /\ (m # asked => requests'[m] = << >>)
      /\ requests'[n] = << >> /\ row'[n] = 1
  BY <1>1, <1>2, <1>4 DEF Dialogue, AllocationTypeOK
<1>8. Counted'
  BY <1>1, <1>2, <1>5, <1>6, <1>7 DEF Counted, host
<1>9. Entries' = Entries /\ \A m : Reachable(m)' <=> Reachable(m)
  BY <1>1, SameTables
<1>10. Progress'
  BY <1>1 DEF Dialogue, Progress, host, Noted, NotedRow, HubAt
<1>11. Sound' /\ Found(asked)' /\ \A q \in Range(sub_iface_queue)' : Found(q)' /\ q # << >>
  BY <1>1, <1>9 DEF Dialogue, Sound, Found, host
<1>12. SkippedOnce'
  BY <1>1 DEF SkippedOnce, host
<1>13. pc' = "count" /\ asked' = asked
  BY <1>1 DEF host
<1> QED
  BY <1>7, <1>8, <1>10, <1>11, <1>12, <1>13 DEF UnchangedInv, Dialogue

(* A row is put behind those in the queue, which may push out the first of  *)
(* them: then the table will not be whole.                                  *)
LEMMA RowServed ==
  ASSUME AllocationTypeOK, UnchangedInv, NEW n \in Interface, Serve(n), changes' = 0,
         pc = "rows"
  PROVE  UnchangedInv'
<1> DEFINE len == Len(uplink_intern_queue)
<1>1. changes = 0 /\ Dialogue /\ SkippedOnce /\ UNCHANGED <<host, nodetab, changes>>
  BY DEF Serve, UnchangedInv
<1>2. n = asked /\ RowsComing /\ requests[n] \in Seq({"getnext"}) /\ requests[n] # << >>
  BY <1>1 DEF Serve, Dialogue, RowsComing
<1>3. /\ Head(requests[n]) = "getnext" /\ Len(requests[n]) \in Nat \ {0}
      /\ Tail(requests[n]) \in Seq({"getnext"}) /\ Len(Tail(requests[n])) = Len(requests[n]) - 1
  BY <1>2
<1>4. /\ len \in Nat /\ i \in Nat /\ row[n] \in Nat \ {0} /\ node_count \in Nat
      /\ uplink_intern_queue \in Seq(Message) /\ TableOK(nodetab[n])
  BY DEF AllocationTypeOK
<1>5. /\ row[n] - 1 + Len(requests[n]) = node_count /\ node_count = Len(nodetab[n])
      /\ i + len < row[n] /\ i < node_count
  BY <1>2 DEF RowsComing
<1>6. row[n] <= Len(nodetab[n])
  BY <1>3, <1>4, <1>5
<1>7. ~changed[n]
  BY <1>1 DEF Dialogue
<1>8. /\ Enqueue(Row(n)) /\ row' = [row EXCEPT ![n] = @ + 1] /\ UNCHANGED changed
      /\ requests' = [requests EXCEPT ![n] = Tail(@)]
  BY <1>3, <1>6, <1>7 DEF Serve
<1>9. /\ row'[n] = row[n] + 1 /\ requests'[n] = Tail(requests[n])
      /\ \A m \in Interface : ~changed'[m] /\ (m # asked => requests'[m] = << >>)
  BY <1>1, <1>2, <1>8 DEF Dialogue, AllocationTypeOK
<1>10. Row(n) = [type |-> "MSG_NODETAB", entry |-> nodetab[n][row[n]]] /\ Row(n) \in Message
  BY <1>4, <1>6 DEF Row, Message, TableOK
<1> DEFINE new == uplink_intern_queue'
           Is(k, r) == new[k] = [type |-> "MSG_NODETAB", entry |-> nodetab[n][r]]
<1>11. /\ \/ Len(new) = len + 1
          \/ Len(new) = len /\ len > 0
       /\ \A k \in 1..Len(new) : Is(k, row[n] - Len(new) + k)
  <2>1. \A k \in 1..len : uplink_intern_queue[k] =
                            [type |-> "MSG_NODETAB", entry |-> nodetab[n][row[n] - 1 - len + k]]
    BY <1>2 DEF RowsComing
  <2>2. CASE len = QUEUE_SIZE
    <3>1. len > 0 /\ new = Append(Tail(uplink_intern_queue), Row(n))
      BY <1>4, <1>8, <2>2, AllocationAssumption DEF Enqueue
    <3>2. /\ Tail(uplink_intern_queue) \in Seq(Message) /\ Len(Tail(uplink_intern_queue)) = len - 1
          /\ \A k \in 1..(len - 1) : Tail(uplink_intern_queue)[k] = uplink_intern_queue[k + 1]
      BY <1>4, <3>1
    <3>3. /\ Len(new) = len /\ new[len] = Row(n)
          /\ \A k \in 1..(len - 1) : new[k] = Tail(uplink_intern_queue)[k]
      BY <1>4, <1>10, <3>1, <3>2, AppendProperties
    <3>4. ASSUME NEW k \in 1..(len - 1) PROVE Is(k, row[n] - len + k)
      <4>1. k + 1 \in 1..len /\ row[n] - 1 - len + (k + 1) = row[n] - len + k
        BY <1>4
      <4> QED
        BY <2>1, <3>2, <3>3, <4>1
    <3>5. Is(len, row[n] - len + len)
      <4>1. row[n] - len + len = row[n]
        BY <1>4
      <4> QED
        BY <1>10, <3>3, <4>1
    <3>6. \A k \in 1..len : k \in 1..(len - 1) \/ k = len
      BY <1>4
    <3> HIDE DEF Is, new
    <3> QED
      BY <3>1, <3>3, <3>4, <3>5, <3>6
  <2>3. CASE len # QUEUE_SIZE
    <3>1. new = Append(uplink_intern_queue, Row(n))
      BY <1>8, <2>3 DEF Enqueue
    <3>2. /\ Len(new) = len + 1 /\ new[len + 1] = Row(n)
          /\ \A k \in 1..len : new[k] = uplink_intern_queue[k]
      BY <1>4, <1>10, <3>1, AppendProperties
    <3>3. ASSUME NEW k \in 1..len PROVE Is(k, row[n] - (len + 1) + k)
      <4>1. row[n] - 1 - len + k = row[n] - (len + 1) + k
        BY <1>4
      <4> QED
        BY <2>1, <3>2, <4>1
    <3>4. Is(len + 1, row[n] - (len + 1) + (len + 1))
      <4>1. row[n] - (len + 1) + (len + 1) = row[n]
        BY <1>4
      <4> QED
        BY <1>10, <3>2, <4>1
    <3>5. \A k \in 1..(len + 1) : k \in 1..len \/ k = len + 1
      BY <1>4
    <3> HIDE DEF Is, new
    <3> QED
      BY <3>2, <3>3, <3>4, <3>5
  <2> QED
    BY <2>2, <2>3
<1>12. RowsComing'
  <2>1. row'[n] - 1 + Len(requests'[n]) = node_count
    BY <1>3, <1>4, <1>5, <1>9
  <2>2. i + Len(new) < row'[n]
    BY <1>4, <1>5, <1>9, <1>11
  <2>3. ASSUME NEW k \in 1..Len(new) PROVE Is(k, row'[n] - 1 - Len(new) + k)
    <3> DEFINE l == Len(new)
    <3>1. l \in Nat /\ k \in Nat
      BY <1>4, <1>11
    <3> HIDE DEF l
    <3>2. row'[n] - 1 - l + k = row[n] - l + k
      BY <1>4, <1>9, <3>1
    <3> QED
      BY <1>11, <3>2 DEF l
  <2>4. nodetab' = nodetab /\ asked' = n /\ i' = i /\ node_count' = node_count
    BY <1>1, <1>2 DEF host
  <2>5. requests'[n] \in Seq({"getnext"})
    BY <1>3, <1>9
  <2> QED
    BY <1>2, <2>1, <2>2, <2>3, <2>4, <2>5 DEF RowsComing
<1>13. Whole' => Whole
  <2>1. asked' = n /\ i' = i
    BY <1>1, <1>2 DEF host
  <2> DEFINE l == Len(new)
  <2>2. l \in Nat /\ (l = len + 1 \/ l = len)
    BY <1>4, <1>11
  <2>3. i + l + 1 = row'[n] => i + len + 1 = row[n]
    BY <1>4, <1>5, <1>9, <2>2
  <2> QED
    BY <1>2, <2>1, <2>3 DEF Whole
<1>14. Entries' = Entries /\ \A m : Reachable(m)' <=> Reachable(m)
  BY <1>1, SameTables
<1>15. Progress'
  BY <1>1, <1>13 DEF Dialogue, Progress, host, Noted, NotedRow, HubAt
<1>16. Sound' /\ Found(asked)' /\ \A q \in Range(sub_iface_queue)' : Found(q)' /\ q # << >>
  BY <1>1, <1>14 DEF Dialogue, Sound, Found, host
<1>17. SkippedOnce'
  BY <1>1 DEF SkippedOnce, host
<1>18. pc' = "rows" /\ asked' = asked
  BY <1>1 DEF host
<1> QED
  BY <1>9, <1>12, <1>15, <1>16, <1>17, <1>18 DEF UnchangedInv, Dialogue

LEMMA UnchangedInit == Init => UnchangedInv
<1> SUFFICES ASSUME Init PROVE UnchangedInv
  OBVIOUS
<1>1. SkippedOnce
  BY DEF Init, SkippedOnce
<1>2. Range(<< >>) = {}
  BY DEF Range
<1>3. Found(asked)
  BY RootReachable DEF Init, Found
<1>4. Progress /\ Sound
  BY DEF Init, Progress, Sound
<1> QED
  BY <1>1, <1>2, <1>3, <1>4 DEF Init, UnchangedInv, Dialogue

LEMMA UnchangedStutter ==
  ASSUME UnchangedInv, UNCHANGED vars
  PROVE  UnchangedInv'
<1>1. UNCHANGED <<pc, asked, node_count, i, sub_iface_queue, skew, boards, uplink_intern_queue,
                  nodetab, changed, row, requests, changes>>
  BY DEF vars, host, nodes
<1>2. Entries' = Entries /\ \A n : Reachable(n)' <=> Reachable(n)
  BY <1>1, SameTables
<1>3. SkippedOnce' <=> SkippedOnce
  BY <1>1 DEF SkippedOnce
<1>4. Progress' <=> Progress
  BY <1>1 DEF Progress, Noted, NotedRow, HubAt, Whole
<1>5. (Asking' <=> Asking) /\ (Counted' <=> Counted) /\ (RowsComing' <=> RowsComing)
  BY <1>1 DEF Asking, Counted, Count, RowsComing
<1>6. (Sound' <=> Sound) /\ (Idle' <=> Idle) /\ \A n : Found(n)' <=> Found(n)
  BY <1>1, <1>2 DEF Sound, Idle, Found
<1>7. Dialogue' <=> Dialogue
  BY <1>1, <1>3, <1>4, <1>5, <1>6 DEF Dialogue
<1> QED
  BY <1>1, <1>3, <1>6, <1>7 DEF UnchangedInv

(* A step of the dialogue; the last one finds all that is there noted, and  *)
(* all that is noted there.                                                 *)
LEMMA DialogueStep ==
  ASSUME AllocationTypeOK, UnchangedInv, OnePlace, TwoLevels,
         Host \/ \E n \in Interface : Serve(n) \/ Change(n)
  PROVE  /\ UnchangedInv'
         /\ changes' = 0 /\ pc' = "done" => Complete'
<1>1. CASE changes' # 0
  BY <1>1 DEF UnchangedInv
<1>2. CASE changes' = 0 /\ Host
  <2>1. CASE AskForTable
    BY <1>2, <2>1, AskKeeps DEF AskForTable
  <2>2. CASE GetCount
    BY <1>2, <2>2, CountKeeps DEF GetCount
  <2>3. CASE SkipRow \/ Restart
    BY <1>2, <2>3, NoRestart
  <2>4. CASE GetRow /\ i + 1 < node_count
    <3>1. UnchangedInv'
      BY <1>2, <2>4, RowKeeps
    <3>2. pc' # "done"
      BY <2>4 DEF GetRow
    <3> QED
      BY <3>1, <3>2
  <2>5. CASE GetRow /\ ~(i + 1 < node_count)
    BY <1>2, <2>5, TableEnds
  <2> QED
    BY <1>2, <2>1, <2>2, <2>3, <2>4, <2>5 DEF Host
<1>3. CASE changes' = 0 /\ \E n \in Interface : Serve(n) \/ Change(n)
  <2>1. PICK n \in Interface : Serve(n) \/ Change(n)
    BY <1>3
  <2>2. CASE Change(n)
    BY <1>3, <2>2 DEF Change, AllocationTypeOK
  <2>3. CASE Serve(n)
    <3>1. changes = 0 /\ pc' = pc /\ requests[n] # << >>
      BY <1>3, <2>3 DEF Serve, host
    <3>2. pc \in {"count", "rows"}
      BY <3>1 DEF UnchangedInv, Dialogue, Idle, AllocationTypeOK
    <3> QED
      BY <1>3, <2>3, <3>1, <3>2, CountServed, RowServed
  <2> QED
    BY <2>1, <2>2, <2>3
<1> QED
  BY <1>1, <1>2, <1>3

\* When it has ended without a change, the addresses are those of the bus.
FoundInv ==
  /\ AllocationTypeOK /\ UnchangedInv
  /\ changes = 0 /\ pc = "done" => AllNoted /\ Sound

LEMMA FoundInvNext ==
  ASSUME FoundInv, OnePlace, TwoLevels, [Next]_vars
  PROVE  FoundInv'
<1>1. CASE UNCHANGED vars
  <2>1. UNCHANGED <<pc, boards, nodetab, changes>>
    BY <1>1 DEF vars, host, nodes
  <2>2. Entries' = Entries
    BY <2>1, SameTables
  <2>3. (AllNoted' <=> AllNoted) /\ (Sound' <=> Sound)
    BY <2>1, <2>2 DEF AllNoted, Sound
  <2> QED
    BY <1>1, <2>1, <2>3, StutterType, UnchangedStutter DEF FoundInv
<1>2. CASE Host \/ \E n \in Interface : Serve(n) \/ Change(n)
  <2>1. AllocationTypeOK'
    BY <1>2, HostType, ServeType, ChangeType DEF FoundInv
  <2> QED
    BY <1>2, <2>1, DialogueStep DEF FoundInv, Complete
<1> QED
  BY <1>1, <1>2 DEF Next, Done

LEMMA FoundInvHolds ==
  ASSUME TwoLevels
  PROVE  Spec /\ []OnePlace => []FoundInv
<1>1. Init => FoundInv
  BY AllocationTypeInit, UnchangedInit DEF FoundInv, Init
<1>2. FoundInv /\ OnePlace /\ [Next]_vars => FoundInv'
  BY FoundInvNext
<1> QED
  BY <1>1, <1>2, PTL DEF Spec

(* Allocated, for a bus on which no table changes during the dialogue: at   *)
(* its end every configured board that is on the bus is noted with its      *)
(* address, whatever the tables, the size of the queue and the order of the *)
(* answers, and also if rows were dropped (the dialogue does not end then). *)
(* No board that is not on the bus is noted.                                *)
THEOREM BoardsAreFound ==
  ASSUME TwoLevels
  PROVE  Spec /\ []OnePlace => [](changes = 0 => Allocated /\ (pc = "done" => Sound))
<1>1. FoundInv => (changes = 0 => Allocated /\ (pc = "done" => Sound))
  BY DEF FoundInv, Allocated, Settled, AllNoted
<1> QED
  BY <1>1, FoundInvHolds, PTL

(* NumbersInStep in the same case: the number of MSG_SYS_RESET is skipped   *)
(* once, with the first request to the interface, and never again however   *)
(* many hubs are asked.                                                     *)
THEOREM OneNumberIsSkipped ==
  ASSUME TwoLevels
  PROVE  Spec /\ []OnePlace => [](changes = 0 => NumbersInStep)
<1>1. FoundInv => (changes = 0 => NumbersInStep)
  BY DEF FoundInv, UnchangedInv, SkippedOnce, NumbersInStep
<1> QED
  BY <1>1, FoundInvHolds, PTL

----------------------------------------------------------------------------
(* The features: types.                                                     *)

FeatureSet == [number : Numbers, of : Configured]

Plain == [type : {"MSG_FEATURE"}] \cup [type : {"MSG_FEATURE_NA"}, number : Numbers]

NodeReport == [type : {"MSG_NODE_NEW", "MSG_NODE_LOST"}, node : Interface, entry : RowType]

StartupTypeOK ==
  /\ AllocationTypeOK
  /\ step \in {"set", "await", "ready"} /\ awaited \in Int
  /\ board \in 1..(Len(BoardOrder) + 1)
  /\ step = "ready" <=> board = Len(BoardOrder) + 1
  /\ reports \in Nat
  /\ feature_requests \in [Uid -> Seq(FeatureSet)]
  /\ value \in [Uid -> [Numbers -> Configured \cup {Unset}]]
  /\ uplink \in Seq(Plain \cup NodeReport)
  /\ refused \subseteq Numbers

LEMMA FeaturesOK ==
  ASSUME NEW b \in Configured
  PROVE  b \in Uid /\ Features[b] \in Seq(Numbers)
BY AllocationAssumption, StartupAssumption

LEMMA BoardOrderOK == Len(BoardOrder) \in Nat \ {0}
BY StartupAssumption

LEMMA BoardIs ==
  ASSUME NEW k \in 1..Len(BoardOrder)
  PROVE  BoardOrder[k] \in Configured
BY StartupAssumption

LEMMA PrefixKeeps ==
  ASSUME NEW t \in Seq(RowType), NEW s \in Seq(RowType), IsPrefix(s, t)
  PROVE  Len(s) <= Len(t) /\ \A k \in 1..Len(s) : t[k] = s[k]
<1>1. Len(s) \in Nat /\ Len(t) \in Nat /\ Len(s) <= Len(t)
  BY DEF IsPrefix
<1>2. SubSeq(s, 1, Len(s)) = SubSeq(t, 1, Len(s))
  BY DEF IsPrefix
<1>3. \A k \in 1..Len(s) : SubSeq(s, 1, Len(s))[k] = s[k] /\ SubSeq(t, 1, Len(s))[k] = t[k]
  BY <1>1
<1> QED
  BY <1>1, <1>2, <1>3

LEMMA FrontIs ==
  ASSUME NEW T, NEW s \in Seq(T), s # << >>
  PROVE  /\ Front(s) \in Seq(T) /\ Len(Front(s)) = Len(s) - 1
         /\ \A k \in 1..(Len(s) - 1) : Front(s)[k] = s[k]
<1> DEFINE n == Len(s) - 1
<1>1. n \in Nat /\ n \in Int /\ \A k \in 1..n : s[k] \in T
  OBVIOUS
<1>2. Front(s) = SubSeq(s, 1, n)
  BY DEF Front
<1> HIDE DEF n
<1>3. Front(s) \in Seq(T) /\ Len(Front(s)) = IF 1 <= n THEN n - 1 + 1 ELSE 0
  BY <1>1, <1>2, SubSeqProperties
<1>4. \A k \in 1..n : Front(s)[k] = s[k]
  <2>1. \A k \in 1..(n - 1 + 1) : SubSeq(s, 1, n)[k] = s[1 + k - 1]
    BY <1>1, SubSeqProperties
  <2> QED
    BY <1>1, <1>2, <2>1
<1>5. Len(Front(s)) = n
  BY <1>1, <1>3
<1> QED
  BY <1>3, <1>4, <1>5 DEF n

(* What a node reports: its last row is gone, or there is one more.         *)
LEMMA ReportIs ==
  ASSUME StartupTypeOK, NEW n \in Interface, Report(n)
  PROVE  \E e \in RowType : \E type \in {"MSG_NODE_NEW", "MSG_NODE_LOST"} :
           LET old == nodetab[n]  new == nodetab'[n]  len == Len(nodetab[n]) IN
           /\ uplink' = Append(uplink, [type |-> type, node |-> n, entry |-> e])
           /\ nodetab' = [nodetab EXCEPT ![n] = new]
           /\ TableOK(new)
           /\ type = "MSG_NODE_LOST" =>
                /\ len > 1 /\ Len(new) = len - 1 /\ e = old[len]
                /\ \A k \in 1..(len - 1) : new[k] = old[k]
           /\ type = "MSG_NODE_NEW" =>
                /\ Len(new) = len + 1 /\ e = new[len + 1]
                /\ \A k \in 1..len : new[k] = old[k]
<1> DEFINE old == nodetab[n]
           len == Len(old)
<1>1. TableOK(old) /\ DOMAIN nodetab = Interface /\ len \in Nat \ {0}
  <2>1. TableOK(old) /\ DOMAIN nodetab = Interface
    BY DEF StartupTypeOK, AllocationTypeOK
  <2>2. old \in Seq(RowType) /\ old # << >>
    BY <2>1 DEF TableOK
  <2> HIDE DEF old
  <2> QED
    BY <2>1, <2>2
<1>2. PICK t \in Tables[n] \cup {Front(old)} : Reported(n, t) /\ nodetab' = [nodetab EXCEPT ![n] = t]
  BY DEF Report
<1>3. nodetab'[n] = t
  BY <1>1, <1>2
<1>4. CASE /\ len > 1 /\ t = Front(old)
           /\ uplink' = Append(uplink, [type |-> "MSG_NODE_LOST", node |-> n, entry |-> Last(old)])
  <2>1. t = SubSeq(old, 1, len - 1) /\ Last(old) = old[len]
    BY <1>4 DEF Front, Last
  <2>2. /\ t \in Seq(RowType) /\ Len(t) = len - 1
        /\ \A k \in 1..(len - 1) : t[k] = old[k]
    BY <1>1, <1>4, FrontIs DEF TableOK
  <2>3. TableOK(t)
    <3>1. t # << >> /\ t[1] = old[1]
      BY <1>1, <1>4, <2>2
    <3>2. \A k \in 1..Len(t) : k \in 1..Len(old) /\ t[k] = old[k]
      BY <1>1, <2>2
    <3> QED
      BY <1>1, <2>2, <3>1, <3>2 DEF TableOK
  <2>4. old[len] \in RowType
    BY <1>1 DEF TableOK
  <2> QED
    BY <1>2, <1>3, <1>4, <2>1, <2>2, <2>3, <2>4
<1>5. CASE /\ Len(t) = len + 1 /\ IsPrefix(old, t)
           /\ uplink' = Append(uplink, [type |-> "MSG_NODE_NEW", node |-> n, entry |-> Last(t)])
  <2>1. t \in Tables[n]
    <3> SUFFICES ASSUME t = Front(old) PROVE FALSE
      BY <1>2
    <3>1. Len(Front(old)) = len - 1
      BY <1>1, FrontIs DEF TableOK
    <3> QED
      BY <1>1, <1>5, <3>1
  <2>2. TableOK(t)
    BY <2>1, TablesOK
  <2>3. t \in Seq(RowType) /\ Last(t) = t[len + 1] /\ t[len + 1] \in RowType
    BY <1>1, <1>5, <2>2 DEF TableOK, Last
  <2>4. \A k \in 1..len : t[k] = old[k]
    BY <1>1, <1>5, <2>3, PrefixKeeps DEF TableOK
  <2> QED
    BY <1>2, <1>3, <1>5, <2>2, <2>3, <2>4
<1> QED
  BY <1>2, <1>4, <1>5 DEF Reported

LEMMA StartupTypeInit == StartupInit => StartupTypeOK
<1> SUFFICES ASSUME StartupInit PROVE StartupTypeOK
  OBVIOUS
<1>1. AllocationTypeOK
  BY AllocationTypeInit DEF StartupInit
<1>2. << >> \in Seq(FeatureSet) /\ << >> \in Seq(Plain \cup NodeReport)
  OBVIOUS
<1>3. feature_requests \in [Uid -> Seq(FeatureSet)]
  BY <1>2 DEF StartupInit
<1>4. value \in [Uid -> [Numbers -> Configured \cup {Unset}]]
  BY DEF StartupInit
<1>5. step = "set" /\ board = 1 /\ awaited = 0 /\ reading = FALSE /\ uplink = << >> /\ reports = 0
      /\ refused = {} /\ dropped = FALSE
  BY DEF StartupInit
<1>6. /\ step \in {"set", "await", "ready"} /\ awaited \in Int
      /\ reports \in Nat /\ refused \subseteq Numbers
      /\ step # "ready" /\ board \in 1..(Len(BoardOrder) + 1) /\ board # Len(BoardOrder) + 1
  BY <1>5, BoardOrderOK
<1>7. uplink \in Seq(Plain \cup NodeReport)
  BY <1>2, <1>5
<1> QED
  BY <1>1, <1>3, <1>4, <1>6, <1>7 DEF StartupTypeOK

(* What the message at the head of the bus is.                              *)
LEMMA HeadIs ==
  ASSUME StartupTypeOK, NEW type, Incoming(type)
  PROVE  /\ Head(uplink) \in Plain \cup NodeReport /\ Head(uplink) = uplink[1]
         /\ uplink' = Tail(uplink) /\ uplink' \in Seq(Plain \cup NodeReport)
         /\ Len(uplink) \in Nat \ {0} /\ Len(uplink') = Len(uplink) - 1
         /\ \A k \in 1..Len(uplink') : uplink'[k] = uplink[k + 1]
         /\ uplink[1].type = type
<1>1. uplink \in Seq(Plain \cup NodeReport) /\ uplink # << >> /\ uplink' = Tail(uplink)
  BY DEF StartupTypeOK, Incoming
<1>2. Head(uplink).type = type
  BY DEF Incoming
<1> QED
  BY <1>1, <1>2

LEMMA AllocationVarsOnly ==
  ASSUME StartupTypeOK, AllocationTypeOK', UNCHANGED featureVars
  PROVE  StartupTypeOK'
BY DEF StartupTypeOK, featureVars, caller, bus

LEMMA TableStepType ==
  ASSUME StartupTypeOK, Caller \/ Changes \/ \E n \in Interface : Answer(n)
  PROVE  StartupTypeOK'
<1>1. AllocationTypeOK
  BY DEF StartupTypeOK
<1>2. CASE Caller
  BY <1>1, <1>2, HostType, AllocationVarsOnly DEF Caller
<1>3. CASE Changes
  BY <1>1, <1>3, ChangeType, AllocationVarsOnly DEF Changes
<1>4. ASSUME NEW n \in Interface, Answer(n) PROVE StartupTypeOK'
  <2>1. AllocationTypeOK'
    BY <1>1, <1>4, ServeType DEF Answer
  <2> QED
    BY <1>4, <2>1 DEF Answer, StartupTypeOK, caller, bus
<1> QED
  BY <1>2, <1>3, <1>4

LEMMA SameVars ==
  ASSUME AllocationTypeOK, UNCHANGED vars
  PROVE  AllocationTypeOK' /\ Entries' = Entries
BY SameTables, StutterType DEF vars, nodes

LEMMA SendFeaturesType ==
  ASSUME StartupTypeOK, NEW b \in Configured, SendFeatures(b)
  PROVE  feature_requests' \in [Uid -> Seq(FeatureSet)]
<1> DEFINE sent == [k \in DOMAIN Features[b] |-> [number |-> Features[b][k], of |-> b]]
<1>1. Features[b] \in Seq(Numbers)
  BY FeaturesOK
<1>2. sent \in Seq(FeatureSet)
  <2>1. DOMAIN Features[b] = 1..Len(Features[b]) /\ Len(Features[b]) \in Nat
    BY <1>1
  <2>2. \A k \in 1..Len(Features[b]) : Features[b][k] \in Numbers
    BY <1>1
  <2>3. sent \in [1..Len(Features[b]) -> FeatureSet]
    BY <2>1, <2>2 DEF FeatureSet
  <2> QED
    BY <2>1, <2>3
<1> HIDE DEF sent
<1>3. feature_requests' = [u \in Uid |-> IF u \in NodesAt(boards[b])
                                        THEN feature_requests[u] \o sent ELSE feature_requests[u]]
  BY DEF SendFeatures, sent
<1>4. \A u \in Uid : feature_requests[u] \o sent \in Seq(FeatureSet) /\ feature_requests[u] \in Seq(FeatureSet)
  BY <1>2 DEF StartupTypeOK
<1> QED
  BY <1>3, <1>4

LEMMA CallerStepType ==
  ASSUME StartupTypeOK, SetFeatures \/ AwaitFeature \/ Poll \/ Ready
  PROVE  StartupTypeOK'
<1>1. AllocationTypeOK
  BY DEF StartupTypeOK
<1>2. step # "ready" => board \in 1..Len(BoardOrder)
  BY BoardOrderOK DEF StartupTypeOK
<1>3. ASSUME NextBoard, step # "ready"
      PROVE  /\ step' \in {"set", "ready"} /\ board' \in 1..(Len(BoardOrder) + 1)
             /\ step' = "ready" <=> board' = Len(BoardOrder) + 1
  BY <1>2, <1>3, BoardOrderOK DEF NextBoard
<1>4. CASE SetFeatures
  <2> DEFINE b == BoardOrder[board]
  <2>1. b \in Configured
    BY <1>4, <1>2, BoardIs DEF SetFeatures
  <2>2. AllocationTypeOK'
    BY <1>1, <1>4, SameVars DEF SetFeatures
  <2>3. UNCHANGED <<value, uplink, reports, refused>>
    BY <1>4 DEF SetFeatures
  <2>4. CASE NextBoard /\ UNCHANGED <<awaited, feature_requests>>
    BY <1>4, <1>3, <2>2, <2>3, <2>4 DEF SetFeatures, StartupTypeOK
  <2>5. CASE SendFeatures(b) /\ AwaitAll(b) /\ step' = "await" /\ UNCHANGED board
    <3>1. awaited' \in Int
      BY <2>1, <2>5, FeaturesOK DEF AwaitAll
    <3>2. feature_requests' \in [Uid -> Seq(FeatureSet)]
      BY <2>1, <2>5, SendFeaturesType
    <3> QED
      BY <1>4, <2>2, <2>3, <2>5, <3>1, <3>2 DEF StartupTypeOK, SetFeatures
  <2> QED
    BY <1>4, <2>4, <2>5 DEF SetFeatures
<1>5. CASE AwaitFeature
  <2>1. /\ UNCHANGED <<host, nodes, requests, changes, bus, refused>>
        /\ uplink_intern_queue' = Tail(uplink_intern_queue) /\ uplink_intern_queue # << >>
    BY <1>5 DEF AwaitFeature
  <2>2. uplink_intern_queue' \in Seq(Message)
    BY <1>1, <2>1 DEF AllocationTypeOK
  <2>3. AllocationTypeOK'
    BY <1>1, <2>1, <2>2 DEF AllocationTypeOK, host, nodes
  <2>4. /\ step' \in {"set", "await", "ready"} /\ awaited' \in Int
        /\ board' \in 1..(Len(BoardOrder) + 1)
        /\ step' = "ready" <=> board' = Len(BoardOrder) + 1
    <3>1. CASE UNCHANGED caller
      BY <3>1 DEF caller, StartupTypeOK
    <3>2. CASE awaited' = awaited - 1 /\ NextBoard
      BY <1>5, <1>3, <3>2 DEF AwaitFeature, StartupTypeOK
    <3>3. CASE awaited' = awaited - 1 /\ UNCHANGED <<step, board, reading>>
      BY <3>3 DEF StartupTypeOK
    <3> QED
      BY <1>5, <3>1, <3>2, <3>3 DEF AwaitFeature
  <2> QED
    BY <2>1, <2>3, <2>4 DEF StartupTypeOK, bus
<1>6. CASE Poll \/ Ready
  <2>1. UNCHANGED allVars
    BY <1>6 DEF Poll, Ready
  <2> QED
    BY <1>1, <2>1, SameVars, AllocationVarsOnly DEF allVars
<1> QED
  BY <1>4, <1>5, <1>6

LEMMA BusStepType ==
  ASSUME StartupTypeOK,
         (\E u \in Uid : ServeFeature(u)) \/ \E n \in Interface : Report(n)
  PROVE  StartupTypeOK'
<1>1. AllocationTypeOK /\ uplink \in Seq(Plain \cup NodeReport)
  BY DEF StartupTypeOK
<1>2. ASSUME NEW u \in Uid, ServeFeature(u) PROVE StartupTypeOK'
  <2> DEFINE r == Head(feature_requests[u])
  <2>1. r \in FeatureSet /\ Tail(feature_requests[u]) \in Seq(FeatureSet)
    BY <1>2 DEF ServeFeature, StartupTypeOK
  <2>2. UNCHANGED <<vars, caller, refused, reports>>
    BY <1>2 DEF ServeFeature
  <2>3. feature_requests' \in [Uid -> Seq(FeatureSet)]
    BY <1>2, <2>1 DEF ServeFeature, StartupTypeOK
  <2>4. r.number \in Numbers /\ r.of \in Configured
    BY <2>1 DEF FeatureSet
  <2> HIDE DEF r
  <2>5. value' \in [Uid -> [Numbers -> Configured \cup {Unset}]]
    <3>1. value' = value \/ value' = [value EXCEPT ![u][r.number] = r.of]
      BY <1>2 DEF ServeFeature, r
    <3>2. value[u] \in [Numbers -> Configured \cup {Unset}]
      BY DEF StartupTypeOK
    <3>3. [value[u] EXCEPT ![r.number] = r.of] \in [Numbers -> Configured \cup {Unset}]
      BY <2>4, <3>2
    <3> QED
      BY <3>1, <3>3 DEF StartupTypeOK
  <2>6. uplink' \in Seq(Plain \cup NodeReport)
    <3>1. [type |-> "MSG_FEATURE"] \in Plain /\ [type |-> "MSG_FEATURE_NA", number |-> r.number] \in Plain
      BY <2>4 DEF Plain
    <3>2. PICK m \in Plain : uplink' = Append(uplink, m)
      BY <1>2, <3>1 DEF ServeFeature, r
    <3> QED
      BY <1>1, <3>2
  <2>7. AllocationTypeOK'
    BY <1>1, <2>2, SameVars
  <2> QED
    BY <2>2, <2>3, <2>5, <2>6, <2>7 DEF StartupTypeOK, caller
<1>3. ASSUME NEW n \in Interface, Report(n) PROVE StartupTypeOK'
  <2>1. PICK e \in RowType, type \in {"MSG_NODE_NEW", "MSG_NODE_LOST"} :
          /\ uplink' = Append(uplink, [type |-> type, node |-> n, entry |-> e])
          /\ nodetab' = [nodetab EXCEPT ![n] = nodetab'[n]] /\ TableOK(nodetab'[n])
    BY <1>3, ReportIs
  <2>2. uplink' \in Seq(Plain \cup NodeReport)
    <3>1. [type |-> type, node |-> n, entry |-> e] \in NodeReport
      BY DEF NodeReport
    <3> QED
      BY <1>1, <2>1, <3>1
  <2>3. DOMAIN nodetab' = Interface /\ \A m \in Interface : TableOK(nodetab'[m])
    <3>1. DOMAIN nodetab' = Interface /\ \A m \in Interface : m # n => nodetab'[m] = nodetab[m]
      BY <1>1, <2>1 DEF AllocationTypeOK
    <3> QED
      BY <1>1, <2>1, <3>1 DEF AllocationTypeOK
  <2>4. requests' \in [Interface -> Seq({"getall", "getnext"})]
    BY <1>1, <1>3 DEF Report, AllocationTypeOK
  <2>5. AllocationTypeOK'
    BY <1>1, <1>3, <2>3, <2>4 DEF Report, AllocationTypeOK, host
  <2>6. feature_requests' \in [Uid -> Seq(FeatureSet)]
    <3>1. \A u \in Uid : feature_requests[u] \in Seq(FeatureSet)
      BY DEF StartupTypeOK
    <3> QED
      BY <1>3, <3>1 DEF Report
  <2>7. value' \in [Uid -> [Numbers -> Configured \cup {Unset}]]
    <3>1. \A u \in Uid : value[u] \in [Numbers -> Configured \cup {Unset}]
      BY DEF StartupTypeOK
    <3> QED
      BY <1>3, <3>1 DEF Report
  <2>8. reports' \in Nat /\ UNCHANGED <<caller, refused>>
    BY <1>3 DEF Report, StartupTypeOK
  <2> QED
    BY <2>2, <2>5, <2>6, <2>7, <2>8 DEF StartupTypeOK, caller
<1> QED
  BY <1>2, <1>3

LEMMA ReceiverType ==
  ASSUME StartupTypeOK, Receiver
  PROVE  StartupTypeOK'
<1>1. AllocationTypeOK
  BY DEF StartupTypeOK
<1>2. CASE HandleFeature
  <2>1. uplink' \in Seq(Plain \cup NodeReport) /\ Head(uplink) \in Plain \cup NodeReport
        /\ Head(uplink).type = "MSG_FEATURE"
    BY <1>2, HeadIs DEF HandleFeature
  <2>2. Head(uplink) \in Message
    BY <2>1 DEF Plain, NodeReport, Message
  <2>3. uplink_intern_queue' \in Seq(Message)
    BY <1>1, <1>2, <2>2, QueueType DEF HandleFeature, AllocationTypeOK
  <2>4. AllocationTypeOK'
    BY <1>1, <1>2, <2>3 DEF HandleFeature, AllocationTypeOK, host, nodes
  <2> QED
    BY <1>2, <2>1, <2>4 DEF HandleFeature, StartupTypeOK, caller
<1>3. CASE HandleFeatureNa
  <2>1. uplink' \in Seq(Plain \cup NodeReport) /\ Head(uplink) \in Plain \cup NodeReport
        /\ Head(uplink).type = "MSG_FEATURE_NA"
    BY <1>3, HeadIs DEF HandleFeatureNa
  <2>2. Head(uplink).number \in Numbers
    BY <2>1 DEF Plain, NodeReport
  <2>3. AllocationTypeOK'
    BY <1>1, <1>3, SameVars DEF HandleFeatureNa
  <2> QED
    BY <1>3, <2>1, <2>2, <2>3 DEF HandleFeatureNa, StartupTypeOK, caller
<1>4. CASE HandleLost
  <2>1. uplink' \in Seq(Plain \cup NodeReport)
    BY <1>4, HeadIs DEF HandleLost
  <2>2. boards' \in [Configured -> Seq(Nat) \cup {NoAddr}]
    BY <1>1, <1>4 DEF HandleLost, Lose, AllocationTypeOK
  <2>3. AllocationTypeOK'
    BY <1>1, <1>4, <2>2 DEF HandleLost, AllocationTypeOK, nodes
  <2> QED
    BY <1>4, <2>1, <2>3 DEF HandleLost, StartupTypeOK, caller
<1>5. CASE HandleNew
  <2> DEFINE m == Head(uplink)
  <2>1. uplink' \in Seq(Plain \cup NodeReport) /\ m \in Plain \cup NodeReport
        /\ m.type = "MSG_NODE_NEW"
    BY <1>5, HeadIs DEF HandleNew
  <2>2. m.node \in Interface /\ m.entry \in RowType
    BY <2>1 DEF Plain, NodeReport
  <2>3. m.node \in Seq(Nat) /\ m.entry.local \in Nat
    <3>1. m.node \in Seq(Nat \ {0})
      BY <2>2, AllocationAssumption
    <3> QED
      BY <2>2, <3>1 DEF RowType
  <2>4. Below(m.node, m.entry.local) \in Seq(Nat)
    BY <2>3, BelowType
  <2>5. boards' \in [Configured -> Seq(Nat) \cup {NoAddr}]
    BY <1>1, <1>5, <2>4 DEF HandleNew, AllocationTypeOK
  <2>6. AllocationTypeOK'
    BY <1>1, <1>5, <2>5 DEF HandleNew, AllocationTypeOK, nodes
  <2> QED
    BY <1>5, <2>1, <2>6 DEF HandleNew, StartupTypeOK, caller
<1> QED
  BY <1>2, <1>3, <1>4, <1>5 DEF Receiver

(* The steps of Startup, one by one.                                        *)
LEMMA StartupSteps ==
  ASSUME [StartupNext]_allVars
  PROVE  \/ Caller \/ Changes \/ \E n \in Interface : Answer(n)
         \/ SetFeatures \/ AwaitFeature
         \/ \E u \in Uid : ServeFeature(u)
         \/ \E n \in Interface : Report(n)
         \/ HandleFeature \/ HandleFeatureNa \/ HandleLost \/ HandleNew
         \/ UNCHANGED allVars
BY DEF StartupNext, SetBoardFeatures, Receiver, Poll, Ready

LEMMA StartupTypeNext == StartupTypeOK /\ [StartupNext]_allVars => StartupTypeOK'
<1> SUFFICES ASSUME StartupTypeOK, [StartupNext]_allVars PROVE StartupTypeOK'
  OBVIOUS
<1>1. CASE UNCHANGED allVars
  BY <1>1, SameVars, AllocationVarsOnly DEF allVars, StartupTypeOK
<1> QED
  BY <1>1, StartupSteps, TableStepType, CallerStepType, BusStepType, ReceiverType DEF Receiver

----------------------------------------------------------------------------
(* What the dialogue leaves to the steps after it.                          *)

\* The bus and the caller wait for the end of the dialogue.
Early ==
  pc # "done" =>
    /\ step = "set" /\ board = 1 /\ uplink = << >> /\ reports = 0 /\ refused = {}
    /\ \A u \in Uid : feature_requests[u] = << >>

IsPlain(k) == uplink[k].type \in {"MSG_FEATURE", "MSG_FEATURE_NA"}

BaseInv ==
  /\ StartupTypeOK /\ Early /\ UnchangedInv
  /\ reports = 0 => \A k \in DOMAIN uplink : IsPlain(k)
  /\ changes = 0 /\ reports = 0 /\ pc = "done" => AllNoted /\ Sound

LEMMA BaseInvInit == StartupInit => BaseInv
<1> SUFFICES ASSUME StartupInit PROVE BaseInv
  OBVIOUS
<1>1. StartupTypeOK /\ UnchangedInv
  BY StartupTypeInit, UnchangedInit DEF StartupInit
<1>2. Early
  BY DEF StartupInit, Early
<1>3. pc = "query" /\ DOMAIN uplink = {}
  BY DEF StartupInit, Init
<1> QED
  BY <1>1, <1>2, <1>3 DEF BaseInv

(* A step of the dialogue.                                                  *)
LEMMA TableStepBase ==
  ASSUME BaseInv, OnePlace, TwoLevels, Caller \/ Changes \/ \E n \in Interface : Answer(n)
  PROVE  /\ BaseInv'
         /\ UNCHANGED <<caller, bus, refused>>
         /\ changes' = 0 => pc # "done"
         /\ changes' = 0 /\ pc' = "done" => Complete' /\ nodetab' = nodetab /\ changes = 0
<1>1. Host \/ \E n \in Interface : Serve(n) \/ Change(n)
  BY DEF Caller, Changes, Answer
<1>2. UNCHANGED <<caller, bus, refused>>
  BY DEF Caller, Changes, Answer, featureVars
<1>3. /\ UnchangedInv'
      /\ changes' = 0 /\ pc' = "done" => Complete'
  BY <1>1, DialogueStep DEF BaseInv, StartupTypeOK
<1>4. StartupTypeOK'
  BY TableStepType DEF BaseInv
<1>5. changes \in Nat
  BY DEF BaseInv, StartupTypeOK, AllocationTypeOK
<1>6. pc = "done" => pc' = "done"
  BY <1>1 DEF Host, AskForTable, GetCount, SkipRow, GetRow, Restart, Serve, Change, host
<1>7. changes' = 0 => pc # "done" /\ nodetab' = nodetab /\ changes = 0
  <2>1. CASE Host
    BY <2>1 DEF Host, AskForTable, GetCount, SkipRow, GetRow, Restart, nodes
  <2>2. ASSUME NEW n \in Interface, Serve(n), changes' = 0
        PROVE  pc # "done" /\ nodetab' = nodetab /\ changes = 0
    <3>1. changes = 0 /\ nodetab' = nodetab /\ requests[n] # << >>
      BY <2>2 DEF Serve
    <3> QED
      BY <3>1 DEF BaseInv, UnchangedInv, Idle
  <2>3. ASSUME NEW n \in Interface, Change(n) PROVE changes' # 0
    BY <1>5, <2>3 DEF Change
  <2> QED
    BY <1>1, <2>1, <2>2, <2>3
<1>8. Early'
  BY <1>2, <1>6 DEF BaseInv, Early, caller, bus
<1>9. reports' = 0 => \A k \in DOMAIN uplink' : IsPlain(k)'
  BY <1>2 DEF BaseInv, bus, IsPlain
<1> QED
  BY <1>2, <1>3, <1>4, <1>7, <1>8, <1>9 DEF BaseInv, Complete

LEMMA AfterDialogue ==
  ASSUME UnchangedInv, pc = "done", UNCHANGED <<pc, asked, skew, changed, changes>>,
         \A n \in Interface : requests'[n] = requests[n] \/ requests'[n] = << >>
  PROVE  UnchangedInv'
BY DEF UnchangedInv, SkippedOnce, Idle

LEMMA AppendPlain ==
  ASSUME NEW T, uplink \in Seq(T), NEW m \in T, uplink' = Append(uplink, m)
  PROVE  /\ DOMAIN uplink = 1..Len(uplink) /\ Len(uplink) \in Nat
         /\ DOMAIN uplink' = 1..(Len(uplink) + 1) /\ Len(uplink') = Len(uplink) + 1
         /\ \A k \in 1..Len(uplink) : uplink'[k] = uplink[k]
         /\ uplink'[Len(uplink) + 1] = m
BY AppendProperties

LEMMA LaterStepBase ==
  ASSUME BaseInv,
         \/ SetFeatures \/ AwaitFeature
         \/ \E u \in Uid : ServeFeature(u)
         \/ \E n \in Interface : Report(n)
         \/ HandleFeature \/ HandleFeatureNa \/ HandleLost \/ HandleNew
  PROVE  /\ BaseInv' /\ pc = "done" /\ pc' = "done" /\ changes' = changes
         /\ reports' = 0 => ~HandleLost /\ ~HandleNew /\ ~\E n \in Interface : Report(n)
<1>1. StartupTypeOK /\ uplink \in Seq(Plain \cup NodeReport) /\ reports \in Nat
  BY DEF BaseInv, StartupTypeOK
<1>2. pc = "done"
  <2>1. step = "await" => pc = "done"
    BY DEF BaseInv, Early
  <2>2. ASSUME NEW u \in Uid, feature_requests[u] # << >> PROVE pc = "done"
    BY <2>2 DEF BaseInv, Early
  <2>3. uplink # << >> => pc = "done"
    BY DEF BaseInv, Early
  <2> QED
    BY <2>1, <2>2, <2>3 DEF SetFeatures, AwaitFeature, ServeFeature, Report, HandleFeature,
         HandleFeatureNa, HandleLost, HandleNew, Incoming
<1>3. StartupTypeOK'
  BY <1>1, CallerStepType, BusStepType, ReceiverType DEF Receiver
<1>4. /\ UNCHANGED <<pc, asked, skew, changed, changes>>
      /\ \A n \in Interface : requests'[n] = requests[n] \/ requests'[n] = << >>
  BY DEF SetFeatures, AwaitFeature, ServeFeature, Report, HandleFeature,
         HandleFeatureNa, HandleLost, HandleNew, vars, host, nodes
<1>5. UnchangedInv'
  BY <1>2, <1>4, AfterDialogue DEF BaseInv
<1>6. Early'
  BY <1>2, <1>4 DEF Early
<1>7. CASE reports' = 0
  <2>1. reports = 0 /\ ~\E n \in Interface : Report(n)
    <3>1. ASSUME NEW n \in Interface, Report(n) PROVE FALSE
      BY <1>1, <1>7, <3>1 DEF Report
    <3>2. reports' = reports
      BY <3>1 DEF SetFeatures, AwaitFeature, ServeFeature, HandleFeature, HandleFeatureNa,
           HandleLost, HandleNew, bus
    <3> QED
      BY <1>7, <3>1, <3>2
  <2>2. \A k \in DOMAIN uplink : IsPlain(k)
    BY <2>1 DEF BaseInv
  <2>3. ~HandleLost /\ ~HandleNew
    <3>1. ASSUME NEW type, Incoming(type) PROVE type \in {"MSG_FEATURE", "MSG_FEATURE_NA"}
      <4>1. uplink[1].type = type /\ Len(uplink) \in Nat \ {0}
        BY <1>1, <3>1, HeadIs
      <4>2. 1 \in DOMAIN uplink
        BY <1>1, <4>1
      <4> QED
        BY <2>2, <4>1, <4>2 DEF IsPlain
    <3> QED
      BY <3>1 DEF HandleLost, HandleNew
  <2>4. UNCHANGED <<boards, nodetab>>
    BY <2>1, <2>3 DEF SetFeatures, AwaitFeature, ServeFeature, HandleFeature, HandleFeatureNa,
         vars, host, nodes
  <2>5. \A k \in DOMAIN uplink' : IsPlain(k)'
    <3>1. CASE uplink' = uplink
      BY <2>2, <3>1 DEF IsPlain
    <3>2. CASE HandleFeature \/ HandleFeatureNa
      <4>1. /\ uplink' \in Seq(Plain \cup NodeReport) /\ Len(uplink) \in Nat \ {0}
            /\ Len(uplink') = Len(uplink) - 1
            /\ \A k \in 1..Len(uplink') : uplink'[k] = uplink[k + 1]
        BY <1>1, <3>2, HeadIs DEF HandleFeature, HandleFeatureNa
      <4>2. \A k \in DOMAIN uplink' : k \in 1..Len(uplink') /\ k + 1 \in DOMAIN uplink
        BY <1>1, <4>1
      <4> QED
        BY <2>2, <4>1, <4>2 DEF IsPlain
    <3>3. ASSUME NEW u \in Uid, ServeFeature(u) PROVE \A k \in DOMAIN uplink' : IsPlain(k)'
      <4>1. PICK m \in Plain : uplink' = Append(uplink, m)
        <5> DEFINE r == Head(feature_requests[u])
        <5>1. r \in FeatureSet
          BY <1>1, <3>3 DEF ServeFeature, StartupTypeOK
        <5>2. [type |-> "MSG_FEATURE"] \in Plain /\ [type |-> "MSG_FEATURE_NA", number |-> r.number] \in Plain
          BY <5>1 DEF Plain, FeatureSet
        <5> QED
          BY <3>3, <5>2 DEF ServeFeature
      <4>2. m.type \in {"MSG_FEATURE", "MSG_FEATURE_NA"}
        BY DEF Plain
      <4>3. /\ DOMAIN uplink = 1..Len(uplink) /\ Len(uplink) \in Nat
            /\ DOMAIN uplink' = 1..(Len(uplink) + 1)
            /\ \A k \in 1..Len(uplink) : uplink'[k] = uplink[k]
            /\ uplink'[Len(uplink) + 1] = m
        BY <1>1, <4>1, AppendPlain
      <4> QED
        BY <2>2, <4>2, <4>3 DEF IsPlain
    <3> QED
      BY <2>1, <2>3, <3>1, <3>2, <3>3 DEF SetFeatures, AwaitFeature, bus
  <2>6. Entries' = Entries
    BY <2>4, SameTables
  <2>7. (AllNoted' /\ Sound') \/ changes' # 0
    BY <1>2, <1>4, <2>1, <2>4, <2>6 DEF BaseInv, AllNoted, Sound
  <2> QED
    BY <1>2, <1>3, <1>4, <1>5, <1>6, <2>1, <2>3, <2>5, <2>7 DEF BaseInv
<1>8. CASE reports' # 0
  BY <1>2, <1>3, <1>4, <1>5, <1>6, <1>8 DEF BaseInv
<1> QED
  BY <1>7, <1>8

----------------------------------------------------------------------------
(* The features of a board are all answered before the next board's turn,   *)
(* as long as no answer is a refusal and none is dropped.                   *)

\* Requests and answers that are on their way.
OnTheWay(b) == Len(feature_requests[b]) + Len(uplink) + Len(uplink_intern_queue)

\* Requests of b that its node has served.
Served(b) == Len(Features[b]) - Len(feature_requests[b])

NoRefusal == refused = {} /\ \A k \in DOMAIN uplink : uplink[k].type # "MSG_FEATURE_NA"

Awaiting(b) ==
  /\ \A u \in Uid \ {b} : feature_requests[u] = << >>
  /\ Len(feature_requests[b]) <= Len(Features[b])
  /\ \A k \in 1..Len(feature_requests[b]) :
       feature_requests[b][k] = [number |-> Features[b][Served(b) + k], of |-> b]
  /\ awaited > 0 /\ awaited >= OnTheWay(b)
  /\ refused # {} => awaited > OnTheWay(b)
  /\ NoRefusal => \A k \in 1..Served(b) : value[b][Features[b][k]] = b

Quiet ==
  /\ \A u \in Uid : feature_requests[u] = << >>
  /\ uplink = << >> /\ refused = {}
  /\ pc = "done" => uplink_intern_queue = << >>

Has(b) == \A f \in Range(Features[b]) : value[b][f] = b

FeatureInv ==
  changes = 0 /\ reports = 0 /\ ~dropped =>
    /\ IF step = "await" THEN Awaiting(BoardOrder[board]) ELSE Quiet
    /\ \A k \in 1..(board - 1) : BoardOrder[k] \in OnBus => Has(BoardOrder[k])

LEMMA FeatureInvInit == StartupInit => FeatureInv
<1> SUFFICES ASSUME StartupInit PROVE FeatureInv
  OBVIOUS
<1>1. Quiet
  BY DEF StartupInit, Init, Quiet
<1>2. 1..(board - 1) = {}
  BY DEF StartupInit
<1> QED
  BY <1>1, <1>2 DEF FeatureInv, StartupInit

LEMMA SameOnBus ==
  ASSUME nodetab' = nodetab
  PROVE  OnBus' = OnBus
BY SameTables DEF OnBus

LEMMA OnBusIs ==
  ASSUME NEW u
  PROVE  u \in OnBus <=> \E a : <<u, a>> \in Entries
<1>1. ASSUME u \in OnBus PROVE \E a : <<u, a>> \in Entries
  <2>1. PICK e \in Entries : u = e[1]
    BY <1>1 DEF OnBus
  <2>2. e = <<e[1], e[2]>>
    BY EntryIs
  <2> QED
    BY <2>1, <2>2
<1>2. ASSUME NEW a, <<u, a>> \in Entries PROVE u \in OnBus
  BY <1>2 DEF OnBus
<1> QED
  BY <1>1, <1>2

(* A step that leaves the features, the bus and the queue alone.            *)
LEMMA TableStepFeatures ==
  ASSUME BaseInv, FeatureInv, OnePlace, TwoLevels,
         Caller \/ Changes \/ \E n \in Interface : Answer(n)
  PROVE  FeatureInv'
<1> SUFFICES ASSUME changes' = 0, reports' = 0, ~dropped'
             PROVE  /\ (IF step = "await" THEN Awaiting(BoardOrder[board]) ELSE Quiet)'
                    /\ (\A k \in 1..(board - 1) : BoardOrder[k] \in OnBus => Has(BoardOrder[k]))'
  BY DEF FeatureInv
<1>1. /\ UNCHANGED <<caller, bus, refused>> /\ pc # "done"
      /\ pc' = "done" => Complete' 
  BY TableStepBase
<1>2. step' = "set" /\ board' = 1 /\ uplink' = << >> /\ refused' = {}
      /\ \A u \in Uid : feature_requests'[u] = << >>
  BY <1>1 DEF BaseInv, Early, caller, bus
<1>3. Quiet'
  BY <1>1, <1>2 DEF Quiet, Complete
<1>4. 1..(board' - 1) = {}
  BY <1>2
<1> QED
  BY <1>2, <1>3, <1>4

(* A board that is noted is alone at its address; one that is not noted is  *)
(* not on the bus.                                                          *)
LEMMA NotedIsAlone ==
  ASSUME StartupTypeOK, AllNoted, Sound, OnePlace, NEW b \in Configured
  PROVE  /\ boards[b] = NoAddr => b \notin OnBus
         /\ boards[b] # NoAddr => NodesAt(boards[b]) = {b}
<1>1. ASSUME boards[b] = NoAddr, b \in OnBus PROVE FALSE
  <2>1. PICK e \in Entries : b = e[1]
    BY <1>1 DEF OnBus
  <2>2. boards[b] = e[2]
    BY <2>1 DEF AllNoted
  <2>3. PICK n \in Interface : Reachable(n) /\ \E k \in DOMAIN nodetab[n] :
          e = <<nodetab[n][k].uid, Below(n, nodetab[n][k].local)>>
    BY EntryIs
  <2>4. PICK k \in DOMAIN nodetab[n] : e = <<nodetab[n][k].uid, Below(n, nodetab[n][k].local)>>
    BY <2>3
  <2>5. n \in Seq(Nat) /\ nodetab[n][k].local \in Nat
    <3>1. n \in Seq(Nat \ {0}) /\ TableOK(nodetab[n])
      BY AllocationAssumption DEF StartupTypeOK, AllocationTypeOK
    <3>2. nodetab[n][k] \in RowType
      BY <2>4, <3>1 DEF TableOK
    <3> QED
      BY <3>1, <3>2 DEF RowType
  <2>6. e[2] \in Seq(Nat)
    BY <2>4, <2>5, BelowType
  <2> QED
    BY <1>1, <2>2, <2>6, AllocationAssumption
<1>2. ASSUME boards[b] # NoAddr PROVE NodesAt(boards[b]) = {b}
  <2>1. <<b, boards[b]>> \in Entries
    BY <1>2 DEF Sound
  <2>2. \A e \in Entries : e[2] = boards[b] => e[1] = b
    BY <2>1 DEF OnePlace
  <2> QED
    BY <2>1, <2>2 DEF NodesAt
<1> QED
  BY <1>1, <1>2

LEMMA SetFeaturesStep ==
  ASSUME BaseInv, FeatureInv, OnePlace, SetFeatures, changes' = 0, reports' = 0, ~dropped'
  PROVE  FeatureInv'
<1> DEFINE b == BoardOrder[board]
<1>1. /\ UNCHANGED <<vars, value, uplink, reports, refused, dropped>>
      /\ pc = "done" /\ step = "set"
  BY DEF SetFeatures
<1>2. changes = 0 /\ reports = 0 /\ ~dropped /\ StartupTypeOK /\ AllNoted /\ Sound
  BY <1>1 DEF vars, BaseInv
<1>3. Quiet /\ \A k \in 1..(board - 1) : BoardOrder[k] \in OnBus => Has(BoardOrder[k])
  BY <1>1, <1>2 DEF FeatureInv
<1>4. board \in 1..Len(BoardOrder) /\ Len(BoardOrder) \in Nat /\ b \in Configured
  <2>1. board \in 1..Len(BoardOrder) /\ Len(BoardOrder) \in Nat
    BY <1>1, <1>2, BoardOrderOK DEF StartupTypeOK
  <2> QED
    BY <2>1, BoardIs
<1>5. OnBus' = OnBus
  BY <1>1, SameOnBus DEF vars, nodes
<1>6. \A k : Has(BoardOrder[k])' <=> Has(BoardOrder[k])
  BY <1>1 DEF Has
<1>7. boards[b] = NoAddr => b \notin OnBus
  BY <1>2, <1>4, NotedIsAlone
<1>8. CASE (boards[b] = NoAddr \/ Features[b] = << >>) /\ NextBoard /\ UNCHANGED <<awaited, feature_requests>>
  <2>1. b \in OnBus => Has(b)
    <3>1. Features[b] = << >> => Range(Features[b]) = {}
      BY DEF Range
    <3> QED
      BY <1>7, <1>8, <3>1 DEF Has
  <2>2. board' = board + 1 /\ step' # "await"
    BY <1>8 DEF NextBoard
  <2>3. \A k \in 1..(board' - 1) : k \in 1..(board - 1) \/ k = board
    BY <1>4, <2>2
  <2>4. Quiet'
    BY <1>1, <1>3, <1>8 DEF Quiet, vars, host
  <2> QED
    BY <1>3, <1>5, <1>6, <2>1, <2>2, <2>3, <2>4 DEF FeatureInv
<1>9. CASE /\ boards[b] # NoAddr /\ Features[b] # << >>
           /\ SendFeatures(b) /\ AwaitAll(b) /\ step' = "await" /\ UNCHANGED board
  <2> DEFINE sent == [k \in DOMAIN Features[b] |-> [number |-> Features[b][k], of |-> b]]
             len == Len(Features[b])
  <2>1. NodesAt(boards[b]) = {b}
    BY <1>2, <1>4, <1>9, NotedIsAlone
  <2>2. Features[b] \in Seq(Numbers) /\ b \in Uid
    BY <1>4, FeaturesOK
  <2>3. len \in Nat /\ len > 0 /\ DOMAIN Features[b] = 1..len
    BY <1>9, <2>2
  <2>4. \A k \in 1..len : Features[b][k] \in Numbers
    BY <2>2
  <2>5. sent \in Seq(FeatureSet) /\ Len(sent) = len
    <3>1. sent \in [1..len -> FeatureSet]
      BY <1>4, <2>3, <2>4 DEF FeatureSet
    <3> QED
      BY <2>3, <3>1
  <2>6. \A k \in 1..len : sent[k] = [number |-> Features[b][k], of |-> b]
    BY <2>3
  <2>7. feature_requests' = [u \in Uid |-> IF u \in {b} THEN feature_requests[u] \o sent ELSE feature_requests[u]]
    BY <1>9, <2>1 DEF SendFeatures
  <2> HIDE DEF sent, len
  <2>8. /\ feature_requests'[b] = sent
        /\ \A u \in Uid \ {b} : feature_requests'[u] = << >>
    <3>1. << >> \o sent = sent
      BY <2>5
    <3>2. \A u \in Uid : feature_requests[u] = << >>
      BY <1>3 DEF Quiet
    <3> QED
      BY <2>2, <2>7, <3>1, <3>2
  <2>9. awaited' = len
    BY <1>9 DEF AwaitAll, len
  <2>10. Len(uplink') = 0 /\ Len(uplink_intern_queue') = 0 /\ refused' = {}
    BY <1>1, <1>3 DEF Quiet, vars
  <2>11. OnTheWay(b)' = len + 0 + 0
    BY <1>4, <1>9, <2>5, <2>8, <2>10 DEF OnTheWay
  <2>12. Served(b)' = 0
    <3>1. Len(Features[b]) - Len(sent) = 0
      BY <2>3, <2>5 DEF len
    <3> QED
      BY <1>9, <2>8, <3>1 DEF Served
  <2>13. \A k \in 1..len : feature_requests'[b][k] = [number |-> Features[b][0 + k], of |-> b]
    <3>1. \A k \in 1..len : 0 + k = k
      BY <2>3
    <3> QED
      BY <2>6, <2>8, <3>1
  <2>14. b' = b
    BY <1>9
  <2>15. Len(feature_requests'[b]) = len /\ len <= Len(Features[b]) /\ len = Len(Features[b])
    BY <2>3, <2>5, <2>8 DEF len
  <2>16. awaited' > 0 /\ awaited' >= OnTheWay(b)'
    BY <2>3, <2>9, <2>11
  <2> HIDE DEF b
  <2>17. Awaiting(b)'
    <3>1. 1..Served(b)' = {}
      BY <2>12
    <3> QED
      BY <2>8, <2>10, <2>12, <2>13, <2>14, <2>15, <2>16, <3>1 DEF Awaiting
  <2> QED
    BY <1>3, <1>5, <1>6, <1>9, <2>14, <2>17 DEF FeatureInv, b
<1> QED
  BY <1>8, <1>9 DEF SetFeatures

(* What is known while the features of b are awaited.                       *)
LEMMA AwaitingFacts ==
  ASSUME BaseInv, FeatureInv, changes = 0, reports = 0, ~dropped, step = "await"
  PROVE  LET b == BoardOrder[board] IN
         /\ Awaiting(b) /\ b \in Configured /\ b \in Uid /\ Features[b] \in Seq(Numbers)
         /\ board \in 1..Len(BoardOrder) /\ Len(BoardOrder) \in Nat
         /\ feature_requests[b] \in Seq(FeatureSet) /\ Len(feature_requests[b]) \in Nat
         /\ uplink \in Seq(Plain \cup NodeReport) /\ Len(uplink) \in Nat
         /\ uplink_intern_queue \in Seq(Message) /\ Len(uplink_intern_queue) \in Nat
         /\ Len(Features[b]) \in Nat /\ awaited \in Int
<1>1. StartupTypeOK /\ AllocationTypeOK
  BY DEF BaseInv, StartupTypeOK
<1>2. board \in 1..Len(BoardOrder) /\ Len(BoardOrder) \in Nat
  BY <1>1, BoardOrderOK DEF StartupTypeOK
<1>3. BoardOrder[board] \in Configured
  BY <1>2, BoardIs
<1>4. BoardOrder[board] \in Uid /\ Features[BoardOrder[board]] \in Seq(Numbers)
  BY <1>3, FeaturesOK
<1>5. feature_requests[BoardOrder[board]] \in Seq(FeatureSet)
  BY <1>1, <1>4 DEF StartupTypeOK
<1>6. uplink \in Seq(Plain \cup NodeReport) /\ uplink_intern_queue \in Seq(Message) /\ awaited \in Int
  BY <1>1 DEF StartupTypeOK, AllocationTypeOK
<1> QED
  BY <1>2, <1>3, <1>4, <1>5, <1>6 DEF FeatureInv

LEMMA AwaitFeatureStep ==
  ASSUME BaseInv, FeatureInv, AwaitFeature, changes' = 0, reports' = 0, ~dropped'
  PROVE  FeatureInv'
<1> DEFINE b == BoardOrder[board]
           len == Len(uplink_intern_queue)
<1>1. /\ UNCHANGED <<host, nodes, requests, changes, bus, refused, dropped>>
      /\ step = "await" /\ uplink_intern_queue # << >>
      /\ uplink_intern_queue' = Tail(uplink_intern_queue)
  BY DEF AwaitFeature
<1>2. changes = 0 /\ reports = 0 /\ ~dropped
  BY <1>1 DEF bus
<1>3. /\ Awaiting(b) /\ b \in Configured /\ b \in Uid /\ Features[b] \in Seq(Numbers)
      /\ board \in 1..Len(BoardOrder) /\ Len(BoardOrder) \in Nat
      /\ feature_requests[b] \in Seq(FeatureSet) /\ Len(feature_requests[b]) \in Nat
      /\ uplink \in Seq(Plain \cup NodeReport) /\ Len(uplink) \in Nat
      /\ uplink_intern_queue \in Seq(Message) /\ len \in Nat
      /\ Len(Features[b]) \in Nat /\ awaited \in Int
  BY <1>1, <1>2, AwaitingFacts
<1>4. len > 0 /\ Len(uplink_intern_queue') = len - 1 /\ uplink_intern_queue' \in Seq(Message)
  BY <1>1, <1>3
<1>5. OnBus' = OnBus /\ \A k : Has(BoardOrder[k])' <=> Has(BoardOrder[k])
  BY <1>1, SameOnBus DEF nodes, Has, bus
<1>6. \A k \in 1..(board - 1) : BoardOrder[k] \in OnBus => Has(BoardOrder[k])
  BY <1>2 DEF FeatureInv
<1>7. UNCHANGED <<feature_requests, value, uplink, refused>>
  BY <1>1 DEF bus
<1> DEFINE way == OnTheWay(b)
<1>8. way \in Nat /\ way > 0
      /\ Len(feature_requests[b]) + Len(uplink) + Len(uplink_intern_queue') = way - 1
  BY <1>3, <1>4 DEF OnTheWay
<1>9. awaited >= way /\ (refused # {} => awaited > way) /\ awaited > 0
  BY <1>3 DEF Awaiting
<1>10. ASSUME step' = "await", board' = board, awaited' \in {awaited, awaited - 1}, awaited' > 0
       PROVE  FeatureInv'
  <2>1. b' = b
    BY <1>10
  <2>2. OnTheWay(b)' = way - 1 /\ Served(b)' = Served(b)
    BY <1>7, <1>8, <2>1 DEF OnTheWay, Served
  <2>3. awaited' >= way - 1 /\ (refused' # {} => awaited' > way - 1)
    BY <1>3, <1>7, <1>8, <1>9, <1>10
  <2> HIDE DEF way, b
  <2>4. Awaiting(b)'
    BY <1>3, <1>7, <1>10, <2>1, <2>2, <2>3 DEF Awaiting, NoRefusal
  <2> QED
    BY <1>5, <1>6, <1>10, <2>1, <2>4 DEF FeatureInv, b
<1>11. CASE UNCHANGED caller
  BY <1>1, <1>9, <1>10, <1>11 DEF caller
<1>12. CASE awaited' = awaited - 1 /\ awaited # 1 /\ UNCHANGED <<step, board, reading>>
  <2>1. awaited' > 0
    BY <1>3, <1>9, <1>12
  <2> QED
    BY <1>1, <1>10, <1>12, <2>1
<1>13. CASE awaited' = awaited - 1 /\ awaited = 1 /\ NextBoard
  <2>1. board' = board + 1 /\ step' # "await"
    BY <1>13 DEF NextBoard
  <2>2. way = 1 /\ refused = {}
    BY <1>8, <1>9, <1>13
  <2>3. Len(feature_requests[b]) = 0 /\ Len(uplink) = 0 /\ len = 1
    BY <1>3, <1>4, <2>2 DEF OnTheWay
  <2>4. feature_requests[b] = << >> /\ uplink = << >> /\ uplink_intern_queue' = << >>
    BY <1>3, <1>4, <2>3
  <2>5. Quiet'
    BY <1>3, <1>7, <2>2, <2>4 DEF Quiet, Awaiting
  <2>6. Has(b)
    <3>1. NoRefusal
      BY <2>2, <2>4 DEF NoRefusal
    <3>2. Served(b) = Len(Features[b])
      BY <1>3, <2>3 DEF Served
    <3>3. \A k \in 1..Len(Features[b]) : value[b][Features[b][k]] = b
      BY <1>3, <3>1, <3>2 DEF Awaiting
    <3>4. DOMAIN Features[b] = 1..Len(Features[b])
      BY <1>3
    <3> QED
      BY <3>3, <3>4 DEF Has, Range
  <2>7. \A k \in 1..(board' - 1) : k \in 1..(board - 1) \/ k = board
    BY <1>3, <2>1
  <2> QED
    BY <1>5, <1>6, <2>1, <2>5, <2>6, <2>7 DEF FeatureInv
<1> QED
  BY <1>11, <1>12, <1>13 DEF AwaitFeature

LEMMA ServeFeatureStep ==
  ASSUME BaseInv, FeatureInv, NEW u \in Uid, ServeFeature(u), changes' = 0, reports' = 0, ~dropped'
  PROVE  FeatureInv'
<1> DEFINE b == BoardOrder[board]
           open == Len(feature_requests[b])
           all == Len(Features[b])
           r == Head(feature_requests[u])
<1>1. /\ UNCHANGED <<vars, caller, refused, dropped, reports>>
      /\ feature_requests[u] # << >>
      /\ feature_requests' = [feature_requests EXCEPT ![u] = Tail(@)]
  BY DEF ServeFeature
<1>2. changes = 0 /\ reports = 0 /\ ~dropped /\ UNCHANGED <<step, board, awaited>>
      /\ uplink_intern_queue' = uplink_intern_queue
  BY <1>1 DEF vars, caller
<1>3. step = "await"
  BY <1>1, <1>2 DEF FeatureInv, Quiet
<1>4. /\ Awaiting(b) /\ b \in Configured /\ b \in Uid /\ Features[b] \in Seq(Numbers)
      /\ feature_requests[b] \in Seq(FeatureSet) /\ open \in Nat
      /\ uplink \in Seq(Plain \cup NodeReport) /\ Len(uplink) \in Nat
      /\ Len(uplink_intern_queue) \in Nat /\ all \in Nat /\ awaited \in Int
  BY <1>2, <1>3, AwaitingFacts
<1>5. u = b
  BY <1>1, <1>4 DEF Awaiting
<1>6. /\ open > 0 /\ feature_requests'[b] = Tail(feature_requests[b])
      /\ Len(Tail(feature_requests[b])) = open - 1 /\ r = feature_requests[b][1]
      /\ \A k \in 1..(open - 1) : Tail(feature_requests[b])[k] = feature_requests[b][k + 1]
  <2>1. feature_requests'[b] = Tail(feature_requests[b])
    BY <1>1, <1>4, <1>5 DEF BaseInv, StartupTypeOK
  <2> QED
    BY <1>1, <1>4, <1>5, <2>1
<1>7. Served(b) \in Nat /\ Served(b) + open = all
  BY <1>4 DEF Served, Awaiting
<1> DEFINE next == Served(b) + 1
<1>8. r = [number |-> Features[b][next], of |-> b]
  <2>1. 1 \in 1..open
    BY <1>4, <1>6
  <2> QED
    BY <1>4, <1>6, <2>1 DEF Awaiting
<1>9. next \in 1..all /\ Features[b][next] \in Numbers
  <2>1. next \in 1..all
    BY <1>4, <1>6, <1>7
  <2> HIDE DEF next
  <2> QED
    BY <1>4, <2>1
<1>10. b' = b
  BY <1>2
<1>11. Served(b)' = Served(b) + 1
  <2>1. Len(feature_requests'[b]) = open - 1
    BY <1>6
  <2>2. all - (open - 1) = (all - open) + 1
    BY <1>4
  <2>3. Served(b)' = Len(Features[b]) - Len(feature_requests'[b])
    BY <1>10 DEF Served
  <2>4. Served(b) = all - open
    BY DEF Served
  <2> QED
    BY <2>1, <2>2, <2>3, <2>4
<1>12. PICK m \in Plain : uplink' = Append(uplink, m) /\
          \/ m.type = "MSG_FEATURE" /\ value' = [value EXCEPT ![b][r.number] = r.of]
          \/ m.type = "MSG_FEATURE_NA" /\ value' = value
  <2>1. [type |-> "MSG_FEATURE"] \in Plain /\ [type |-> "MSG_FEATURE_NA", number |-> r.number] \in Plain
    BY <1>8, <1>9 DEF Plain
  <2> HIDE DEF r
  <2> QED
    BY <1>5, <2>1 DEF ServeFeature, r
<1>13. /\ DOMAIN uplink = 1..Len(uplink) /\ DOMAIN uplink' = 1..(Len(uplink) + 1)
       /\ Len(uplink') = Len(uplink) + 1
       /\ \A k \in 1..Len(uplink) : uplink'[k] = uplink[k]
       /\ uplink'[Len(uplink) + 1] = m
  BY <1>4, <1>12, AppendPlain
<1>14. OnTheWay(b)' = OnTheWay(b)
  <2>1. Len(feature_requests'[b]) = open - 1
    BY <1>6
  <2>2. OnTheWay(b)' = Len(feature_requests'[b]) + Len(uplink') + Len(uplink_intern_queue')
    BY <1>10 DEF OnTheWay
  <2>3. OnTheWay(b) = open + Len(uplink) + Len(uplink_intern_queue)
    BY DEF OnTheWay
  <2> HIDE DEF open
  <2> QED
    BY <1>2, <1>4, <1>13, <2>1, <2>2, <2>3
<1>15. NoRefusal' => NoRefusal /\ value' = [value EXCEPT ![b][r.number] = r.of]
  <2> SUFFICES ASSUME NoRefusal' PROVE NoRefusal /\ value' = [value EXCEPT ![b][r.number] = r.of]
    OBVIOUS
  <2>1. \A k \in 1..(Len(uplink) + 1) : uplink'[k].type # "MSG_FEATURE_NA"
    BY <1>13 DEF NoRefusal
  <2>2. m.type # "MSG_FEATURE_NA"
    BY <1>4, <1>13, <2>1
  <2>3. \A k \in 1..Len(uplink) : uplink[k].type # "MSG_FEATURE_NA"
    BY <1>4, <1>13, <2>1
  <2> QED
    BY <1>1, <1>12, <1>13, <2>2, <2>3 DEF NoRefusal
(* Each feature set stays set: what comes later is the board's own, too.    *)
<1>16. \A c \in Configured, f \in Numbers :
         /\ value[c][f] = c => value'[c][f] = c
         /\ value' = [value EXCEPT ![b][r.number] = r.of] => value'[b][r.number] = b
  <2>1. /\ value \in [Uid -> [Numbers -> Configured \cup {Unset}]] /\ Configured \subseteq Uid
        /\ r.number \in Numbers /\ r.of = b
    BY <1>8, <1>9, AllocationAssumption DEF BaseInv, StartupTypeOK
  <2> HIDE DEF r, b
  <2>2. CASE value' = value
    BY <1>4, <2>1, <2>2
  <2>3. CASE value' = [value EXCEPT ![b][r.number] = r.of]
    BY <1>4, <2>1, <2>3
  <2> QED
    BY <1>12, <2>2, <2>3
<1>17. NoRefusal' => \A k \in 1..Served(b)' : value'[b][Features[b][k]] = b
  <2> SUFFICES ASSUME NoRefusal', NEW k \in 1..(Served(b) + 1) PROVE value'[b][Features[b][k]] = b
    BY <1>11
  <2>1. CASE k = next
    <3>1. value' = [value EXCEPT ![b][r.number] = r.of]
      BY <1>15
    <3>2. value'[b][r.number] = b
      BY <1>4, <1>9, <1>16, <3>1
    <3>3. r.number = Features[b][next]
      BY <1>8
    <3> QED
      BY <2>1, <3>2, <3>3
  <2>2. CASE k \in 1..Served(b)
    <3>1. k \in 1..all
      BY <1>4, <1>7, <2>2
    <3>2. Features[b][k] \in Numbers
      BY <1>4, <3>1
    <3>3. value[b][Features[b][k]] = b
      BY <1>4, <1>15, <2>2 DEF Awaiting
    <3> QED
      BY <1>4, <1>16, <3>2, <3>3
  <2> QED
    BY <1>7, <2>1, <2>2
<1>18. \A k \in 1..(open - 1) : feature_requests'[b][k] = [number |-> Features[b][Served(b)' + k], of |-> b]
  <2> SUFFICES ASSUME NEW k \in 1..(open - 1)
               PROVE  feature_requests'[b][k] = [number |-> Features[b][Served(b)' + k], of |-> b]
    OBVIOUS
  <2> HIDE DEF open
  <2>0. \A x, y \in Nat : x + (y + 1) = (x + 1) + y
    OBVIOUS
  <2>1. k + 1 \in 1..open /\ Served(b) + (k + 1) = Served(b)' + k
    <3>1. k + 1 \in 1..open /\ k \in Nat
      BY <1>4
    <3> QED
      BY <1>7, <1>11, <2>0, <3>1, Zenon
  <2>2. feature_requests[b][k + 1] = [number |-> Features[b][Served(b) + (k + 1)], of |-> b]
    BY <1>4, <2>1 DEF Awaiting, open
  <2> QED
    BY <1>6, <2>1, <2>2 DEF open
<1>19. \A x \in Uid \ {b} : feature_requests'[x] = << >>
  BY <1>1, <1>4, <1>5 DEF Awaiting, BaseInv, StartupTypeOK
<1>20. Len(feature_requests'[b]) = open - 1 /\ open - 1 <= all
  BY <1>4, <1>6, <1>7
<1>21. awaited' > 0 /\ awaited' >= OnTheWay(b)' /\ (refused' # {} => awaited' > OnTheWay(b)')
  BY <1>1, <1>2, <1>4, <1>14 DEF Awaiting
<1> HIDE DEF b, open, all, next, r
<1>22. Awaiting(b)'
  BY <1>10, <1>17, <1>18, <1>19, <1>20, <1>21 DEF Awaiting, all
<1>23. \A k \in 1..(board - 1) : BoardOrder[k] \in OnBus => Has(BoardOrder[k])'
  <2> SUFFICES ASSUME NEW k \in 1..(board - 1), BoardOrder[k] \in OnBus PROVE Has(BoardOrder[k])'
    OBVIOUS
  <2>1. k \in 1..Len(BoardOrder)
    BY BoardOrderOK DEF BaseInv, StartupTypeOK
  <2>2. BoardOrder[k] \in Configured
    BY <2>1, BoardIs
  <2>3. Has(BoardOrder[k])
    BY <1>2, <1>3 DEF FeatureInv
  <2>4. Range(Features[BoardOrder[k]]) \subseteq Numbers
    BY <2>2, FeaturesOK DEF Range
  <2> QED
    BY <1>16, <2>2, <2>3, <2>4 DEF Has
<1>24. OnBus' = OnBus
  BY <1>1, SameOnBus DEF vars, nodes
<1> QED
  BY <1>2, <1>3, <1>10, <1>22, <1>23, <1>24 DEF FeatureInv, b

LEMMA HandleFeatureStep ==
  ASSUME BaseInv, FeatureInv, HandleFeature \/ HandleFeatureNa,
         changes' = 0, reports' = 0, ~dropped'
  PROVE  FeatureInv'
<1> DEFINE b == BoardOrder[board]
           len == Len(uplink_intern_queue)
<1>1. /\ UNCHANGED <<host, nodes, requests, changes, caller, feature_requests, value, reports>>
      /\ uplink # << >>
  BY DEF HandleFeature, HandleFeatureNa, Incoming, vars
<1>2. changes = 0 /\ reports = 0 /\ UNCHANGED <<step, board, awaited>>
  BY <1>1 DEF caller
<1>3. ~dropped /\ (HandleFeature => len # QUEUE_SIZE)
  <2>1. CASE HandleFeature
    <3>1. dropped' = (dropped \/ len = QUEUE_SIZE)
      BY <2>1 DEF HandleFeature, NoteDrop
    <3> QED
      BY <3>1, Zenon
  <2>2. CASE HandleFeatureNa
    <3>1. dropped' = dropped
      BY <2>2 DEF HandleFeatureNa
    <3>2. ~HandleFeature
      BY <2>2 DEF HandleFeature, HandleFeatureNa, Incoming
    <3> QED
      BY <3>1, <3>2
  <2> QED
    BY <2>1, <2>2
<1>4. step = "await"
  BY <1>1, <1>2, <1>3 DEF FeatureInv, Quiet
<1>5. /\ Awaiting(b) /\ Len(feature_requests[b]) \in Nat
      /\ uplink \in Seq(Plain \cup NodeReport) /\ Len(uplink) \in Nat
      /\ uplink_intern_queue \in Seq(Message) /\ len \in Nat /\ awaited \in Int
  BY <1>2, <1>3, <1>4, AwaitingFacts
<1>6. b' = b
  BY <1>2
<1>7. /\ Len(uplink) > 0 /\ Len(uplink') = Len(uplink) - 1
      /\ \A k \in 1..Len(uplink') : uplink'[k] = uplink[k + 1]
      /\ uplink' \in Seq(Plain \cup NodeReport)
      /\ uplink[1].type = IF HandleFeature THEN "MSG_FEATURE" ELSE "MSG_FEATURE_NA"
  BY HeadIs DEF HandleFeature, HandleFeatureNa, BaseInv
<1>8. Served(b)' = Served(b)
  BY <1>1, <1>6 DEF Served
<1> DEFINE way == OnTheWay(b)
<1>9. way \in Nat /\ awaited >= way /\ (refused # {} => awaited > way) /\ awaited > 0
  BY <1>5 DEF OnTheWay, Awaiting
<1>10. way = Len(feature_requests[b]) + Len(uplink) + len
  BY DEF OnTheWay
<1>11. OnTheWay(b)' = Len(feature_requests[b]) + Len(uplink') + Len(uplink_intern_queue')
  BY <1>1, <1>6 DEF OnTheWay
<1> HIDE DEF way, b
<1>12. awaited' >= OnTheWay(b)' /\ (refused' # {} => awaited' > OnTheWay(b)')
  <2>1. CASE HandleFeature
    <3>1. Len(uplink_intern_queue') = len + 1
      <4>1. uplink_intern_queue' = Append(uplink_intern_queue, Head(uplink))
        BY <1>3, <2>1 DEF HandleFeature, Enqueue
      <4>2. Head(uplink) \in Message
        <5>1. Head(uplink) = uplink[1] /\ uplink[1] \in Plain \cup NodeReport
          BY <1>5, <1>7
        <5>2. uplink[1].type = "MSG_FEATURE"
          BY <1>7, <2>1
        <5> QED
          BY <5>1, <5>2 DEF Plain, NodeReport, Message
      <4> QED
        BY <1>5, <4>1, <4>2, AppendProperties
    <3>2. refused' = refused
      BY <2>1 DEF HandleFeature
    <3>3. OnTheWay(b)' = way
      <4>1. OnTheWay(b)' = Len(feature_requests[b]) + (Len(uplink) - 1) + (len + 1)
        BY <1>7, <1>11, <3>1
      <4>2. \A x, y, z \in Nat : x + (y - 1) + (z + 1) = x + y + z
        OBVIOUS
      <4> HIDE DEF len
      <4> QED
        BY <1>5, <1>10, <4>1, <4>2, Zenon
    <3> QED
      BY <1>2, <1>9, <3>2, <3>3
  <2>2. CASE HandleFeatureNa
    <3>1. uplink_intern_queue' = uplink_intern_queue
      BY <2>2 DEF HandleFeatureNa, vars
    <3>2. OnTheWay(b)' = way - 1
      BY <1>5, <1>7, <1>10, <1>11, <3>1
    <3> QED
      BY <1>2, <1>5, <1>9, <3>2
  <2> QED
    BY <2>1, <2>2
<1>13. NoRefusal' => NoRefusal
  <2> SUFFICES ASSUME NoRefusal' PROVE NoRefusal
    OBVIOUS
  <2>1. HandleFeature /\ refused = {}
    BY DEF NoRefusal, HandleFeature, HandleFeatureNa
  <2>2. \A k \in 1..Len(uplink') : uplink'[k].type # "MSG_FEATURE_NA"
    BY <1>7 DEF NoRefusal
  <2>3. ASSUME NEW k \in DOMAIN uplink PROVE uplink[k].type # "MSG_FEATURE_NA"
    <3>1. k \in 1..Len(uplink)
      BY <1>5
    <3>2. CASE k = 1
      BY <1>7, <2>1, <3>2
    <3>3. CASE k # 1
      <4>1. k - 1 \in 1..Len(uplink') /\ (k - 1) + 1 = k
        BY <1>5, <1>7, <3>1, <3>3
      <4> QED
        BY <1>7, <2>2, <4>1
    <3> QED
      BY <3>2, <3>3
  <2> QED
    BY <2>1, <2>3 DEF NoRefusal
<1>14. Awaiting(b)'
  BY <1>1, <1>2, <1>5, <1>6, <1>8, <1>9, <1>12, <1>13 DEF Awaiting
<1>15. OnBus' = OnBus /\ \A k : Has(BoardOrder[k])' <=> Has(BoardOrder[k])
  BY <1>1, SameOnBus DEF nodes, Has
<1> QED
  BY <1>2, <1>3, <1>4, <1>6, <1>14, <1>15 DEF FeatureInv, b

LEMMA StutterFeatures ==
  ASSUME BaseInv, FeatureInv, UNCHANGED allVars
  PROVE  BaseInv' /\ FeatureInv'
<1>1. /\ UNCHANGED vars /\ UNCHANGED <<step, board, awaited, feature_requests, value, uplink, refused, dropped, reports>>
      /\ UNCHANGED <<pc, boards, nodetab, uplink_intern_queue, changes>>
  BY DEF allVars, featureVars, caller, bus, vars, host, nodes
<1>2. StartupTypeOK' /\ UnchangedInv'
  BY StartupTypeNext, UnchangedStutter, <1>1 DEF BaseInv
<1>3. Entries' = Entries /\ OnBus' = OnBus
  BY <1>1, SameTables, SameOnBus
<1>4. BaseInv'
  BY <1>1, <1>2, <1>3 DEF BaseInv, Early, IsPlain, AllNoted, Sound
<1>5. FeatureInv'
  BY <1>1, <1>3 DEF FeatureInv, Awaiting, Quiet, Has, OnTheWay, Served, NoRefusal
<1> QED
  BY <1>4, <1>5

LEMMA FeatureInvNext ==
  ASSUME TwoLevels, OnePlace, BaseInv, FeatureInv, [StartupNext]_allVars
  PROVE  BaseInv' /\ FeatureInv'
<1>1. CASE Caller \/ Changes \/ \E n \in Interface : Answer(n)
  BY <1>1, TableStepBase, TableStepFeatures
<1>2. CASE UNCHANGED allVars
  BY <1>2, StutterFeatures
<1>3. CASE \/ SetFeatures \/ AwaitFeature
           \/ \E u \in Uid : ServeFeature(u)
           \/ \E n \in Interface : Report(n)
           \/ HandleFeature \/ HandleFeatureNa \/ HandleLost \/ HandleNew
  <2>1. /\ BaseInv' /\ changes' = changes
        /\ reports' = 0 => ~HandleLost /\ ~HandleNew /\ ~\E n \in Interface : Report(n)
    BY <1>3, LaterStepBase
  <2>2. CASE changes' = 0 /\ reports' = 0 /\ ~dropped'
    BY <1>3, <2>1, <2>2, SetFeaturesStep, AwaitFeatureStep, ServeFeatureStep, HandleFeatureStep
  <2>3. CASE ~(changes' = 0 /\ reports' = 0 /\ ~dropped')
    <3>1. FeatureInv'
      BY <2>3, Zenon DEF FeatureInv
    <3> QED
      BY <2>1, <3>1
  <2> QED
    BY <2>1, <2>2, <2>3
<1> QED
  BY <1>1, <1>2, <1>3, StartupSteps

(* FeaturesSet, for a start during which no table changes: when all boards  *)
(* have had their turn, no node was reported and no message dropped, every  *)
(* configured board of the bus has all its features, whatever the order in  *)
(* which nodes answer and however many features there are; a board that is  *)
(* not on the bus takes none of them.                                       *)
THEOREM FeaturesReachBoards ==
  ASSUME TwoLevels
  PROVE  StartupSpec /\ []OnePlace => [](changes = 0 => FeaturesSet)
<1>1. StartupInit => BaseInv /\ FeatureInv
  BY BaseInvInit, FeatureInvInit
<1>2. BaseInv /\ FeatureInv /\ OnePlace /\ [StartupNext]_allVars => BaseInv' /\ FeatureInv'
  BY FeatureInvNext
<1>3. BaseInv /\ FeatureInv => (changes = 0 => FeaturesSet)
  <2> SUFFICES ASSUME BaseInv, FeatureInv, changes = 0, step = "ready", reports = 0, ~dropped,
                      NEW b \in Configured \cap OnBus, NEW f \in Range(Features[b])
               PROVE  value[b][f] = b
    BY DEF FeaturesSet
  <2>1. board = Len(BoardOrder) + 1 /\ Len(BoardOrder) \in Nat
    BY BoardOrderOK DEF BaseInv, StartupTypeOK
  <2>2. PICK k \in DOMAIN BoardOrder : b = BoardOrder[k]
    BY StartupAssumption DEF Range
  <2>3. k \in 1..(board - 1)
    <3>1. DOMAIN BoardOrder = 1..Len(BoardOrder)
      BY StartupAssumption
    <3> QED
      BY <2>1, <3>1
  <2>4. Has(b)
    BY <2>2, <2>3 DEF FeatureInv
  <2> QED
    BY <2>4 DEF Has
<1> QED
  BY <1>1, <1>2, <1>3, PTL DEF StartupSpec

----------------------------------------------------------------------------
(* What boards will be once the receiver has handled the messages on the    *)
(* bus follows from them one by one.  LostIsForgotten needs no more than    *)
(* that this is right for the tables of the nodes as they are now.          *)

Addresses == [Configured -> Seq(Nat) \cup {NoAddr}]

AfterLost(B, u) ==
  [b \in Configured |-> IF b = u \/ (u \in HasSubnodes /\ IsBelow(B[u], B[b])) THEN NoAddr ELSE B[b]]

\* Addresses B after message m (HandleLost, HandleNew).
After(B, m) ==
  IF m.type = "MSG_NODE_LOST" /\ m.entry.uid \in Configured THEN AfterLost(B, m.entry.uid)
  ELSE IF m.type = "MSG_NODE_NEW" /\ m.entry.uid \in Configured
       THEN [B EXCEPT ![m.entry.uid] = Below(m.node, m.entry.local)] ELSE B

\* What B notes is on the bus, and all hubs are noted in B.
Right(B) ==
  /\ \A b \in Configured : B[b] # NoAddr => <<b, B[b]>> \in Entries
  /\ \A k \in 2..Len(nodetab[<< >>]) : nodetab[<< >>][k].uid \in HasSubnodes =>
       /\ nodetab[<< >>][k].uid \in Configured
       /\ B[nodetab[<< >>][k].uid] = <<nodetab[<< >>][k].local>>

Leads(B) ==
  /\ B \in [0..Len(uplink) -> Addresses] /\ B[0] = boards
  /\ \A k \in 1..Len(uplink) : B[k] = After(B[k - 1], uplink[k])
  /\ Right(B[Len(uplink)])

ReportsInv == changes = 0 /\ pc = "done" => \E B : Leads(B)

LEMMA AfterType ==
  ASSUME NEW B \in Addresses, NEW m \in Plain \cup NodeReport
  PROVE  After(B, m) \in Addresses
<1>1. CASE m.type = "MSG_NODE_LOST"
  BY <1>1 DEF After, AfterLost, Addresses
<1>2. CASE m.type = "MSG_NODE_NEW"
  <2>1. m \in NodeReport
    BY <1>2 DEF Plain
  <2>2. m.node \in Seq(Nat) /\ m.entry.local \in Nat
    BY <2>1, AllocationAssumption DEF NodeReport, RowType
  <2>3. Below(m.node, m.entry.local) \in Seq(Nat)
    BY <2>2, BelowType
  <2> QED
    BY <1>2, <2>3 DEF After, Addresses
<1>3. CASE m.type # "MSG_NODE_LOST" /\ m.type # "MSG_NODE_NEW"
  BY <1>3 DEF After
<1> QED
  BY <1>1, <1>2, <1>3

(* The receiver handles the first message.                                  *)
LEMMA LeadsHandled ==
  ASSUME StartupTypeOK, NEW type, Incoming(type), boards' = After(boards, uplink[1]),
         nodetab' = nodetab, \E B : Leads(B)
  PROVE  (\E B : Leads(B))'
<1>1. PICK B : Leads(B)
  OBVIOUS
<1> DEFINE len == Len(uplink)
<1>2. /\ len \in Nat \ {0} /\ Len(uplink') = len - 1
      /\ \A k \in 1..Len(uplink') : uplink'[k] = uplink[k + 1]
  BY HeadIs
<1>3. PICK C : C = [k \in 0..(len - 1) |-> B[k + 1]]
  OBVIOUS
<1>4. /\ B \in [0..len -> Addresses] /\ B[0] = boards /\ Right(B[len])
      /\ \A k \in 1..len : B[k] = After(B[k - 1], uplink[k])
  BY <1>1 DEF Leads
<1> HIDE DEF len
<1>5. C \in [0..(len - 1) -> Addresses] /\ C[0] = boards' /\ C[len - 1] = B[len]
  <2>1. \A k \in 0..(len - 1) : k + 1 \in 0..len
    BY <1>2
  <2>2. 1 \in 1..len /\ 0 \in 0..(len - 1) /\ len - 1 \in 0..(len - 1) /\ 0 + 1 = 1 /\ 1 - 1 = 0
        /\ len - 1 + 1 = len
    BY <1>2
  <2>3. B[1] = After(B[0], uplink[1])
    BY <1>4, <2>2
  <2> QED
    BY <1>3, <1>4, <2>1, <2>2, <2>3
<1>6. ASSUME NEW k \in 1..(len - 1) PROVE C[k] = After(C[k - 1], uplink'[k])
  <2>1. k \in 0..(len - 1) /\ k - 1 \in 0..(len - 1) /\ k - 1 + 1 = k /\ k + 1 - 1 = k /\ k + 1 \in 1..len
    BY <1>2
  <2>2. C[k] = B[k + 1] /\ C[k - 1] = B[k] /\ uplink'[k] = uplink[k + 1]
    BY <1>2, <1>3, <2>1
  <2> QED
    BY <1>4, <2>1, <2>2
<1>7. PICK D : D = C[len - 1]
  OBVIOUS
<1>8. Right(D)'
  <2>1. Right(D)
    BY <1>4, <1>5, <1>7
  <2> QED
    BY <2>1, SameTables DEF Right
<1>9. C[Len(uplink')] = D
  BY <1>2, <1>7
<1>10. (C[Len(uplink)])' = D
  BY <1>9
<1>11. Right(C[Len(uplink)])'
  BY <1>8, <1>10 DEF Right
<1>12. /\ C \in [0..Len(uplink') -> Addresses] /\ C[0] = boards'
       /\ \A k \in 1..Len(uplink') : C[k] = After(C[k - 1], uplink'[k])
  BY <1>2, <1>5, <1>6
<1>13. Leads(C)'
  BY <1>11, <1>12 DEF Leads
<1> QED
  BY <1>13

(* The bus sends one more message.                                          *)
LEMMA LeadsSent ==
  ASSUME StartupTypeOK, NEW m \in Plain \cup NodeReport, uplink' = Append(uplink, m),
         boards' = boards, \E B : Leads(B),
         \A B \in Addresses : Right(B) => Right(After(B, m))'
  PROVE  (\E B : Leads(B))'
<1>1. PICK B : Leads(B)
  OBVIOUS
<1> DEFINE len == Len(uplink)
<1>2. /\ len \in Nat /\ Len(uplink') = len + 1
      /\ \A k \in 1..len : uplink'[k] = uplink[k]
      /\ uplink'[len + 1] = m
  BY AppendPlain DEF StartupTypeOK
<1>3. PICK C : C = [k \in 0..(len + 1) |-> IF k = len + 1 THEN After(B[len], m) ELSE B[k]]
  OBVIOUS
<1>4. /\ B \in [0..len -> Addresses] /\ B[0] = boards /\ Right(B[len])
      /\ \A k \in 1..len : B[k] = After(B[k - 1], uplink[k])
  BY <1>1 DEF Leads
<1> HIDE DEF len
<1>5. B[len] \in Addresses /\ After(B[len], m) \in Addresses
  <2>1. B[len] \in Addresses
    BY <1>2, <1>4
  <2> QED
    BY <2>1, AfterType
<1>6. C \in [0..(len + 1) -> Addresses] /\ C[0] = boards' /\ C[len + 1] = After(B[len], m)
  <2>1. \A k \in 0..(len + 1) : k # len + 1 => k \in 0..len
    BY <1>2
  <2>2. 0 \in 0..(len + 1) /\ 0 # len + 1 /\ len + 1 \in 0..(len + 1)
    BY <1>2
  <2> QED
    BY <1>3, <1>4, <1>5, <2>1, <2>2
<1>7. ASSUME NEW k \in 1..(len + 1) PROVE C[k] = After(C[k - 1], uplink'[k])
  <2>1. CASE k = len + 1
    <3>1. k - 1 = len /\ len \in 0..(len + 1) /\ len # len + 1
      BY <1>2, <2>1
    <3> QED
      BY <1>2, <1>3, <1>6, <2>1, <3>1
  <2>2. CASE k # len + 1
    <3>1. k \in 1..len /\ k \in 0..(len + 1) /\ k - 1 \in 0..(len + 1) /\ k - 1 # len + 1
      BY <1>2, <2>2
    <3>2. C[k] = B[k] /\ C[k - 1] = B[k - 1] /\ uplink'[k] = uplink[k]
      BY <1>2, <1>3, <2>2, <3>1
    <3> QED
      BY <1>4, <3>1, <3>2
  <2> QED
    BY <2>1, <2>2
<1>8. PICK D : D = B[len]
  OBVIOUS
<1>9. Right(After(D, m))'
  BY <1>4, <1>5, <1>8
<1>10. C[Len(uplink')] = After(D, m)
  BY <1>2, <1>6, <1>8
<1>11. (C[Len(uplink)])' = After(D, m)
  BY <1>10
<1>12. Right(C[Len(uplink)])'
  BY <1>9, <1>11 DEF Right
<1>13. /\ C \in [0..Len(uplink') -> Addresses] /\ C[0] = boards'
       /\ \A k \in 1..Len(uplink') : C[k] = After(C[k - 1], uplink'[k])
  BY <1>2, <1>6, <1>7
<1>14. Leads(C)'
  BY <1>12, <1>13 DEF Leads
<1> QED
  BY <1>14

(* Addresses and what is below them.                                        *)
LEMMA BelowIsLonger ==
  ASSUME NEW s \in Seq(Nat), NEW t \in Seq(Nat), IsStrictPrefix(s, t)
  PROVE  Len(s) < Len(t)
<1>1. Len(s) \in Nat /\ Len(t) \in Nat /\ Len(s) <= Len(t) /\ s # t
  BY DEF IsStrictPrefix, IsPrefix
<1>2. CASE Len(s) = Len(t)
  <2>1. \A k \in 1..Len(s) : t[k] = s[k]
    <3>1. SubSeq(s, 1, Len(s)) = SubSeq(t, 1, Len(s))
      BY DEF IsStrictPrefix, IsPrefix
    <3>2. \A k \in 1..Len(s) : SubSeq(s, 1, Len(s))[k] = s[k] /\ SubSeq(t, 1, Len(s))[k] = t[k]
      BY <1>1
    <3> QED
      BY <3>1, <3>2
  <2> QED
    BY <1>1, <1>2, <2>1, SeqEqual
<1> QED
  BY <1>1, <1>2

LEMMA BehindIsBelow ==
  ASSUME NEW x \in Nat, NEW l \in Nat
  PROVE  IsBelow(<<x>>, <<x, l>>)
<1>1. <<x>> \in Seq(Nat) /\ <<x, l>> \in Seq(Nat) /\ Len(<<x>>) = 1 /\ Len(<<x, l>>) = 2
  OBVIOUS
<1>2. <<x>> # NoAddr /\ <<x, l>> # NoAddr
  BY <1>1, AllocationAssumption
<1>3. SubSeq(<<x>>, 1, 1) = SubSeq(<<x, l>>, 1, 1)
  <2> DEFINE s == SubSeq(<<x>>, 1, 1)
             t == SubSeq(<<x, l>>, 1, 1)
  <2>1. s \in Seq(Nat) /\ t \in Seq(Nat) /\ Len(s) = 1 /\ Len(t) = 1 /\ s[1] = x /\ t[1] = x
    BY <1>1
  <2> HIDE DEF s, t
  <2>2. \A k \in 1..Len(s) : s[k] = t[k]
    BY <2>1
  <2>3. s = t
    BY <2>1, <2>2, SeqEqual
  <2> QED
    BY <2>3 DEF s, t
<1>4. IsPrefix(<<x>>, <<x, l>>)
  BY <1>1, <1>3 DEF IsPrefix
<1>5. <<x>> # <<x, l>>
  BY <1>1
<1> QED
  BY <1>2, <1>4, <1>5 DEF IsBelow, IsStrictPrefix

(* Where a row of a node other than the first one is.                       *)
LEMMA RowBelow ==
  ASSUME TwoLevels, NEW n \in Interface, NEW l \in Nat \ {0}
  PROVE  /\ Below(n, l) \in Seq(Nat) /\ Below(n, l) # << >> /\ Len(Below(n, l)) \in {1, 2}
         /\ n = << >> => Below(n, l) = <<l>>
         /\ n # << >> => Len(Below(n, l)) = 2
<1>1. CASE n = << >>
  <2>1. Below(n, l) = <<l>>
    BY <1>1, BelowRoot
  <2>2. <<l>> \in Seq(Nat) /\ Len(<<l>>) = 1 /\ <<l>> # << >>
    OBVIOUS
  <2> QED
    BY <1>1, <2>1, <2>2
<1>2. CASE n # << >>
  <2>1. Below(n, l) = <<n[1], l>> /\ n[1] \in Nat
    BY <1>2, BehindHub
  <2>2. <<n[1], l>> \in Seq(Nat) /\ Len(<<n[1], l>>) = 2 /\ <<n[1], l>> # << >>
    BY <2>1
  <2> QED
    BY <1>2, <2>1, <2>2
<1> QED
  BY <1>1, <1>2

(* The rows of a table but the first one: they have addresses of their own. *)
LEMMA RowsOf ==
  ASSUME NEW t, TableOK(t)
  PROVE  /\ Len(t) \in Nat \ {0} /\ DOMAIN t = 1..Len(t)
         /\ \A k \in 1..Len(t) : t[k] \in RowType /\ t[k].local \in Nat /\ t[k].uid \in Uid
         /\ \A k \in 2..Len(t) : t[k].local # 0
<1>1. t \in Seq(RowType) /\ t # << >> /\ t[1].local = 0
  BY DEF TableOK
<1>2. Len(t) \in Nat \ {0} /\ DOMAIN t = 1..Len(t)
  BY <1>1
<1>3. \A k \in 1..Len(t) : t[k] \in RowType
  BY <1>1
<1>4. ASSUME NEW k \in 2..Len(t) PROVE t[k].local # 0
  <2>1. k \in 1..Len(t) /\ 1 \in 1..Len(t) /\ k # 1
    BY <1>2
  <2> QED
    BY <1>1, <2>1 DEF TableOK
<1> QED
  BY <1>2, <1>3, <1>4 DEF RowType

LEMMA LastRowLost ==
  ASSUME TwoLevels, OnePlace, HubsConfigured, StartupTypeOK,
         NEW n \in Interface, Reachable(n), NEW e, e = nodetab[n][Len(nodetab[n])],
         Len(nodetab[n]) > 1, DOMAIN nodetab' = Interface,
         Len(nodetab'[n]) = Len(nodetab[n]) - 1, TableOK(nodetab'[n]),
         \A k \in 1..(Len(nodetab[n]) - 1) : nodetab'[n][k] = nodetab[n][k],
         \A m \in Interface \ {n} : nodetab'[m] = nodetab[m],
         NEW B \in Addresses, Right(B), NEW C,
         C = After(B, [type |-> "MSG_NODE_LOST", node |-> n, entry |-> e])
  PROVE  Right(C)'
<1> DEFINE len == Len(nodetab[n])
           u == e.uid
           a == Below(n, e.local)
<1>1. /\ len \in Nat /\ len > 1
      /\ \A m \in Interface : TableOK(nodetab[m]) /\ TableOK(nodetab'[m])
      /\ << >> \in Interface
  <2>1. \A m \in Interface : TableOK(nodetab[m])
    BY DEF StartupTypeOK, AllocationTypeOK
  <2>2. len \in Nat
    BY <2>1, RowsOf
  <2> QED
    BY <2>1, <2>2, AllocationAssumption
<1>2. e \in RowType /\ e.local \in Nat \ {0} /\ u \in Uid
  <2>1. len \in 2..len /\ len \in 1..len
    BY <1>1
  <2> QED
    BY <1>1, <2>1, RowsOf
<1>3. <<u, a>> \in Entries /\ a # << >> /\ a \in Seq(Nat) /\ Len(a) \in {1, 2}
  <2>1. len \in DOMAIN nodetab[n]
    BY <1>1, RowsOf
  <2>2. <<u, a>> \in Entries
    BY <2>1, EntryOf DEF StartupTypeOK
  <2> QED
    BY <1>2, <2>2, RowBelow
<1>4. u \in HasSubnodes => u \in Configured
  BY <1>3 DEF HubsConfigured
<1> HIDE DEF len, u, a
<1>5. \A b \in Configured : C[b] = IF b = u \/ (u \in HasSubnodes /\ IsBelow(B[u], B[b])) THEN NoAddr ELSE B[b]
  <2>1. CASE u \in Configured
    <3>1. C = AfterLost(B, u)
      BY <2>1 DEF After, u
    <3> QED
      BY <3>1 DEF AfterLost
  <2>2. CASE u \notin Configured
    <3>1. C = B
      BY <2>2 DEF After, u
    <3> QED
      BY <1>4, <2>2, <3>1
  <2> QED
    BY <2>1, <2>2
(* A row other than the one that is lost is where it was.                   *)
<1>6. ASSUME NEW m \in Interface, NEW k \in DOMAIN nodetab[m], nodetab[m][k].uid # u
      PROVE  /\ k \in DOMAIN nodetab'[m] /\ nodetab'[m][k] = nodetab[m][k]
  <2>1. CASE m # n
    BY <1>6, <2>1
  <2>2. CASE m = n
    <3>1. k \in 1..len /\ k # len
      BY <1>1, <1>6, <2>2, RowsOf DEF u, len
    <3>2. k \in 1..(len - 1) /\ DOMAIN nodetab'[m] = 1..(len - 1)
      BY <1>1, <2>2, <3>1, RowsOf DEF len
    <3> QED
      BY <2>2, <3>2 DEF len
  <2> QED
    BY <2>1, <2>2
<1>7. ASSUME NEW b \in Configured, C[b] # NoAddr PROVE <<b, C[b]>> \in Entries'
  <2>1. C[b] = B[b] /\ b # u /\ ~(u \in HasSubnodes /\ IsBelow(B[u], B[b])) /\ <<b, B[b]>> \in Entries
    BY <1>5, <1>7 DEF Right
  <2>2. PICK m \in Interface : Reachable(m) /\ \E k \in DOMAIN nodetab[m] :
          <<b, B[b]>> = <<nodetab[m][k].uid, Below(m, nodetab[m][k].local)>>
    BY <2>1, EntryIs
  <2>3. PICK k \in DOMAIN nodetab[m] : b = nodetab[m][k].uid /\ B[b] = Below(m, nodetab[m][k].local)
    BY <2>2
  <2>4. k \in DOMAIN nodetab'[m] /\ nodetab'[m][k] = nodetab[m][k]
    BY <1>6, <2>1, <2>3
  <2>5. Reachable(m)'
    <3>1. CASE m = << >>
      BY <3>1 DEF Reachable
    <3>2. CASE m # << >>
      <4>1. PICK j \in DOMAIN nodetab[<< >>] :
              nodetab[<< >>][j].uid \in HasSubnodes /\ Below(<< >>, nodetab[<< >>][j].local) = m
        BY <2>2, <3>2 DEF Reachable
      <4>2. CASE nodetab[<< >>][j].uid # u
        <5>1. j \in DOMAIN nodetab'[<< >>] /\ nodetab'[<< >>][j] = nodetab[<< >>][j]
          BY <1>1, <1>6, <4>2
        <5> QED
          BY <4>1, <5>1 DEF Reachable
(* Behind the hub that is lost nothing is noted any more.                   *)
      <4>3. CASE nodetab[<< >>][j].uid = u
        <5>1. <<u, m>> \in Entries
          BY <1>1, <4>1, <4>3, RootReachable, EntryOf DEF StartupTypeOK
        <5>2. m = a
          BY <1>3, <5>1 DEF OnePlace
        <5>3. j \in 2..Len(nodetab[<< >>]) /\ nodetab[<< >>][j].local \in Nat \ {0}
              /\ m = <<nodetab[<< >>][j].local>>
          <6>1. j \in 1..Len(nodetab[<< >>]) /\ nodetab[<< >>][j].local \in Nat /\ Len(nodetab[<< >>]) \in Nat
            BY <1>1, RowsOf
          <6>2. nodetab[<< >>][j].local # 0
            BY <3>2, <4>1, <6>1, BelowRoot
          <6>3. j # 1
            BY <1>1, <6>2 DEF TableOK
          <6> QED
            BY <4>1, <6>1, <6>2, <6>3, BelowRoot
        <5>4. B[u] = m /\ u \in HasSubnodes
          BY <4>1, <4>3, <5>3 DEF Right
        <5>5. nodetab[m][k].local \in Nat
          BY <1>1, RowsOf
        <5>6. CASE nodetab[m][k].local = 0
          <6>1. B[b] = m
            BY <2>3, <5>5, <5>6, BelowHub
          <6> QED
            BY <2>1, <5>1, <6>1 DEF OnePlace
        <5>7. CASE nodetab[m][k].local # 0
          <6> DEFINE x == nodetab[<< >>][j].local
                     l == nodetab[m][k].local
          <6>1. m[1] = x
            BY <5>3
          <6>2. Below(m, l) = <<m[1], l>>
            BY <3>2, <5>5, <5>7, BehindHub
          <6>3. B[b] = <<m[1], l>>
            BY <2>3, <6>2
          <6>4. B[u] = <<x>>
            BY <5>3, <5>4
          <6>5. x \in Nat /\ l \in Nat
            BY <5>3, <5>5
          <6> HIDE DEF x, l
          <6>6. IsBelow(B[u], B[b])
            BY <6>1, <6>3, <6>4, <6>5, BehindIsBelow
          <6> QED
            BY <2>1, <5>4, <6>6
        <5> QED
          BY <5>6, <5>7
      <4> QED
        BY <4>2, <4>3
    <3> QED
      BY <3>1, <3>2
  <2> QED
    BY <2>1, <2>3, <2>4, <2>5 DEF Entries
<1>8. ASSUME NEW k \in 2..Len(nodetab'[<< >>]), nodetab'[<< >>][k].uid \in HasSubnodes
      PROVE  /\ nodetab'[<< >>][k].uid \in Configured
             /\ C[nodetab'[<< >>][k].uid] = <<nodetab'[<< >>][k].local>>
  <2> DEFINE r == nodetab[<< >>][k]
  <2>1. /\ k \in 2..Len(nodetab[<< >>]) /\ nodetab'[<< >>][k] = r
        /\ n = << >> => k # len
    <3>1. CASE n = << >>
      <4>1. k \in 1..(len - 1) /\ k \in 2..len /\ k # len
        BY <1>1, <3>1 DEF len
      <4> QED
        BY <3>1, <4>1 DEF len
    <3>2. CASE n # << >>
      BY <1>1, <3>2
    <3> QED
      BY <3>1, <3>2
  <2>2. k \in DOMAIN nodetab[<< >>] /\ r.local \in Nat \ {0}
    <3>1. k \in 1..Len(nodetab[<< >>]) /\ Len(nodetab[<< >>]) \in Nat
      BY <1>1, <2>1, RowsOf
    <3> QED
      BY <1>1, <2>1, <3>1, RowsOf
  <2>3. r.uid \in Configured /\ B[r.uid] = <<r.local>>
    BY <1>8, <2>1 DEF Right
  <2>4. <<r.uid, <<r.local>>>> \in Entries
    <3>1. Below(<< >>, r.local) = <<r.local>>
      BY <2>2, BelowRoot
    <3> QED
      BY <1>1, <2>2, <3>1, RootReachable, EntryOf DEF StartupTypeOK
  <2> HIDE DEF r
  <2>5. Len(<<r.local>>) = 1 /\ <<r.local>> \in Seq(Nat)
    BY <2>2
  <2>6. r.uid # u
    <3>1. SUFFICES ASSUME r.uid = u PROVE FALSE
      OBVIOUS
    <3>2. a = <<r.local>>
      BY <1>3, <2>4, <3>1 DEF OnePlace
    <3>3. n = << >>
      <4>1. n # << >> => Len(a) = 2
        BY <1>2, RowBelow DEF a
      <4> QED
        BY <2>5, <3>2, <4>1
    <3>4. a = <<e.local>>
      BY <1>2, <3>3, RowBelow DEF a
    <3>5. r.local = e.local
      BY <3>2, <3>4
    <3>6. k \in 1..len /\ len \in 1..len
      BY <1>1, <2>1, <3>3 DEF len
    <3> QED
      BY <1>1, <2>1, <3>3, <3>5, <3>6 DEF TableOK, len, r
  <2>7. ~(u \in HasSubnodes /\ IsBelow(B[u], B[r.uid]))
    <3>1. SUFFICES ASSUME u \in HasSubnodes, IsBelow(B[u], B[r.uid]) PROVE FALSE
      OBVIOUS
    <3>2. B[u] # NoAddr /\ IsStrictPrefix(B[u], B[r.uid])
      BY <3>1 DEF IsBelow
    <3>3. <<u, B[u]>> \in Entries
      BY <1>4, <3>1, <3>2 DEF Right
    <3>4. B[u] = a
      BY <1>3, <3>3 DEF OnePlace
    <3>5. Len(a) < Len(<<r.local>>)
      BY <1>3, <2>3, <2>5, <3>2, <3>4, BelowIsLonger
    <3> QED
      BY <1>3, <2>5, <3>5
  <2> QED
    BY <1>5, <2>1, <2>3, <2>6, <2>7
<1> QED
  BY <1>7, <1>8 DEF Right

LEMMA OneRowMore ==
  ASSUME TwoLevels, OnePlace', HubsConfigured', StartupTypeOK,
         NEW n \in Interface, Reachable(n), NEW e, e = nodetab'[n][Len(nodetab[n]) + 1],
         DOMAIN nodetab' = Interface,
         Len(nodetab'[n]) = Len(nodetab[n]) + 1, TableOK(nodetab'[n]),
         \A k \in 1..Len(nodetab[n]) : nodetab'[n][k] = nodetab[n][k],
         \A m \in Interface \ {n} : nodetab'[m] = nodetab[m],
         NEW B \in Addresses, Right(B), NEW C,
         C = After(B, [type |-> "MSG_NODE_NEW", node |-> n, entry |-> e])
  PROVE  Right(C)'
<1> DEFINE len == Len(nodetab[n])
           u == e.uid
           a == Below(n, e.local)
<1>1. /\ len \in Nat \ {0}
      /\ \A m \in Interface : TableOK(nodetab[m]) /\ TableOK(nodetab'[m])
      /\ << >> \in Interface
  <2>1. \A m \in Interface : TableOK(nodetab[m])
    BY DEF StartupTypeOK, AllocationTypeOK
  <2>2. len \in Nat \ {0}
    BY <2>1, RowsOf
  <2> QED
    BY <2>1, <2>2, AllocationAssumption
<1>2. e \in RowType /\ e.local \in Nat \ {0} /\ u \in Uid
  <2>1. len + 1 \in 2..(len + 1) /\ len + 1 \in 1..(len + 1)
    BY <1>1
  <2> QED
    BY <1>1, <2>1, RowsOf
(* What was on the bus still is, and the new row, too.                      *)
<1>3. ASSUME NEW m \in Interface, NEW k \in DOMAIN nodetab[m]
      PROVE  k \in DOMAIN nodetab'[m] /\ nodetab'[m][k] = nodetab[m][k]
  <2>1. CASE m # n
    BY <2>1
  <2>2. CASE m = n
    <3>1. k \in 1..len /\ DOMAIN nodetab'[n] = 1..(len + 1)
      BY <1>1, <2>2, RowsOf
    <3> QED
      BY <1>1, <2>2, <3>1
  <2> QED
    BY <2>1, <2>2
<1>4. \A m \in Interface : Reachable(m) => Reachable(m)'
  <2> SUFFICES ASSUME NEW m \in Interface, Reachable(m), m # << >> PROVE Reachable(m)'
    BY DEF Reachable
  <2>1. PICK j \in DOMAIN nodetab[<< >>] :
          nodetab[<< >>][j].uid \in HasSubnodes /\ Below(<< >>, nodetab[<< >>][j].local) = m
    BY DEF Reachable
  <2>2. j \in DOMAIN nodetab'[<< >>] /\ nodetab'[<< >>][j] = nodetab[<< >>][j]
    BY <1>1, <1>3
  <2> QED
    BY <2>1, <2>2 DEF Reachable
<1>5. \A x \in Entries : x \in Entries'
  <2> SUFFICES ASSUME NEW x \in Entries PROVE x \in Entries'
    OBVIOUS
  <2>1. PICK m \in Interface : Reachable(m) /\ \E k \in DOMAIN nodetab[m] :
          x = <<nodetab[m][k].uid, Below(m, nodetab[m][k].local)>>
    BY EntryIs
  <2> QED
    BY <1>3, <1>4, <2>1 DEF Entries
<1>6. <<u, a>> \in Entries'
  <2>1. len + 1 \in DOMAIN nodetab'[n]
    BY <1>1, RowsOf
  <2> QED
    BY <1>4, <2>1 DEF Entries
<1>7. a # << >> /\ a \in Seq(Nat) /\ Len(a) \in {1, 2}
  BY <1>2, RowBelow
<1> HIDE DEF len, u, a
<1>8. \A b \in Configured : C[b] = IF b = u THEN a ELSE B[b]
  <2>1. CASE u \in Configured
    <3>1. C = [B EXCEPT ![u] = a]
      BY <2>1 DEF After, u, a
    <3> QED
      BY <3>1 DEF Addresses
  <2>2. CASE u \notin Configured
    <3>1. C = B
      BY <2>2 DEF After, u
    <3> QED
      BY <2>2, <3>1
  <2> QED
    BY <2>1, <2>2
<1>9. ASSUME NEW b \in Configured, C[b] # NoAddr PROVE <<b, C[b]>> \in Entries'
  <2>1. CASE b = u
    BY <1>6, <1>8, <2>1
  <2>2. CASE b # u
    BY <1>5, <1>8, <1>9, <2>2 DEF Right
  <2> QED
    BY <2>1, <2>2
<1>10. ASSUME NEW k \in 2..Len(nodetab'[<< >>]), nodetab'[<< >>][k].uid \in HasSubnodes
       PROVE  /\ nodetab'[<< >>][k].uid \in Configured
              /\ C[nodetab'[<< >>][k].uid] = <<nodetab'[<< >>][k].local>>
  <2> DEFINE r == nodetab'[<< >>][k]
  <2>1. k \in DOMAIN nodetab'[<< >>] /\ r.local \in Nat \ {0}
    <3>1. k \in 1..Len(nodetab'[<< >>]) /\ Len(nodetab'[<< >>]) \in Nat
      BY <1>1, RowsOf
    <3> QED
      BY <1>1, <3>1, RowsOf
  <2>2. <<r.uid, <<r.local>>>> \in Entries'
    <3>1. Below(<< >>, r.local) = <<r.local>>
      BY <2>1, BelowRoot
    <3> QED
      BY <1>1, <2>1, <3>1 DEF Entries, Reachable
  <2>3. CASE n = << >> /\ k = len + 1
    <3>1. r = e
      BY <2>3 DEF len
    <3>2. a = <<e.local>>
      BY <1>2, <2>3, RowBelow DEF a
    <3>3. u \in Configured
      BY <1>6, <1>7, <1>10, <3>1 DEF HubsConfigured, u
    <3> QED
      BY <1>8, <3>1, <3>2, <3>3 DEF u
  <2>4. CASE ~(n = << >> /\ k = len + 1)
    <3>1. /\ k \in 2..Len(nodetab[<< >>]) /\ r = nodetab[<< >>][k]
          /\ n = << >> => k \in 1..len
      <4>1. CASE n = << >>
        <5>1. k \in 2..(len + 1) /\ k # len + 1
          BY <2>4, <4>1 DEF len
        <5>2. k \in 2..len /\ k \in 1..len
          BY <1>1, <5>1
        <5> QED
          BY <4>1, <5>2 DEF len
      <4>2. CASE n # << >>
        BY <1>1, <4>2
      <4> QED
        BY <4>1, <4>2
    <3>2. r.uid \in Configured /\ B[r.uid] = <<r.local>>
      <4>1. r.uid \in HasSubnodes
        BY <1>10
      <4> HIDE DEF r
      <4> QED
        BY <3>1, <4>1 DEF Right
    <3>3. r.uid # u
      <4>1. SUFFICES ASSUME r.uid = u PROVE FALSE
        OBVIOUS
      <4>2. a = <<r.local>>
        BY <1>6, <2>2, <4>1 DEF OnePlace
      <4>3. n = << >>
        <5>1. n # << >> => Len(a) = 2
          BY <1>2, RowBelow DEF a
        <5> QED
          BY <4>2, <5>1
      <4>4. a = <<e.local>>
        BY <1>2, <4>3, RowBelow DEF a
      <4>5. r.local = e.local
        BY <4>2, <4>4
      <4>6. k \in 1..(len + 1) /\ len + 1 \in 1..(len + 1) /\ k # len + 1
        <5>1. k \in 1..len
          BY <3>1, <4>3
        <5> QED
          BY <1>1, <5>1
      <4> QED
        BY <1>1, <4>3, <4>5, <4>6 DEF TableOK, len
    <3> QED
      BY <1>8, <3>2, <3>3
  <2> QED
    BY <2>3, <2>4
<1> QED
  BY <1>9, <1>10 DEF Right

LEMMA LeadsReported ==
  ASSUME TwoLevels, OnePlace, HubsConfigured, OnePlace', HubsConfigured', StartupTypeOK,
         NEW n \in Interface, Report(n), \E B : Leads(B)
  PROVE  (\E B : Leads(B))'
<1>1. PICK e \in RowType, type \in {"MSG_NODE_NEW", "MSG_NODE_LOST"} :
         LET old == nodetab[n]  new == nodetab'[n]  len == Len(nodetab[n]) IN
           /\ uplink' = Append(uplink, [type |-> type, node |-> n, entry |-> e])
           /\ nodetab' = [nodetab EXCEPT ![n] = new]
           /\ TableOK(new)
           /\ type = "MSG_NODE_LOST" =>
                /\ len > 1 /\ Len(new) = len - 1 /\ e = old[len]
                /\ \A k \in 1..(len - 1) : new[k] = old[k]
           /\ type = "MSG_NODE_NEW" =>
                /\ Len(new) = len + 1 /\ e = new[len + 1]
                /\ \A k \in 1..len : new[k] = old[k]
  BY ReportIs
<1>2. PICK m : m = [type |-> type, node |-> n, entry |-> e]
  OBVIOUS
<1>3. m \in Plain \cup NodeReport /\ uplink' = Append(uplink, m)
  BY <1>1, <1>2 DEF NodeReport
<1>4. /\ DOMAIN nodetab = Interface /\ DOMAIN nodetab' = Interface
      /\ \A k \in Interface \ {n} : nodetab'[k] = nodetab[k]
  BY <1>1 DEF StartupTypeOK, AllocationTypeOK
<1>5. Reachable(n) /\ boards' = boards
  BY DEF Report, host
<1>6. ASSUME NEW B \in Addresses, Right(B) PROVE Right(After(B, m))'
  <2>1. PICK C : C = After(B, m)
    OBVIOUS
  <2>2. CASE type = "MSG_NODE_LOST"
    <3>1. C = After(B, [type |-> "MSG_NODE_LOST", node |-> n, entry |-> e])
      BY <1>2, <2>1, <2>2
    <3>2. Right(C)'
      BY <1>1, <1>4, <1>5, <1>6, <2>2, <3>1, LastRowLost
    <3> QED
      BY <2>1, <3>2
  <2>3. CASE type = "MSG_NODE_NEW"
    <3>1. C = After(B, [type |-> "MSG_NODE_NEW", node |-> n, entry |-> e])
      BY <1>2, <2>1, <2>3
    <3>2. Right(C)'
      BY <1>1, <1>4, <1>5, <1>6, <2>3, <3>1, OneRowMore
    <3> QED
      BY <2>1, <3>2
  <2> QED
    BY <2>2, <2>3
<1> QED
  BY <1>3, <1>5, <1>6, LeadsSent

LEMMA LeadsSame ==
  ASSUME UNCHANGED <<boards, nodetab, uplink>>, \E B : Leads(B)
  PROVE  (\E B : Leads(B))'
<1>1. PICK B : Leads(B)
  OBVIOUS
<1>2. PICK D : D = B[Len(uplink)]
  OBVIOUS
<1>3. Right(D)'
  <2>1. Right(D)
    BY <1>1, <1>2 DEF Leads
  <2> QED
    BY <2>1, SameTables DEF Right
<1>4. (B[Len(uplink)])' = D
  BY <1>2
<1>5. Right(B[Len(uplink)])'
  BY <1>3, <1>4 DEF Right
<1>6. Leads(B)'
  BY <1>1, <1>5 DEF Leads
<1> QED
  BY <1>6

(* At the end of the dialogue nothing is on its way.                        *)
LEMMA LeadsAtFirst ==
  ASSUME TwoLevels, HubsConfigured', AllocationTypeOK', AllNoted', Sound', uplink' = << >>
  PROVE  (\E B : Leads(B))'
<1>1. PICK D : D = boards'
  OBVIOUS
<1>2. PICK B : B = [k \in {0} |-> D]
  OBVIOUS
<1>3. D \in Addresses
  BY <1>1 DEF AllocationTypeOK, Addresses
<1>4. \A b \in Configured : D[b] # NoAddr => <<b, D[b]>> \in Entries'
  BY <1>1 DEF Sound
<1>5. ASSUME NEW k \in 2..Len(nodetab'[<< >>]), nodetab'[<< >>][k].uid \in HasSubnodes
      PROVE  /\ nodetab'[<< >>][k].uid \in Configured
             /\ D[nodetab'[<< >>][k].uid] = <<nodetab'[<< >>][k].local>>
  <2> DEFINE r == nodetab'[<< >>][k]
  <2>1. << >> \in Interface /\ TableOK(nodetab'[<< >>])
    BY AllocationAssumption DEF AllocationTypeOK
  <2>2. k \in DOMAIN nodetab'[<< >>] /\ r.local \in Nat \ {0}
    <3>1. k \in 1..Len(nodetab'[<< >>]) /\ Len(nodetab'[<< >>]) \in Nat
      BY <2>1, RowsOf
    <3> QED
      BY <2>1, <3>1, RowsOf
  <2>3. Below(<< >>, r.local) = <<r.local>> /\ <<r.local>> # << >>
    BY <2>2, BelowRoot
  <2>4. <<r.uid, Below(<< >>, r.local)>> \in Entries'
    BY <2>1, <2>2 DEF Entries, Reachable
  <2>5. r.uid \in HasSubnodes
    BY <1>5
  <2> HIDE DEF r
  <2>6. r.uid \in Configured
    BY <2>3, <2>4, <2>5 DEF HubsConfigured
  <2>7. D[r.uid] = <<r.local>>
    BY <1>1, <2>3, <2>4, <2>6 DEF AllNoted
  <2> QED
    BY <2>6, <2>7 DEF r
<1>6. Right(D)'
  BY <1>4, <1>5 DEF Right
<1>7. (B[Len(uplink)])' = D
  BY <1>2
<1>8. Right(B[Len(uplink)])'
  BY <1>6, <1>7 DEF Right
<1>9. B \in [0..Len(uplink') -> Addresses] /\ B[0] = boards' /\ Len(uplink') = 0
  <2>1. 0..0 = {0} /\ Len(uplink') = 0
    OBVIOUS
  <2> QED
    BY <1>1, <1>2, <1>3, <2>1
<1>10. Leads(B)'
  BY <1>8, <1>9 DEF Leads
<1> QED
  BY <1>10

LEMMA LeadsServed ==
  ASSUME StartupTypeOK, NEW u \in Uid, ServeFeature(u), \E B : Leads(B)
  PROVE  (\E B : Leads(B))'
<1>1. PICK m \in Plain : uplink' = Append(uplink, m)
  <2> DEFINE r == Head(feature_requests[u])
  <2>1. r \in FeatureSet
    BY DEF ServeFeature, StartupTypeOK
  <2>2. [type |-> "MSG_FEATURE"] \in Plain /\ [type |-> "MSG_FEATURE_NA", number |-> r.number] \in Plain
    BY <2>1 DEF Plain, FeatureSet
  <2> QED
    BY <2>2 DEF ServeFeature
<1>2. boards' = boards /\ nodetab' = nodetab
  BY DEF ServeFeature, vars, host, nodes
<1>3. \A B : After(B, m) = B
  BY DEF After, Plain
<1>4. ASSUME NEW B \in Addresses, Right(B) PROVE Right(After(B, m))'
  <2>1. Right(B)'
    BY <1>2, <1>4, SameTables DEF Right
  <2> QED
    BY <1>3, <2>1
<1> QED
  BY <1>1, <1>2, <1>4, LeadsSent

LEMMA LeadsReceived ==
  ASSUME StartupTypeOK, Receiver, \E B : Leads(B)
  PROVE  (\E B : Leads(B))'
<1> DEFINE m == uplink[1]
<1>1. \A type : Incoming(type) => Head(uplink) = m /\ m.type = type
  BY HeadIs
<1>2. CASE HandleFeature \/ HandleFeatureNa
  <2>1. PICK type \in {"MSG_FEATURE", "MSG_FEATURE_NA"} : Incoming(type)
    BY <1>2 DEF HandleFeature, HandleFeatureNa
  <2>2. boards' = boards /\ nodetab' = nodetab
    BY <1>2 DEF HandleFeature, HandleFeatureNa, vars, host, nodes
  <2>3. boards' = After(boards, m)
    BY <1>1, <2>1, <2>2 DEF After
  <2> QED
    BY <2>1, <2>2, <2>3, LeadsHandled
<1>3. CASE HandleLost
  <2>1. Incoming("MSG_NODE_LOST") /\ nodetab' = nodetab
    BY <1>3 DEF HandleLost, nodes
  <2>2. Head(uplink) = m /\ m.type = "MSG_NODE_LOST"
    BY <1>1, <2>1
  <2>3. boards' = IF m.entry.uid \in Configured THEN Lose(m.entry.uid) ELSE boards
    BY <1>3, <2>2 DEF HandleLost
  <2>4. boards' = After(boards, m)
    BY <2>2, <2>3 DEF After, AfterLost, Lose
  <2> QED
    BY <2>1, <2>4, LeadsHandled
<1>4. CASE HandleNew
  <2>1. Incoming("MSG_NODE_NEW") /\ nodetab' = nodetab
    BY <1>4 DEF HandleNew, nodes
  <2>2. Head(uplink) = m /\ m.type = "MSG_NODE_NEW"
    BY <1>1, <2>1
  <2>3. boards' = IF m.entry.uid \in Configured
                  THEN [boards EXCEPT ![m.entry.uid] = Below(m.node, m.entry.local)] ELSE boards
    BY <1>4, <2>2 DEF HandleNew
  <2>4. boards' = After(boards, m)
    BY <2>2, <2>3 DEF After
  <2> QED
    BY <2>1, <2>4, LeadsHandled
<1> QED
  BY <1>2, <1>3, <1>4 DEF Receiver

LEMMA ReportsInvNext ==
  ASSUME TwoLevels, OnePlace, HubsConfigured, OnePlace', HubsConfigured',
         BaseInv, ReportsInv, [StartupNext]_allVars
  PROVE  ReportsInv'
<1> SUFFICES ASSUME changes' = 0, pc' = "done" PROVE (\E B : Leads(B))'
  BY DEF ReportsInv
<1>1. StartupTypeOK
  BY DEF BaseInv
<1>2. CASE Caller \/ Changes \/ \E n \in Interface : Answer(n)
  <2>1. BaseInv' /\ UNCHANGED <<caller, bus, refused>> /\ pc # "done" /\ Complete'
    BY <1>2, TableStepBase
  <2>2. uplink' = << >>
    BY <2>1 DEF BaseInv, Early, bus
  <2>3. AllocationTypeOK' /\ AllNoted' /\ Sound'
    BY <2>1 DEF BaseInv, StartupTypeOK, Complete
  <2> QED
    BY <2>2, <2>3, LeadsAtFirst
<1>3. CASE UNCHANGED allVars
  <2>1. UNCHANGED <<boards, nodetab, uplink, changes, pc>>
    BY <1>3 DEF allVars, featureVars, bus, vars, host, nodes
  <2> QED
    BY <2>1, LeadsSame DEF ReportsInv
<1>4. CASE \/ SetFeatures \/ AwaitFeature
           \/ \E u \in Uid : ServeFeature(u)
           \/ \E n \in Interface : Report(n)
           \/ HandleFeature \/ HandleFeatureNa \/ HandleLost \/ HandleNew
  <2>1. pc = "done" /\ changes' = changes
    BY <1>4, LaterStepBase
  <2>2. \E B : Leads(B)
    BY <2>1 DEF ReportsInv
  <2>3. SetFeatures \/ AwaitFeature => UNCHANGED <<boards, nodetab, uplink>>
    BY DEF SetFeatures, AwaitFeature, bus, vars, host, nodes
  <2> QED
    BY <1>1, <1>4, <2>2, <2>3, LeadsSame, LeadsServed, LeadsReported, LeadsReceived DEF Receiver
<1> QED
  BY <1>2, <1>3, <1>4, StartupSteps

(* LostIsForgotten, for a start during which no table changes: when the     *)
(* receiver has handled all that the bus has sent, a board counts as        *)
(* connected only at an address where it is, however many nodes came and    *)
(* went, with what is behind them, in between; also when a feature answer   *)
(* or a lock held for reading delayed the reports.                          *)
THEOREM LostAreForgotten ==
  ASSUME TwoLevels
  PROVE  StartupSpec /\ [](OnePlace /\ HubsConfigured) => []LostIsForgotten
<1> DEFINE Inv == BaseInv /\ FeatureInv /\ ReportsInv
           Bus == OnePlace /\ HubsConfigured
<1>1. StartupInit => Inv
  <2>1. StartupInit => pc # "done"
    BY DEF StartupInit, Init
  <2> QED
    BY <2>1, BaseInvInit, FeatureInvInit DEF ReportsInv
<1>2. Inv /\ Bus /\ Bus' /\ [StartupNext]_allVars => Inv'
  BY FeatureInvNext, ReportsInvNext
<1>3. Inv => LostIsForgotten
  <2> SUFFICES ASSUME ReportsInv, uplink = << >>, pc = "done", changes = 0,
                      NEW b \in Configured, boards[b] # NoAddr
               PROVE  <<b, boards[b]>> \in Entries
    BY DEF LostIsForgotten
  <2>1. PICK B : Leads(B)
    BY DEF ReportsInv
  <2>2. Right(B[0]) /\ B[0] = boards
    BY <2>1 DEF Leads
  <2> QED
    BY <2>2 DEF Right
<1> QED
  BY <1>1, <1>2, <1>3, PTL DEF StartupSpec
=============================================================================

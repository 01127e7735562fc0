--------------------------- MODULE OccupancyProofs ----------------------------
(****************************************************************************)
(* For any boards, segments and trains, and however many messages are lost  *)
(* and boards taken off: trains are where the segments say, and in the end  *)
(* the segments say where they are.                                         *)
(****************************************************************************)
EXTENDS Occupancy, TLAPS, SequenceTheorems, FiniteSetTheorems, WellFoundedInduction

----------------------------------------------------------------------------
(* Types.                                                                   *)

Decoder == [of : Train, type : Orientation]

OccTypes == {"MSG_BM_OCC", "MSG_BM_FREE", "MSG_BM_MULTIPLE"}
NodeTypes == {"MSG_NODE_LOST", "MSG_NODE_NEW"}

\* A board reports its own segments.
OccMessage ==
  {m \in [type : OccTypes, board : Board, of : SUBSET Segment, occ : SUBSET Segment] :
     m.of \subseteq SegmentsOf(m.board) /\ m.occ \subseteq m.of}
AddressMessage ==
  {m \in [type : {"MSG_BM_ADDRESS"}, board : Board, of : {{s} : s \in Segment}, addresses : SUBSET Decoder] :
     m.of \subseteq SegmentsOf(m.board)}
NodeMessage == [type : NodeTypes, board : Board]
Message == OccMessage \cup AddressMessage \cup NodeMessage

Request(b) ==
  ({"multiple"} \X {SegmentsOf(b)}) \cup ({"occ", "address"} \X {{s} : s \in SegmentsOf(b)})

Said(kinds) == kinds \X {{s} : s \in Segment}

TypeOK ==
  /\ reset \in {"reset", "enabled", "queried"} /\ connected \in SUBSET Board
  /\ occupied \in [Segment -> BOOLEAN] /\ dcc_addresses \in [Segment -> SUBSET Decoder]
  /\ on_track \in [Train -> BOOLEAN] /\ orientation \in [Train -> Orientation]
  /\ uplink \in Seq(Message) /\ mirrors \in Seq({m \in OccMessage : m.board \in SecAck})
  /\ at \in [Train -> SUBSET Segment] /\ facing \in [Train -> Orientation]
  /\ plugged \in SUBSET Board /\ secure \in SUBSET (plugged \cap SecAck)
  /\ untold = [b \in Board |-> untold[b]] /\ \A b \in Board : untold[b] \in Seq(Request(b))
  /\ unmirrored \in SUBSET Segment
  /\ told \in SUBSET Said({"occ", "address"})
  /\ missing \in SUBSET Said({"occ", "address", "mirror"})
  /\ moves \in Nat /\ faults \in Nat

----------------------------------------------------------------------------
(* The inductive invariant.                                                 *)

\* The last message of q that is in S, and that there is none.
LastIn(q, S, i) == i \in DOMAIN q /\ q[i] \in S /\ \A j \in DOMAIN q : j > i => q[j] \notin S
NoneIn(q, S) == \A i \in DOMAIN q : q[i] \notin S

OccOf(s) == {m \in OccMessage : s \in m.of}
AddressOf(s) == {m \in AddressMessage : s \in m.of}

\* The board of s has yet to report it.
Pending(s, kinds) ==
  \E k \in DOMAIN untold[BoardOf[s]] :
    untold[BoardOf[s]][k][1] \in kinds /\ s \in untold[BoardOf[s]][k][2]

\* Boards do not report before the start has enabled the system, nor while they
\* are off the bus.
Silent ==
  /\ reset = "reset" => /\ uplink = << >> /\ mirrors = << >> /\ unmirrored = {} /\ told = {}
                       /\ plugged = Board /\ \A b \in Board : untold[b] = << >>
  /\ \A b \in Board : untold[b] # << >> => b \in plugged
  /\ \A s \in Segment :
       <<"occ", {s}>> \in told \/ <<"address", {s}>> \in told => BoardOf[s] \in plugged

\* Board b, connected if it is in c, is so when the first n - 1 messages of q
\* have been handled.
Joined(q, c, b, n) ==
  /\ \A i \in DOMAIN q :
       i < n /\ q[i] = [type |-> "MSG_NODE_LOST", board |-> b] =>
         \E j \in DOMAIN q : i < j /\ j < n /\ q[j] = [type |-> "MSG_NODE_NEW", board |-> b]
  /\ b \in c \/ \E j \in DOMAIN q : j < n /\ q[j] = [type |-> "MSG_NODE_NEW", board |-> b]

\* Reports are handled while their board is connected.
ReportsInTime ==
  /\ \A i \in DOMAIN uplink :
       uplink[i] \notin NodeMessage => Joined(uplink, connected, uplink[i].board, i)
  /\ \A b \in plugged : Joined(uplink, connected, b, Len(uplink) + 1)

\* When a board has no report of s to send, the last on the line is true, or
\* what has been handled is, or a report was lost.
LastReportTrue ==
  \A s \in Segment :
    <<"occ", {s}>> \in told /\ ~Pending(s, {"occ", "multiple"}) =>
      /\ \A i \in DOMAIN uplink : LastIn(uplink, OccOf(s), i) => (s \in uplink[i].occ) = Real(s)
      /\ NoneIn(uplink, OccOf(s)) => occupied[s] = Real(s) \/ <<"occ", {s}>> \in missing

\* The last mirror message says what is stored.
MirrorTrue ==
  \A s \in Segment, i \in DOMAIN mirrors :
    LastIn(mirrors, OccOf(s), i) => (s \in mirrors[i].occ) = occupied[s]

\* A board that has nothing to send or to repeat of s has heard the truth of it.
HeardTrue ==
  \A s \in Segment :
    /\ BoardOf[s] \in secure /\ <<"occ", {s}>> \in told /\ ~Pending(s, {"occ", "multiple"})
    /\ NoneIn(mirrors, OccOf(s)) /\ <<"mirror", {s}>> \notin missing /\ s \notin unmirrored
    => occupied[s] = Real(s)

\* The same of addresses, which are not mirrored.
LastAddressTrue ==
  \A s \in Segment :
    <<"address", {s}>> \in told /\ ~Pending(s, {"address"}) =>
      /\ \A i \in DOMAIN uplink :
           LastIn(uplink, AddressOf(s), i) => uplink[i].addresses = Decoders(s)
      /\ NoneIn(uplink, AddressOf(s)) /\ <<"address", {s}>> \notin missing
           => dcc_addresses[s] = Decoders(s)

\* A report that s is free removes its addresses; if it is occupied by then,
\* another report of them follows.
FreeIsFollowed ==
  \A s \in Segment, i \in DOMAIN uplink :
    /\ <<"address", {s}>> \in told /\ Real(s)
    /\ uplink[i] \in OccOf(s) /\ s \notin uplink[i].occ
    => \/ Pending(s, {"address"})
       \/ \E j \in DOMAIN uplink : i < j /\ uplink[j] \in AddressOf(s)

OccupancyInv ==
  /\ TypeOK /\ Silent /\ ReportsInTime /\ LastReportTrue /\ MirrorTrue /\ HeardTrue
  /\ LastAddressTrue /\ FreeIsFollowed /\ TrainsFollowSegments

----------------------------------------------------------------------------
(* Sequences: what is left, and what has been added.                        *)

LEMMA TailOf ==
  ASSUME NEW M, NEW q \in Seq(M), q # << >>
  PROVE  /\ Head(q) = q[1] /\ Head(q) \in M /\ Tail(q) \in Seq(M)
         /\ Len(q) \in Nat /\ Len(q) >= 1 /\ Len(Tail(q)) = Len(q) - 1
         /\ DOMAIN q = 1..Len(q) /\ DOMAIN Tail(q) = 1..(Len(q) - 1)
         /\ \A i \in 1..(Len(q) - 1) : Tail(q)[i] = q[i + 1]
OBVIOUS

LEMMA AppendOf ==
  ASSUME NEW M, NEW q \in Seq(M), NEW m \in M
  PROVE  /\ Append(q, m) \in Seq(M)
         /\ Len(q) \in Nat /\ Len(Append(q, m)) = Len(q) + 1
         /\ DOMAIN q = 1..Len(q) /\ DOMAIN Append(q, m) = 1..(Len(q) + 1)
         /\ \A i \in 1..Len(q) : Append(q, m)[i] = q[i]
         /\ Append(q, m)[Len(q) + 1] = m
OBVIOUS

(* The last message of a kind stays the last when the first message of all  *)
(* is taken, unless it is that one.                                         *)
LEMMA TailLast ==
  ASSUME NEW M, NEW q \in Seq(M), q # << >>, NEW S
  PROVE  /\ \A i \in DOMAIN Tail(q) :
              LastIn(Tail(q), S, i) => LastIn(q, S, i + 1) /\ Tail(q)[i] = q[i + 1]
         /\ NoneIn(Tail(q), S) => NoneIn(q, S) \/ LastIn(q, S, 1)
         /\ NoneIn(Tail(q), S) /\ Head(q) \notin S => NoneIn(q, S)
<1> DEFINE r == Tail(q)
           n == Len(q)
<1>1. /\ Head(q) = q[1] /\ n \in Nat /\ n >= 1
      /\ DOMAIN q = 1..n /\ DOMAIN r = 1..(n - 1)
      /\ \A i \in 1..(n - 1) : r[i] = q[i + 1]
  BY TailOf
<1> HIDE DEF r, n
<1>2. ASSUME NEW j \in 1..n, j # 1 PROVE j - 1 \in DOMAIN r /\ q[j] = r[j - 1]
  <2>1. j - 1 \in 1..(n - 1) /\ (j - 1) + 1 = j
    BY <1>1, <1>2
  <2> QED
    BY <1>1, <2>1
<1>3. ASSUME NEW i \in DOMAIN r, LastIn(r, S, i)
      PROVE  LastIn(q, S, i + 1) /\ r[i] = q[i + 1]
  <2>1. i \in 1..(n - 1) /\ i + 1 \in DOMAIN q /\ r[i] = q[i + 1]
    BY <1>1
  <2>2. ASSUME NEW j \in DOMAIN q, j > i + 1 PROVE q[j] \notin S
    <3>1. j \in 1..n /\ j # 1 /\ j - 1 > i
      BY <1>1, <2>1, <2>2
    <3> QED
      BY <1>2, <1>3, <3>1 DEF LastIn
  <2> QED
    BY <1>3, <2>1, <2>2 DEF LastIn
<1>4. NoneIn(r, S) => \A j \in DOMAIN q : j # 1 => q[j] \notin S
  BY <1>1, <1>2 DEF NoneIn
<1>5. 1 \in DOMAIN q /\ \A j \in DOMAIN q : j > 1 => j # 1
  BY <1>1
<1> QED
  BY <1>1, <1>3, <1>4, <1>5 DEF LastIn, NoneIn, r

(* A message that is added becomes the last of its kind.                    *)
LEMMA AppendLast ==
  ASSUME NEW M, NEW q \in Seq(M), NEW m \in M, NEW S
  PROVE  /\ \A i \in DOMAIN Append(q, m) :
              LastIn(Append(q, m), S, i) =>
                \/ m \in S /\ Append(q, m)[i] = m
                \/ m \notin S /\ LastIn(q, S, i) /\ Append(q, m)[i] = q[i]
         /\ NoneIn(Append(q, m), S) => NoneIn(q, S) /\ m \notin S
<1> DEFINE r == Append(q, m)
<1>1. /\ Len(q) \in Nat /\ DOMAIN q = 1..Len(q) /\ DOMAIN r = 1..(Len(q) + 1)
      /\ \A i \in 1..Len(q) : r[i] = q[i]
      /\ r[Len(q) + 1] = m
  BY AppendOf
<1> HIDE DEF r
<1>2. ASSUME NEW i \in DOMAIN r, LastIn(r, S, i)
      PROVE  \/ m \in S /\ r[i] = m
             \/ m \notin S /\ LastIn(q, S, i) /\ r[i] = q[i]
  <2>1. CASE i = Len(q) + 1
    BY <1>1, <1>2, <2>1 DEF LastIn
  <2>2. CASE i \in 1..Len(q)
    BY <1>1, <1>2, <2>2 DEF LastIn
  <2> QED
    BY <1>1, <2>1, <2>2
<1>3. NoneIn(r, S) => NoneIn(q, S) /\ m \notin S
  BY <1>1 DEF NoneIn
<1> QED
  BY <1>2, <1>3 DEF r

----------------------------------------------------------------------------
(* Boards, segments and trains.                                             *)

LEMMA SegmentFacts ==
  ASSUME NEW s \in Segment
  PROVE  /\ BoardOf[s] \in Board /\ s \in SegmentsOf(BoardOf[s])
         /\ \A b \in Board : s \in SegmentsOf(b) => b = BoardOf[s]
         /\ \A m \in OccMessage \cup AddressMessage : s \in m.of => m.board = BoardOf[s]
BY DEF Board, SegmentsOf, OccMessage, AddressMessage

LEMMA SegmentsInOrder ==
  /\ Len(Segments) \in Nat /\ DOMAIN Segments = 1..Len(Segments)
  /\ Segments \in [1..Len(Segments) -> Segment]
  /\ \A s \in Segment : \E k \in 1..Len(Segments) : Segments[k] = s
<1>1. Segments \in Seq(Segment)
  BY OccupancyAssumption
<1>2. Segment = {Segments[k] : k \in DOMAIN Segments}
  BY DEF Segment, Range
<1> HIDE DEF Segment
<1> QED
  BY <1>1, <1>2

LEMMA AddressesFinite ==
  ASSUME NEW b
  PROVE  IsFiniteSet({<<"address", {s}>> : s \in SegmentsOf(b)})
<1>1. Segments \in Surjection(1..Len(Segments), Segment) /\ Len(Segments) \in Nat
  BY SegmentsInOrder DEF Surjection
<1>2. IsFiniteSet(Segment)
  <2>1. IsFiniteSet(1..Len(Segments))
    BY <1>1, FS_Interval
  <2> QED
    BY <1>1, <2>1, FS_Surjection
<1>3. IsFiniteSet(SegmentsOf(b))
  BY <1>2, FS_Subset DEF SegmentsOf
<1> DEFINE T == {<<"address", {s}>> : s \in SegmentsOf(b)}
           f == [s \in SegmentsOf(b) |-> <<"address", {s}>>]
<1>4. f \in Surjection(SegmentsOf(b), T)
  BY DEF Surjection
<1> QED
  BY <1>3, <1>4, FS_Surjection

(* The elements of a finite set can be put in an order.                     *)
LEMMA SetToSeqType ==
  ASSUME NEW S, IsFiniteSet(S)
  PROVE  SetToSeq(S) \in Seq(S)
<1>1. PICK f : f \in Bijection(1..Cardinality(S), S)
  BY FS_CardinalityType DEF ExistsBijection
<1>2. f \in [1..Cardinality(S) -> S] /\ IsInjective(f)
  BY <1>1 DEF Bijection, Injection, IsInjective
<1>3. SetToSeq(S) \in [1..Cardinality(S) -> S]
  BY <1>2 DEF SetToSeq
<1> QED
  BY <1>3, FS_CardinalityType

LEMMA AskedType ==
  ASSUME NEW b \in Board
  PROVE  Asked(b) \in Seq(Request(b))
<1> DEFINE S == {<<"address", {s}>> : s \in SegmentsOf(b)}
<1>1. SetToSeq(S) \in Seq(S)
  BY AddressesFinite, SetToSeqType
<1>4. S \subseteq Request(b)
  BY DEF Request
<1>2. SetToSeq(S) \in Seq(Request(b))
  BY <1>1, <1>4
<1>3. << <<"multiple", SegmentsOf(b)>> >> \in Seq(Request(b))
  BY DEF Request
<1> QED
  BY <1>2, <1>3 DEF Asked

LEMMA DecodersType ==
  ASSUME TypeOK, NEW s \in Segment
  PROVE  Decoders(s) \in SUBSET Decoder /\ (~Real(s) <=> Decoders(s) = {})
<1>1. ASSUME NEW t \in Train PROVE [of |-> t, type |-> facing[t]] \in Decoder
  BY DEF TypeOK, Decoder
<1>2. Decoders(s) = {[of |-> t, type |-> facing[t]] : t \in {u \in Train : s \in at[u]}}
  BY DEF Decoders
<1> QED
  BY <1>1, <1>2 DEF Real

(* Every train that is on the track is reported by a last segment, which    *)
(* says how it faces.                                                       *)
LEMMA LastPosition ==
  ASSUME NEW a \in [Segment -> SUBSET Decoder], NEW t \in Train, Position(t, a) # {}
  PROVE  \E s \in Segment : \E e \in a[s] : e.of = t /\ e.type = Facing(t, a) /\ e \in Decoder
<1> DEFINE n == Len(Segments)
           P == Position(t, a)
<1>1. n \in Nat /\ P \subseteq 1..n /\ \A k \in 1..n : Segments[k] \in Segment
  BY SegmentsInOrder DEF Position
<1>2. \E m \in P : \A k \in P : m >= k
  <2> DEFINE D == {n - k : k \in P}
  <2>1. D \subseteq Nat /\ D # {}
    BY <1>1
  <2> HIDE DEF D
  <2>2. PICK x \in D : \A y \in D : ~(<<y, x>> \in OpToRel(<, Nat))
    BY <2>1, NatLessThanWellFounded, WFMin
  <2>3. \A y \in D : ~(y < x)
    BY <2>1, <2>2 DEF OpToRel
  <2>4. PICK m \in P : x = n - m
    BY DEF D
  <2>5. \A k \in P : ~(n - k < n - m)
    BY <2>3, <2>4 DEF D
  <2> QED
    BY <1>1, <2>5
<1>3. Max(P) \in P
  BY <1>2 DEF Max
<1> DEFINE s == Segments[Max(P)]
<1>4. s \in Segment /\ \E e \in a[s] : e.of = t
  BY <1>1, <1>3 DEF Position
<1>5. PICK e : e = CHOOSE x \in a[s] : x.of = t
  OBVIOUS
<1>6. e \in a[s] /\ e.of = t /\ e.type = Facing(t, a)
  BY <1>4, <1>5 DEF Facing
<1> QED
  BY <1>4, <1>6

(* The messages of nodes decide which boards are connected.                 *)
LEMMA JoinedTail ==
  ASSUME NEW q \in Seq(Message), q # << >>, NEW c, NEW d, NEW b, NEW n \in Nat, n >= 1,
         Joined(q, c, b, n + 1),
         Head(q) = [type |-> "MSG_NODE_NEW", board |-> b] => b \in d,
         Head(q) # [type |-> "MSG_NODE_LOST", board |-> b] /\ b \in c => b \in d
  PROVE  Joined(Tail(q), d, b, n)
<1> DEFINE r == Tail(q)
           new == [type |-> "MSG_NODE_NEW", board |-> b]
           lost == [type |-> "MSG_NODE_LOST", board |-> b]
<1>1. /\ Head(q) = q[1] /\ Len(q) \in Nat /\ Len(q) >= 1
      /\ DOMAIN q = 1..Len(q) /\ DOMAIN r = 1..(Len(q) - 1)
      /\ \A i \in 1..(Len(q) - 1) : r[i] = q[i + 1]
  BY TailOf
<1>2. /\ \A i \in DOMAIN q : i < n + 1 /\ q[i] = lost =>
           \E j \in DOMAIN q : i < j /\ j < n + 1 /\ q[j] = new
      /\ b \in c \/ \E j \in DOMAIN q : j < n + 1 /\ q[j] = new
      /\ q[1] = new => b \in d
      /\ q[1] # lost /\ b \in c => b \in d
  BY <1>1 DEF Joined
<1> HIDE DEF r, new, lost
<1>3. ASSUME NEW j \in DOMAIN q, j # 1, j < n + 1
      PROVE  j - 1 \in DOMAIN r /\ j - 1 < n /\ q[j] = r[j - 1]
  <2>1. j - 1 \in 1..(Len(q) - 1) /\ (j - 1) + 1 = j
    BY <1>1, <1>3
  <2> QED
    BY <1>1, <1>3, <2>1
<1>4. ASSUME NEW i \in DOMAIN r, i < n, r[i] = lost
      PROVE  \E j \in DOMAIN r : i < j /\ j < n /\ r[j] = new
  <2>1. i + 1 \in DOMAIN q /\ i + 1 < n + 1 /\ q[i + 1] = lost
    BY <1>1, <1>4
  <2>2. PICK j \in DOMAIN q : i + 1 < j /\ j < n + 1 /\ q[j] = new
    BY <1>2, <2>1
  <2>3. j # 1 /\ i < j - 1
    BY <1>1, <2>1, <2>2
  <2> QED
    BY <1>3, <2>2, <2>3
<1>5. b \in d \/ \E j \in DOMAIN r : j < n /\ r[j] = new
  <2>1. CASE \E j \in DOMAIN q : j < n + 1 /\ q[j] = new
    BY <1>2, <1>3, <2>1
  <2>2. CASE b \in c /\ ~ \E j \in DOMAIN q : j < n + 1 /\ q[j] = new
    BY <1>1, <1>2, <2>2
  <2> QED
    BY <1>2, <2>1, <2>2
<1> QED
  BY <1>4, <1>5 DEF Joined, r, new, lost

LEMMA JoinedAppend ==
  ASSUME NEW q \in Seq(Message), NEW m \in Message, NEW c, NEW b, NEW n \in Nat,
         Joined(q, c, b, n) \/ (m = [type |-> "MSG_NODE_NEW", board |-> b] /\ n = Len(q) + 2),
         n <= Len(q) + 1 \/ m # [type |-> "MSG_NODE_LOST", board |-> b]
  PROVE  Joined(Append(q, m), c, b, n)
<1> DEFINE r == Append(q, m)
           new == [type |-> "MSG_NODE_NEW", board |-> b]
           lost == [type |-> "MSG_NODE_LOST", board |-> b]
<1>1. /\ Len(q) \in Nat /\ DOMAIN q = 1..Len(q) /\ DOMAIN r = 1..(Len(q) + 1)
      /\ \A i \in 1..Len(q) : r[i] = q[i]
      /\ r[Len(q) + 1] = m
  BY AppendOf
<1> HIDE DEF r
<1>2. new # lost
  OBVIOUS
<1>3. CASE m = new /\ n = Len(q) + 2
  BY <1>1, <1>2, <1>3 DEF Joined
<1>4. CASE Joined(q, c, b, n)
  <2>1. /\ \A i \in DOMAIN q : i < n /\ q[i] = lost =>
             \E j \in DOMAIN q : i < j /\ j < n /\ q[j] = new
        /\ b \in c \/ \E j \in DOMAIN q : j < n /\ q[j] = new
    BY <1>4 DEF Joined
  <2>2. n <= Len(q) + 1 \/ m # lost
    OBVIOUS
  <2> HIDE DEF new, lost
  <2>3. \A i \in DOMAIN q : i \in DOMAIN r /\ r[i] = q[i]
    BY <1>1
  <2>4. \A i \in DOMAIN r : i < n /\ r[i] = lost => i \in DOMAIN q /\ q[i] = lost
    BY <1>1, <2>2
  <2> QED
    BY <2>1, <2>3, <2>4 DEF Joined, new, lost
<1> QED
  BY <1>3, <1>4 DEF r

(* A conjunct of the invariant is disturbed by some variables only.         *)
LEMMA Frames ==
  /\ Silent /\ (uplink # << >> \/ mirrors # << >>) /\ UNCHANGED <<reset, untold, told, plugged>> => Silent'
  /\ ReportsInTime /\ UNCHANGED <<uplink, connected, plugged>> => ReportsInTime'
  /\ LastReportTrue /\ UNCHANGED <<told, untold, uplink, occupied, at, missing>> => LastReportTrue'
  /\ MirrorTrue /\ UNCHANGED <<mirrors, occupied>> => MirrorTrue'
  /\ HeardTrue /\ UNCHANGED <<secure, told, untold, mirrors, missing, unmirrored, occupied, at>>
       => HeardTrue'
  /\ LastAddressTrue /\ UNCHANGED <<told, untold, uplink, at, facing, missing, dcc_addresses>>
       => LastAddressTrue'
  /\ FreeIsFollowed /\ UNCHANGED <<told, at, uplink, untold>> => FreeIsFollowed'
  /\ TrainsFollowSegments /\ UNCHANGED <<dcc_addresses, on_track, orientation>>
       => TrainsFollowSegments'
<1>1. Silent /\ (uplink # << >> \/ mirrors # << >>) /\ UNCHANGED <<reset, untold, told, plugged>> => Silent'
  BY DEF Silent
<1>2. ReportsInTime /\ UNCHANGED <<uplink, connected, plugged>> => ReportsInTime'
  BY DEF ReportsInTime
<1>3. LastReportTrue /\ UNCHANGED <<told, untold, uplink, occupied, at, missing>> => LastReportTrue'
  BY DEF LastReportTrue, Pending, Real
<1>4. MirrorTrue /\ UNCHANGED <<mirrors, occupied>> => MirrorTrue'
  BY DEF MirrorTrue
<1>5. HeardTrue /\ UNCHANGED <<secure, told, untold, mirrors, missing, unmirrored, occupied, at>>
        => HeardTrue'
  BY DEF HeardTrue, Pending, Real
<1>6. LastAddressTrue /\ UNCHANGED <<told, untold, uplink, at, facing, missing, dcc_addresses>>
        => LastAddressTrue'
  BY DEF LastAddressTrue, Pending, Decoders
<1>7. FreeIsFollowed /\ UNCHANGED <<told, at, uplink, untold>> => FreeIsFollowed'
  BY DEF FreeIsFollowed, Pending, Real
<1>8. TrainsFollowSegments /\ UNCHANGED <<dcc_addresses, on_track, orientation>>
        => TrainsFollowSegments'
  BY DEF TrainsFollowSegments
<1> QED
  BY <1>1, <1>2, <1>3, <1>4, <1>5, <1>6, <1>7, <1>8

(* The trains are updated with the addresses that are stored.               *)
LEMMA TrainsUpdated ==
  ASSUME TypeOK, dcc_addresses' \in [Segment -> SUBSET Decoder], UpdateTrains(dcc_addresses')
  PROVE  /\ on_track' \in [Train -> BOOLEAN] /\ orientation' \in [Train -> Orientation]
         /\ TrainsFollowSegments'
<1>1. PICK a \in [Segment -> SUBSET Decoder] : a = dcc_addresses'
  OBVIOUS
<1>2. \A t \in Train : on_track'[t] = (Position(t, a) # {})
  BY <1>1 DEF UpdateTrains
<1>3. \A t \in Train : orientation'[t] = IF Position(t, a) = {} THEN orientation[t] ELSE Facing(t, a)
  BY <1>1 DEF UpdateTrains, Turn
<1>4. ASSUME NEW t \in Train, Position(t, a) # {}
      PROVE  /\ Facing(t, a) \in Orientation
             /\ \E e \in UNION Range(a) : e.of = t /\ e.type = Facing(t, a)
  <2>1. PICK s \in Segment : \E e \in a[s] : e.of = t /\ e.type = Facing(t, a) /\ e \in Decoder
    BY <1>4, LastPosition
  <2>2. a[s] \in Range(a)
    BY DEF Range
  <2> QED
    BY <2>1, <2>2 DEF Decoder
<1>5. ASSUME NEW t \in Train, NEW e \in UNION Range(a), e.of = t
      PROVE  Position(t, a) # {}
  <2>1. PICK s \in Segment : e \in a[s]
    BY DEF Range
  <2>2. PICK k \in 1..Len(Segments) : Segments[k] = s
    BY SegmentsInOrder
  <2> QED
    BY <1>5, <2>1, <2>2, SegmentsInOrder DEF Position
<1>6. /\ on_track' = [t \in Train |-> Position(t, a) # {}]
      /\ orientation' = [t \in Train |-> IF Position(t, a) = {} THEN orientation[t] ELSE Facing(t, a)]
  BY <1>1 DEF UpdateTrains, Turn
<1>7. on_track' \in [Train -> BOOLEAN] /\ orientation' \in [Train -> Orientation]
  BY <1>4, <1>6 DEF TypeOK
<1>8. ASSUME NEW t \in Train
      PROVE  LET said == {e \in UNION Range(a) : e.of = t} IN
               /\ on_track'[t] <=> said # {}
               /\ on_track'[t] => orientation'[t] \in {e.type : e \in said}
  <2> DEFINE said == {e \in UNION Range(a) : e.of = t}
  <2>1. CASE Position(t, a) = {}
    <3>1. ~on_track'[t]
      BY <1>2, <2>1
    <3>2. said = {}
      BY <1>5, <2>1
    <3> QED
      BY <3>1, <3>2
  <2>2. CASE Position(t, a) # {}
    <3>1. on_track'[t] /\ orientation'[t] = Facing(t, a)
      BY <1>2, <1>3, <2>2
    <3>2. PICK e \in said : e.type = Facing(t, a)
      BY <1>4, <2>2
    <3>3. orientation'[t] \in {x.type : x \in said}
      BY <3>1, <3>2
    <3> QED
      BY <3>1, <3>2, <3>3
  <2> QED
    BY <2>1, <2>2
<1> QED
  BY <1>1, <1>7, <1>8 DEF TrainsFollowSegments

----------------------------------------------------------------------------
(* The initial states, and the steps of the receiver.                       *)

LEMMA OccupancyInvInit == Init => OccupancyInv
<1> SUFFICES ASSUME Init PROVE OccupancyInv
  OBVIOUS
<1> USE DEF Init
<1>1. TypeOK
  <2>1. \A t \in Train : at[t] \in SUBSET Segment
    OBVIOUS
  <2>2. at \in [Train -> SUBSET Segment]
    BY <2>1
  <2>3. SecAck \subseteq Board
    BY OccupancyAssumption
  <2>4. uplink \in Seq(Message) /\ mirrors \in Seq({m \in OccMessage : m.board \in SecAck})
    OBVIOUS
  <2>5. untold = [b \in Board |-> untold[b]] /\ \A b \in Board : untold[b] \in Seq(Request(b))
    OBVIOUS
  <2> QED
    BY <2>2, <2>3, <2>4, <2>5 DEF TypeOK, Orientation
<1>2. Silent /\ LastReportTrue /\ HeardTrue /\ LastAddressTrue
  BY DEF Silent, LastReportTrue, HeardTrue, LastAddressTrue
<1>3. MirrorTrue /\ FreeIsFollowed /\ ReportsInTime
  BY DEF MirrorTrue, FreeIsFollowed, ReportsInTime, Joined
<1>4. TrainsFollowSegments
  BY DEF TrainsFollowSegments, Range
<1> QED
  BY <1>1, <1>2, <1>3, <1>4 DEF OccupancyInv

(* The next message is taken from the line.                                 *)
LEMMA IncomingMessage ==
  ASSUME TypeOK, NEW types, Incoming(types)
  PROVE  /\ uplink # << >> /\ uplink' = Tail(uplink) /\ uplink' \in Seq(Message)
         /\ Head(uplink) = uplink[1] /\ 1 \in DOMAIN uplink
         /\ Head(uplink) \in Message /\ Head(uplink).type \in types
         /\ types \cap (OccTypes \cup NodeTypes) = {} => Head(uplink) \in AddressMessage
         /\ types \cap ({"MSG_BM_ADDRESS"} \cup NodeTypes) = {} => Head(uplink) \in OccMessage
         /\ types \cap ({"MSG_BM_ADDRESS"} \cup OccTypes) = {} => Head(uplink) \in NodeMessage
<1>1. uplink \in Seq(Message) /\ uplink # << >> /\ Head(uplink).type \in types /\ uplink' = Tail(uplink)
  BY DEF TypeOK, Incoming
<1>2. Head(uplink) = uplink[1] /\ Head(uplink) \in Message /\ Tail(uplink) \in Seq(Message) /\ 1 \in DOMAIN uplink
  BY <1>1, TailOf
<1>3. /\ \A m \in OccMessage : m.type \in OccTypes
      /\ \A m \in AddressMessage : m.type \in {"MSG_BM_ADDRESS"}
      /\ \A m \in NodeMessage : m.type \in NodeTypes
  BY DEF OccMessage, AddressMessage, NodeMessage
<1>4. \A m \in Message : m \in OccMessage \/ m \in AddressMessage \/ m \in NodeMessage
  BY DEF Message
<1> QED
  BY <1>1, <1>2, <1>3, <1>4

(* The next message is a report, if it is not about a node, and its board   *)
(* is connected.                                                            *)
LEMMA ReportIncoming ==
  ASSUME TypeOK, ReportsInTime, uplink # << >>, Head(uplink) \in OccMessage \cup AddressMessage
  PROVE  /\ Head(uplink).board \in connected
         /\ uplink' = Tail(uplink) /\ connected' = connected /\ plugged' = plugged => ReportsInTime'
<1>1. uplink \in Seq(Message)
  BY DEF TypeOK
<1>2. \A m \in OccMessage \cup AddressMessage : m \notin NodeMessage /\ m.type \notin NodeTypes
  BY DEF OccMessage, AddressMessage, NodeMessage, OccTypes, NodeTypes
<1>3. /\ Head(uplink) = uplink[1] /\ Len(uplink) \in Nat /\ Len(uplink) >= 1
      /\ DOMAIN uplink = 1..Len(uplink) /\ DOMAIN Tail(uplink) = 1..(Len(uplink) - 1)
      /\ Len(Tail(uplink)) = Len(uplink) - 1
      /\ \A i \in 1..(Len(uplink) - 1) : Tail(uplink)[i] = uplink[i + 1]
  BY <1>1, TailOf
<1>4. Joined(uplink, connected, Head(uplink).board, 1)
  BY <1>2, <1>3 DEF ReportsInTime
<1>5. Head(uplink).board \in connected
  BY <1>3, <1>4 DEF Joined
<1>6. \A b : Head(uplink) # [type |-> "MSG_NODE_NEW", board |-> b]
  BY <1>2 DEF NodeTypes
<1>7. ASSUME NEW b, NEW n \in Nat, n >= 1, Joined(uplink, connected, b, n + 1)
      PROVE  Joined(Tail(uplink), connected, b, n)
  BY <1>1, <1>6, <1>7, JoinedTail
<1>8. ASSUME NEW i \in DOMAIN Tail(uplink), Tail(uplink)[i] \notin NodeMessage
      PROVE  Joined(Tail(uplink), connected, Tail(uplink)[i].board, i)
  <2>1. i \in Nat /\ i >= 1 /\ i + 1 \in DOMAIN uplink /\ Tail(uplink)[i] = uplink[i + 1]
    BY <1>3
  <2>2. Joined(uplink, connected, Tail(uplink)[i].board, i + 1)
    BY <1>8, <2>1 DEF ReportsInTime
  <2> QED
    BY <1>7, <2>1, <2>2
<1>9. ASSUME NEW b \in plugged PROVE Joined(Tail(uplink), connected, b, Len(Tail(uplink)) + 1)
  <2>1. Joined(uplink, connected, b, Len(uplink) + 1)
    BY DEF ReportsInTime
  <2>2. Len(uplink) = Len(Tail(uplink)) + 1 /\ Len(uplink) \in Nat /\ Len(uplink) >= 1
    BY <1>3
  <2> QED
    BY <1>7, <2>1, <2>2
<1>10. ASSUME uplink' = Tail(uplink), connected' = connected, plugged' = plugged PROVE ReportsInTime'
  BY <1>8, <1>9, <1>10 DEF ReportsInTime
<1> QED
  BY <1>5, <1>10

(* Handling a report of occupancy: what is stored is what it says.          *)
LEMMA OccupyEffect ==
  ASSUME TypeOK, NEW m \in OccMessage, m.board \in connected, Occupy(m)
  PROVE  /\ occupied' \in [Segment -> BOOLEAN] /\ dcc_addresses' \in [Segment -> SUBSET Decoder]
         /\ \A s \in Segment : occupied'[s] = IF s \in m.of THEN s \in m.occ ELSE occupied[s]
         /\ \A s \in Segment : dcc_addresses'[s] = IF s \in m.of \ m.occ THEN {} ELSE dcc_addresses[s]
<1>1. \A s \in Segment : occupied'[s] = IF s \in m.of THEN s \in m.occ ELSE occupied[s]
  BY DEF Occupy
<1>2. ASSUME NEW s \in Segment PROVE (IF s \in m.of THEN s \in m.occ ELSE occupied[s]) \in BOOLEAN
  <2>1. occupied[s] \in BOOLEAN
    BY DEF TypeOK
  <2>2. (s \in m.occ) \in BOOLEAN
    OBVIOUS
  <2> QED
    BY <2>1, <2>2, Zenon
<1>3. occupied' \in [Segment -> BOOLEAN]
  BY <1>2 DEF Occupy
<1>4. \A s \in Segment : dcc_addresses'[s] = IF s \in m.of \ m.occ THEN {} ELSE dcc_addresses[s]
  BY DEF Occupy
<1>5. dcc_addresses' \in [Segment -> SUBSET Decoder]
  BY DEF Occupy, TypeOK
<1> QED
  BY <1>1, <1>3, <1>4, <1>5

LEMMA ArrivedEffect ==
  ASSUME NEW kind, NEW of, Arrived({<<kind, {s}>> : s \in of})
  PROVE  \A k, s : <<k, {s}>> \in missing' <=> <<k, {s}>> \in missing /\ ~(k = kind /\ s \in of)
<1>1. \A k, s : <<k, {s}>> \in {<<kind, {x}>> : x \in of} <=> k = kind /\ s \in of
  OBVIOUS
<1> QED
  BY <1>1 DEF Arrived

(* A report that is free is followed, also when the first message is taken. *)
LEMMA FreeTail ==
  ASSUME TypeOK, FreeIsFollowed, uplink # << >>, uplink' = Tail(uplink),
         UNCHANGED <<told, at, untold>>
  PROVE  FreeIsFollowed'
<1>1. uplink \in Seq(Message)
  BY DEF TypeOK
<1>2. /\ Len(uplink) \in Nat /\ DOMAIN uplink = 1..Len(uplink) /\ DOMAIN uplink' = 1..(Len(uplink) - 1)
      /\ \A i \in 1..(Len(uplink) - 1) : uplink'[i] = uplink[i + 1]
  BY <1>1, TailOf
<1>3. \A s \in Segment : Pending(s, {"address"})' = Pending(s, {"address"}) /\ Real(s)' = Real(s)
  BY DEF Pending, Real
<1> SUFFICES ASSUME NEW s \in Segment, NEW i \in DOMAIN uplink',
                    <<"address", {s}>> \in told, Real(s),
                    uplink'[i] \in OccOf(s), s \notin uplink'[i].occ, ~Pending(s, {"address"})
             PROVE  \E j \in DOMAIN uplink' : i < j /\ uplink'[j] \in AddressOf(s)
  BY <1>3 DEF FreeIsFollowed
<1>4. i \in 1..(Len(uplink) - 1) /\ i + 1 \in DOMAIN uplink /\ uplink'[i] = uplink[i + 1]
  BY <1>2
<1>5. PICK j \in DOMAIN uplink : i + 1 < j /\ uplink[j] \in AddressOf(s)
  BY <1>4 DEF FreeIsFollowed
<1>6. j - 1 \in 1..(Len(uplink) - 1) /\ (j - 1) + 1 = j /\ i < j - 1
  BY <1>2, <1>4, <1>5
<1> QED
  BY <1>2, <1>5, <1>6

LEMMA HandleOccupancyInv ==
  OccupancyInv /\ HandleOccupancy => OccupancyInv'
<1> SUFFICES ASSUME OccupancyInv, HandleOccupancy PROVE OccupancyInv'
  OBVIOUS
<1> USE DEF OccupancyInv
<1> DEFINE m == Head(uplink)
<1>1. /\ uplink # << >> /\ uplink' = Tail(uplink) /\ uplink' \in Seq(Message)
      /\ m = uplink[1] /\ 1 \in DOMAIN uplink /\ m \in OccMessage
  BY IncomingMessage DEF HandleOccupancy, OccTypes, NodeTypes
<1>2. m.board \in connected /\ ReportsInTime'
  BY <1>1, ReportIncoming DEF HandleOccupancy, boards
<1>3. /\ Occupy(m) /\ UpdateTrains(dcc_addresses')
      /\ Mirror(m) /\ Arrived({<<"occ", {s}>> : s \in m.of})
      /\ UNCHANGED <<reset, connected, at, facing, plugged, secure, untold, unmirrored, told, moves, faults>>
  BY <1>2 DEF HandleOccupancy, track, boards
<1> HIDE DEF m
<1>4. /\ occupied' \in [Segment -> BOOLEAN] /\ dcc_addresses' \in [Segment -> SUBSET Decoder]
      /\ \A s \in Segment : occupied'[s] = IF s \in m.of THEN s \in m.occ ELSE occupied[s]
      /\ \A s \in Segment : dcc_addresses'[s] = IF s \in m.of \ m.occ THEN {} ELSE dcc_addresses[s]
  BY <1>1, <1>2, <1>3, OccupyEffect
<1>5. \A k, s : <<k, {s}>> \in missing' <=> <<k, {s}>> \in missing /\ ~(k = "occ" /\ s \in m.of)
  BY <1>3, ArrivedEffect
<1>6. /\ on_track' \in [Train -> BOOLEAN] /\ orientation' \in [Train -> Orientation]
      /\ TrainsFollowSegments'
  BY <1>3, <1>4, TrainsUpdated
<1> DEFINE M == {x \in OccMessage : x.board \in SecAck}
<1>7. mirrors \in Seq(M) /\ uplink \in Seq(Message)
  BY DEF TypeOK
<1>8. mirrors' = IF m.board \in SecAck THEN Append(mirrors, m) ELSE mirrors
  BY <1>2, <1>3 DEF Mirror
<1>9. m.board \in SecAck => m \in M
  BY <1>1
<1>10. mirrors' \in Seq(M)
  BY <1>7, <1>8, <1>9, AppendOf
<1>11. TypeOK'
  <2>1. missing' \in SUBSET Said({"occ", "address", "mirror"})
    BY <1>3 DEF TypeOK, Arrived
  <2> QED
    BY <1>1, <1>3, <1>4, <1>6, <1>10, <2>1 DEF TypeOK
<1>12. Silent'
  BY <1>1, <1>3, Frames
<1>13. \A s \in Segment : /\ \A kinds : Pending(s, kinds)' = Pending(s, kinds)
                          /\ Real(s)' = Real(s) /\ Decoders(s)' = Decoders(s)
  BY <1>3 DEF Pending, Real, Decoders
<1>14. \A s \in Segment : m \in OccOf(s) <=> s \in m.of
  BY <1>1 DEF OccOf
<1>15. LastReportTrue'
  <2> SUFFICES ASSUME NEW s \in Segment, <<"occ", {s}>> \in told, ~Pending(s, {"occ", "multiple"})
               PROVE  /\ \A i \in DOMAIN uplink' :
                           LastIn(uplink', OccOf(s), i) => (s \in uplink'[i].occ) = Real(s)
                      /\ NoneIn(uplink', OccOf(s)) => occupied'[s] = Real(s) \/ <<"occ", {s}>> \in missing'
    BY <1>3, <1>13 DEF LastReportTrue
  <2>1. /\ \A i \in DOMAIN uplink : LastIn(uplink, OccOf(s), i) => (s \in uplink[i].occ) = Real(s)
        /\ NoneIn(uplink, OccOf(s)) => occupied[s] = Real(s) \/ <<"occ", {s}>> \in missing
    BY DEF LastReportTrue
  <2>2. \A i \in DOMAIN uplink' : LastIn(uplink', OccOf(s), i) => (s \in uplink'[i].occ) = Real(s)
    BY <1>1, <1>7, <2>1, TailLast DEF LastIn
  <2>3. ASSUME NoneIn(uplink', OccOf(s)), s \in m.of PROVE occupied'[s] = Real(s)
    BY <1>1, <1>4, <1>7, <1>14, <2>1, <2>3, TailLast DEF NoneIn
  <2>4. ASSUME NoneIn(uplink', OccOf(s)), s \notin m.of
        PROVE  occupied'[s] = Real(s) \/ <<"occ", {s}>> \in missing'
    <3>1. NoneIn(uplink, OccOf(s))
      BY <1>1, <1>7, <1>14, <2>4, TailLast DEF m
    <3> QED
      BY <1>4, <1>5, <2>1, <2>4, <3>1
  <2> QED
    BY <2>2, <2>3, <2>4
<1>16. MirrorTrue'
  <2> SUFFICES ASSUME NEW s \in Segment, NEW i \in DOMAIN mirrors', LastIn(mirrors', OccOf(s), i)
               PROVE  (s \in mirrors'[i].occ) = occupied'[s]
    BY DEF MirrorTrue
  <2>1. CASE m.board \in SecAck
    <3>1. \/ s \in m.of /\ mirrors'[i] = m
          \/ s \notin m.of /\ LastIn(mirrors, OccOf(s), i) /\ mirrors'[i] = mirrors[i]
      BY <1>7, <1>8, <1>9, <1>14, <2>1, AppendLast
    <3> QED
      BY <1>4, <3>1 DEF MirrorTrue, LastIn
  <2>2. CASE m.board \notin SecAck
    <3>1. mirrors[i] \in M /\ mirrors[i] \in OccOf(s) /\ mirrors' = mirrors
      BY <1>7, <1>8, <2>2 DEF LastIn
    <3>2. BoardOf[s] \in SecAck
      BY <3>1, SegmentFacts DEF OccOf
    <3>3. s \notin m.of
      BY <1>1, <2>2, <3>2, SegmentFacts
    <3> QED
      BY <1>4, <3>1, <3>3 DEF MirrorTrue
  <2> QED
    BY <2>1, <2>2
<1>17. HeardTrue'
  <2> SUFFICES ASSUME NEW s \in Segment, BoardOf[s] \in secure, <<"occ", {s}>> \in told,
                      ~Pending(s, {"occ", "multiple"}), NoneIn(mirrors', OccOf(s)),
                      <<"mirror", {s}>> \notin missing', s \notin unmirrored
               PROVE  occupied'[s] = Real(s)
    BY <1>3, <1>13 DEF HeardTrue
  <2>1. BoardOf[s] \in SecAck
    BY DEF TypeOK
  <2>2. s \notin m.of /\ NoneIn(mirrors, OccOf(s))
    <3>1. CASE m.board \in SecAck
      <4>1. m \in M /\ NoneIn(Append(mirrors, m), OccOf(s))
        BY <1>8, <1>9, <3>1
      <4>2. m \notin OccOf(s) /\ NoneIn(mirrors, OccOf(s))
        <5> HIDE DEF M
        <5> QED
          BY <1>7, <4>1, AppendLast
      <4> QED
        BY <1>14, <4>2
    <3>2. CASE m.board \notin SecAck
      BY <1>1, <1>8, <2>1, <3>2, SegmentFacts
    <3> QED
      BY <3>1, <3>2
  <2>3. <<"mirror", {s}>> \notin missing
    BY <1>5
  <2> QED
    BY <1>4, <2>2, <2>3 DEF HeardTrue
<1>18. LastAddressTrue'
  <2> SUFFICES ASSUME NEW s \in Segment, <<"address", {s}>> \in told, ~Pending(s, {"address"})
               PROVE  /\ \A i \in DOMAIN uplink' :
                           LastIn(uplink', AddressOf(s), i) => uplink'[i].addresses = Decoders(s)
                      /\ NoneIn(uplink', AddressOf(s)) /\ <<"address", {s}>> \notin missing'
                           => dcc_addresses'[s] = Decoders(s)
    BY <1>3, <1>13 DEF LastAddressTrue
  <2>1. /\ \A i \in DOMAIN uplink : LastIn(uplink, AddressOf(s), i) => uplink[i].addresses = Decoders(s)
        /\ NoneIn(uplink, AddressOf(s)) /\ <<"address", {s}>> \notin missing => dcc_addresses[s] = Decoders(s)
    BY DEF LastAddressTrue
  <2>2. \A i \in DOMAIN uplink' : LastIn(uplink', AddressOf(s), i) => uplink'[i].addresses = Decoders(s)
    BY <1>1, <1>7, <2>1, TailLast DEF LastIn
  <2>3. ASSUME NoneIn(uplink', AddressOf(s)), <<"address", {s}>> \notin missing'
        PROVE  dcc_addresses'[s] = Decoders(s)
    <3>1. m \notin AddressOf(s)
      BY <1>1 DEF AddressOf, OccMessage, AddressMessage, OccTypes
    <3>2. NoneIn(uplink, AddressOf(s)) /\ <<"address", {s}>> \notin missing
      BY <1>1, <1>5, <1>7, <2>3, <3>1, TailLast DEF m
    <3>3. CASE s \in m.of \ m.occ
      <4>1. ~Real(s)
        BY <1>1, <1>14, <3>2, <3>3 DEF FreeIsFollowed, NoneIn
      <4> QED
        BY <1>4, <3>3, <4>1, DecodersType
    <3> QED
      BY <1>4, <2>1, <3>2, <3>3
  <2> QED
    BY <2>2, <2>3
<1>19. FreeIsFollowed'
  BY <1>1, <1>3, <1>7, <1>13, FreeTail
<1> QED
  BY <1>2, <1>6, <1>11, <1>12, <1>15, <1>16, <1>17, <1>18, <1>19

LEMMA HandleAddressInv ==
  OccupancyInv /\ HandleAddress => OccupancyInv'
<1> SUFFICES ASSUME OccupancyInv, HandleAddress PROVE OccupancyInv'
  OBVIOUS
<1> USE DEF OccupancyInv
<1> DEFINE m == Head(uplink)
<1>1. /\ uplink # << >> /\ uplink' = Tail(uplink) /\ uplink' \in Seq(Message)
      /\ m = uplink[1] /\ 1 \in DOMAIN uplink /\ m \in AddressMessage
  BY IncomingMessage DEF HandleAddress, OccTypes, NodeTypes
<1>2. m.board \in connected /\ ReportsInTime'
  BY <1>1, ReportIncoming DEF HandleAddress, boards
<1>3. /\ dcc_addresses' = [s \in Segment |-> IF s \in m.of THEN m.addresses ELSE dcc_addresses[s]]
      /\ UpdateTrains(dcc_addresses') /\ Arrived({<<"address", m.of>>})
      /\ UNCHANGED <<reset, connected, occupied, mirrors, at, facing, plugged, secure, untold, unmirrored,
                     told, moves, faults>>
  BY <1>2 DEF HandleAddress, track, boards
<1> HIDE DEF m
<1>4. m.addresses \in SUBSET Decoder /\ \E x \in Segment : m.of = {x}
  BY <1>1 DEF AddressMessage
<1>5. dcc_addresses' \in [Segment -> SUBSET Decoder]
  BY <1>3, <1>4 DEF TypeOK
<1>6. /\ on_track' \in [Train -> BOOLEAN] /\ orientation' \in [Train -> Orientation]
      /\ TrainsFollowSegments'
  BY <1>3, <1>5, TrainsUpdated
<1>7. \A s \in Segment :
        /\ <<"occ", {s}>> \in missing' <=> <<"occ", {s}>> \in missing
        /\ <<"mirror", {s}>> \in missing' <=> <<"mirror", {s}>> \in missing
        /\ s \notin m.of => (<<"address", {s}>> \in missing' <=> <<"address", {s}>> \in missing)
  BY <1>3 DEF Arrived
<1>8. uplink \in Seq(Message)
  BY DEF TypeOK
<1>9. TypeOK'
  <2>1. missing' \in SUBSET Said({"occ", "address", "mirror"})
    BY <1>3 DEF TypeOK, Arrived
  <2> QED
    BY <1>1, <1>3, <1>5, <1>6, <2>1 DEF TypeOK
<1>10. Silent' /\ MirrorTrue'
  BY <1>1, <1>3, Frames
<1>11. \A s \in Segment : /\ \A kinds : Pending(s, kinds)' = Pending(s, kinds)
                          /\ Real(s)' = Real(s) /\ Decoders(s)' = Decoders(s)
  BY <1>3 DEF Pending, Real, Decoders
<1>12. \A s \in Segment : m \notin OccOf(s) /\ (m \in AddressOf(s) <=> s \in m.of)
  BY <1>1 DEF OccOf, AddressOf, OccMessage, AddressMessage, OccTypes
<1>13. LastReportTrue'
  <2> SUFFICES ASSUME NEW s \in Segment, <<"occ", {s}>> \in told, ~Pending(s, {"occ", "multiple"})
               PROVE  /\ \A i \in DOMAIN uplink' :
                           LastIn(uplink', OccOf(s), i) => (s \in uplink'[i].occ) = Real(s)
                      /\ NoneIn(uplink', OccOf(s)) => occupied[s] = Real(s) \/ <<"occ", {s}>> \in missing'
    BY <1>3, <1>11 DEF LastReportTrue
  <2>1. /\ \A i \in DOMAIN uplink : LastIn(uplink, OccOf(s), i) => (s \in uplink[i].occ) = Real(s)
        /\ NoneIn(uplink, OccOf(s)) => occupied[s] = Real(s) \/ <<"occ", {s}>> \in missing
    BY DEF LastReportTrue
  <2>2. \A i \in DOMAIN uplink' : LastIn(uplink', OccOf(s), i) => (s \in uplink'[i].occ) = Real(s)
    BY <1>1, <1>8, <2>1, TailLast DEF LastIn
  <2>3. NoneIn(uplink', OccOf(s)) => NoneIn(uplink, OccOf(s))
    BY <1>1, <1>8, <1>12, TailLast DEF m
  <2> QED
    BY <1>7, <2>1, <2>2, <2>3
<1>14. HeardTrue'
  BY <1>3, <1>7, <1>11 DEF HeardTrue
<1>15. LastAddressTrue'
  <2> SUFFICES ASSUME NEW s \in Segment, <<"address", {s}>> \in told, ~Pending(s, {"address"})
               PROVE  /\ \A i \in DOMAIN uplink' :
                           LastIn(uplink', AddressOf(s), i) => uplink'[i].addresses = Decoders(s)
                      /\ NoneIn(uplink', AddressOf(s)) /\ <<"address", {s}>> \notin missing'
                           => dcc_addresses'[s] = Decoders(s)
    BY <1>3, <1>11 DEF LastAddressTrue
  <2>1. /\ \A i \in DOMAIN uplink : LastIn(uplink, AddressOf(s), i) => uplink[i].addresses = Decoders(s)
        /\ NoneIn(uplink, AddressOf(s)) /\ <<"address", {s}>> \notin missing => dcc_addresses[s] = Decoders(s)
    BY DEF LastAddressTrue
  <2>2. \A i \in DOMAIN uplink' : LastIn(uplink', AddressOf(s), i) => uplink'[i].addresses = Decoders(s)
    BY <1>1, <1>8, <2>1, TailLast, SMTT(20) DEF LastIn
  <2>3. ASSUME NoneIn(uplink', AddressOf(s)), s \in m.of PROVE dcc_addresses'[s] = Decoders(s)
    <3>1. LastIn(uplink, AddressOf(s), 1)
      BY <1>1, <1>8, <1>12, <2>3, TailLast DEF NoneIn
    <3> QED
      BY <1>1, <1>3, <2>1, <2>3, <3>1
  <2>4. ASSUME NoneIn(uplink', AddressOf(s)), <<"address", {s}>> \notin missing', s \notin m.of
        PROVE  dcc_addresses'[s] = Decoders(s)
    <3>1. NoneIn(uplink, AddressOf(s))
      BY <1>1, <1>8, <1>12, <2>4, TailLast DEF m
    <3> QED
      BY <1>3, <1>7, <2>1, <2>4, <3>1
  <2> QED
    BY <2>2, <2>3, <2>4
<1>16. FreeIsFollowed'
  BY <1>1, <1>3, FreeTail
<1> QED
  BY <1>2, <1>6, <1>9, <1>10, <1>13, <1>14, <1>15, <1>16

(* Messages about nodes change neither what is stored of segments nor which *)
(* report is the last.                                                      *)
LEMMA HandleNodeInv ==
  OccupancyInv /\ HandleNode => OccupancyInv'
<1> SUFFICES ASSUME OccupancyInv, HandleNode PROVE OccupancyInv'
  OBVIOUS
<1> USE DEF OccupancyInv
<1> DEFINE m == Head(uplink)
<1>1. /\ uplink # << >> /\ uplink' = Tail(uplink) /\ uplink' \in Seq(Message)
      /\ m = uplink[1] /\ 1 \in DOMAIN uplink /\ m \in NodeMessage
  BY IncomingMessage DEF HandleNode, OccTypes
<1>2. /\ connected' = IF m.type = "MSG_NODE_NEW" THEN connected \cup {m.board} ELSE connected \ {m.board}
      /\ UNCHANGED <<reset, occupied, dcc_addresses, on_track, orientation, mirrors, at, facing,
                     plugged, secure, untold, unmirrored, told, missing, moves, faults>>
  BY DEF HandleNode, track, boards, history
<1>3. uplink \in Seq(Message) /\ m.board \in Board
  BY <1>1 DEF TypeOK, NodeMessage
<1>4. TypeOK'
  BY <1>1, <1>2, <1>3 DEF TypeOK
<1>5. Silent' /\ MirrorTrue' /\ HeardTrue' /\ TrainsFollowSegments'
  BY <1>1, <1>2, Frames
<1>6. FreeIsFollowed'
  BY <1>1, <1>2, FreeTail
<1>7. ReportsInTime'
  <2>1. /\ Len(uplink) \in Nat /\ Len(uplink) >= 1 /\ Len(uplink') = Len(uplink) - 1
        /\ DOMAIN uplink = 1..Len(uplink) /\ DOMAIN uplink' = 1..(Len(uplink) - 1)
        /\ \A i \in 1..(Len(uplink) - 1) : uplink'[i] = uplink[i + 1]
    BY <1>1, <1>3, TailOf
  <2>2. ASSUME NEW b, NEW n \in Nat, n >= 1, Joined(uplink, connected, b, n + 1)
        PROVE  Joined(Tail(uplink), connected', b, n)
    <3>1. m = [type |-> "MSG_NODE_NEW", board |-> b] => b \in connected'
      BY <1>2
    <3>2. m # [type |-> "MSG_NODE_LOST", board |-> b] /\ b \in connected => b \in connected'
      <4>1. m.type \in {"MSG_NODE_LOST", "MSG_NODE_NEW"}
            /\ m = [type |-> m.type, board |-> m.board]
        BY <1>1 DEF NodeMessage, NodeTypes
      <4> QED
        BY <1>2, <4>1
    <3> QED
      BY <1>1, <1>3, <2>2, <3>1, <3>2, JoinedTail
  <2>3. ASSUME NEW i \in DOMAIN uplink', uplink'[i] \notin NodeMessage
        PROVE  Joined(uplink', connected', uplink'[i].board, i)
    <3>1. i \in Nat /\ i >= 1 /\ i + 1 \in DOMAIN uplink /\ uplink'[i] = uplink[i + 1]
      BY <2>1
    <3>2. Joined(uplink, connected, uplink'[i].board, i + 1)
      BY <2>3, <3>1 DEF ReportsInTime
    <3> QED
      BY <1>1, <2>2, <3>1, <3>2
  <2>4. ASSUME NEW b \in plugged PROVE Joined(uplink', connected', b, Len(uplink') + 1)
    <3>1. Joined(uplink, connected, b, Len(uplink) + 1)
      BY DEF ReportsInTime
    <3>2. Len(uplink) = Len(uplink') + 1
      BY <2>1
    <3> QED
      BY <1>1, <2>1, <2>2, <3>1, <3>2
  <2> QED
    BY <1>2, <2>3, <2>4 DEF ReportsInTime
<1>8. ASSUME NEW s \in Segment
      PROVE  /\ m \notin OccOf(s) /\ m \notin AddressOf(s)
             /\ \A kinds : Pending(s, kinds)' = Pending(s, kinds)
             /\ Real(s)' = Real(s) /\ Decoders(s)' = Decoders(s)
  BY <1>1, <1>2 DEF OccOf, AddressOf, OccMessage, AddressMessage, NodeMessage, OccTypes, NodeTypes,
     Pending, Real, Decoders
<1> HIDE DEF m
<1>9. LastReportTrue'
  <2> SUFFICES ASSUME NEW s \in Segment, <<"occ", {s}>> \in told, ~Pending(s, {"occ", "multiple"})
               PROVE  /\ \A i \in DOMAIN uplink' :
                           LastIn(uplink', OccOf(s), i) => (s \in uplink'[i].occ) = Real(s)
                      /\ NoneIn(uplink', OccOf(s)) => occupied[s] = Real(s) \/ <<"occ", {s}>> \in missing
    BY <1>2, <1>8 DEF LastReportTrue
  <2>1. /\ \A i \in DOMAIN uplink : LastIn(uplink, OccOf(s), i) => (s \in uplink[i].occ) = Real(s)
        /\ NoneIn(uplink, OccOf(s)) => occupied[s] = Real(s) \/ <<"occ", {s}>> \in missing
    BY DEF LastReportTrue
  <2>2. \A i \in DOMAIN uplink' : LastIn(uplink', OccOf(s), i) => (s \in uplink'[i].occ) = Real(s)
    BY <1>1, <1>3, <2>1, TailLast DEF LastIn
  <2>3. NoneIn(uplink', OccOf(s)) => NoneIn(uplink, OccOf(s))
    BY <1>1, <1>3, <1>8, TailLast DEF m
  <2> QED
    BY <2>1, <2>2, <2>3
<1>10. LastAddressTrue'
  <2> SUFFICES ASSUME NEW s \in Segment, <<"address", {s}>> \in told, ~Pending(s, {"address"})
               PROVE  /\ \A i \in DOMAIN uplink' :
                           LastIn(uplink', AddressOf(s), i) => uplink'[i].addresses = Decoders(s)
                      /\ NoneIn(uplink', AddressOf(s)) /\ <<"address", {s}>> \notin missing
                           => dcc_addresses[s] = Decoders(s)
    BY <1>2, <1>8 DEF LastAddressTrue
  <2>1. /\ \A i \in DOMAIN uplink : LastIn(uplink, AddressOf(s), i) => uplink[i].addresses = Decoders(s)
        /\ NoneIn(uplink, AddressOf(s)) /\ <<"address", {s}>> \notin missing => dcc_addresses[s] = Decoders(s)
    BY DEF LastAddressTrue
  <2>2. \A i \in DOMAIN uplink' : LastIn(uplink', AddressOf(s), i) => uplink'[i].addresses = Decoders(s)
    <3> SUFFICES ASSUME NEW i \in DOMAIN uplink', LastIn(uplink', AddressOf(s), i)
                 PROVE  uplink'[i].addresses = Decoders(s)
      OBVIOUS
    <3>1. LastIn(uplink, AddressOf(s), i + 1) /\ uplink'[i] = uplink[i + 1]
      BY <1>1, <1>3, TailLast
    <3> QED
      BY <2>1, <3>1 DEF LastIn
  <2>3. NoneIn(uplink', AddressOf(s)) => NoneIn(uplink, AddressOf(s))
    BY <1>1, <1>3, <1>8, TailLast DEF m
  <2> QED
    BY <2>1, <2>2, <2>3
<1> QED
  BY <1>4, <1>5, <1>6, <1>7, <1>9, <1>10

----------------------------------------------------------------------------
(* The steps of the line.                                                   *)

LEMMA LoseReportInv ==
  OccupancyInv /\ LoseReport => OccupancyInv'
<1> SUFFICES ASSUME OccupancyInv, LoseReport PROVE OccupancyInv'
  OBVIOUS
<1> USE DEF OccupancyInv
<1> DEFINE m == Head(uplink)
           lost == IF m.type = "MSG_BM_ADDRESS" THEN {<<"address", m.of>>} ELSE {<<"occ", {s}>> : s \in m.of}
<1>1. uplink \in Seq(Message) /\ uplink # << >> /\ uplink' = Tail(uplink) /\ missing' = missing \cup lost
  BY DEF LoseReport, TypeOK
<1>2. /\ m = uplink[1] /\ 1 \in DOMAIN uplink /\ m \in Message /\ uplink' \in Seq(Message)
  BY <1>1, TailOf
<1>3. m \in OccMessage \cup AddressMessage
  BY <1>2 DEF LoseReport, Message, NodeMessage, NodeTypes
<1>4. /\ UNCHANGED <<reset, connected, occupied, dcc_addresses, on_track, orientation, mirrors, at, facing,
                     plugged, secure, untold, unmirrored, told, moves>>
      /\ faults' = faults + 1
  BY DEF LoseReport, host, track, boards
<1>5. ReportsInTime'
  BY <1>1, <1>3, <1>4, ReportIncoming
<1>6. Silent' /\ MirrorTrue' /\ TrainsFollowSegments'
  BY <1>1, <1>4, Frames
<1>7. FreeIsFollowed'
  BY <1>1, <1>4, FreeTail
<1>8. /\ m \in OccMessage => m.type # "MSG_BM_ADDRESS" /\ m.of \subseteq Segment
      /\ m \in AddressMessage => m.type = "MSG_BM_ADDRESS" /\ \E x \in Segment : m.of = {x}
  BY DEF OccMessage, AddressMessage, OccTypes
<1> HIDE DEF m
<1>9. lost \subseteq Said({"occ", "address", "mirror"})
  <2>1. CASE m \in OccMessage
    BY <1>8, <2>1 DEF Said
  <2>2. CASE m \in AddressMessage
    BY <1>8, <2>2 DEF Said
  <2> QED
    BY <1>3, <2>1, <2>2
<1>10. TypeOK'
  BY <1>1, <1>2, <1>4, <1>9 DEF TypeOK
<1>11. ASSUME NEW s \in Segment
       PROVE  /\ \A kinds : Pending(s, kinds)' = Pending(s, kinds)
              /\ Real(s)' = Real(s) /\ Decoders(s)' = Decoders(s)
              /\ m \in OccOf(s) => <<"occ", {s}>> \in missing'
              /\ m \in AddressOf(s) => <<"address", {s}>> \in missing'
              /\ \A r : r \in missing => r \in missing'
  <2>1. m \in OccOf(s) => <<"occ", {s}>> \in lost
    BY <1>8 DEF OccOf
  <2>2. m \in AddressOf(s) => <<"address", {s}>> \in lost
    BY <1>8 DEF AddressOf
  <2> QED
    BY <1>1, <1>4, <2>1, <2>2 DEF Pending, Real, Decoders
<1>12. LastReportTrue'
  <2> SUFFICES ASSUME NEW s \in Segment, <<"occ", {s}>> \in told, ~Pending(s, {"occ", "multiple"})
               PROVE  /\ \A i \in DOMAIN uplink' :
                           LastIn(uplink', OccOf(s), i) => (s \in uplink'[i].occ) = Real(s)
                      /\ NoneIn(uplink', OccOf(s)) => occupied[s] = Real(s) \/ <<"occ", {s}>> \in missing'
    BY <1>4, <1>11 DEF LastReportTrue
  <2>1. /\ \A i \in DOMAIN uplink : LastIn(uplink, OccOf(s), i) => (s \in uplink[i].occ) = Real(s)
        /\ NoneIn(uplink, OccOf(s)) => occupied[s] = Real(s) \/ <<"occ", {s}>> \in missing
    BY DEF LastReportTrue
  <2>2. ASSUME NEW i \in DOMAIN uplink', LastIn(uplink', OccOf(s), i)
        PROVE  (s \in uplink'[i].occ) = Real(s)
    <3>1. LastIn(uplink, OccOf(s), i + 1) /\ uplink'[i] = uplink[i + 1]
      BY <1>1, <2>2, TailLast
    <3> QED
      BY <2>1, <3>1 DEF LastIn
  <2>3. NoneIn(uplink', OccOf(s)) => NoneIn(uplink, OccOf(s)) \/ m \in OccOf(s)
    BY <1>1, TailLast DEF m
  <2> QED
    BY <1>11, <2>1, <2>2, <2>3
<1>13. HeardTrue'
  BY <1>4, <1>11 DEF HeardTrue
<1>14. LastAddressTrue'
  <2> SUFFICES ASSUME NEW s \in Segment, <<"address", {s}>> \in told, ~Pending(s, {"address"})
               PROVE  /\ \A i \in DOMAIN uplink' :
                           LastIn(uplink', AddressOf(s), i) => uplink'[i].addresses = Decoders(s)
                      /\ NoneIn(uplink', AddressOf(s)) /\ <<"address", {s}>> \notin missing'
                           => dcc_addresses[s] = Decoders(s)
    BY <1>4, <1>11 DEF LastAddressTrue
  <2>1. /\ \A i \in DOMAIN uplink : LastIn(uplink, AddressOf(s), i) => uplink[i].addresses = Decoders(s)
        /\ NoneIn(uplink, AddressOf(s)) /\ <<"address", {s}>> \notin missing => dcc_addresses[s] = Decoders(s)
    BY DEF LastAddressTrue
  <2>2. ASSUME NEW i \in DOMAIN uplink', LastIn(uplink', AddressOf(s), i)
        PROVE  uplink'[i].addresses = Decoders(s)
    <3>1. LastIn(uplink, AddressOf(s), i + 1) /\ uplink'[i] = uplink[i + 1]
      BY <1>1, <2>2, TailLast
    <3> QED
      BY <2>1, <3>1 DEF LastIn
  <2>3. NoneIn(uplink', AddressOf(s)) => NoneIn(uplink, AddressOf(s)) \/ m \in AddressOf(s)
    BY <1>1, TailLast DEF m
  <2> QED
    BY <1>11, <2>1, <2>2, <2>3
<1> QED
  BY <1>5, <1>6, <1>7, <1>10, <1>12, <1>13, <1>14

(* A mirror message that is taken, heard or lost, disturbs only what boards *)
(* have heard.                                                              *)
LEMMA MirrorTail ==
  ASSUME OccupancyInv, mirrors # << >>, mirrors' = Tail(mirrors),
         UNCHANGED <<host, uplink, track, plugged, secure, untold, told, moves>>,
         unmirrored' \in SUBSET Segment, faults' \in Nat,
         missing' \in SUBSET Said({"occ", "address", "mirror"}),
         \A s \in Segment : /\ <<"occ", {s}>> \in missing' <=> <<"occ", {s}>> \in missing
                            /\ <<"address", {s}>> \in missing' <=> <<"address", {s}>> \in missing,
         HeardTrue'
  PROVE  OccupancyInv'
<1> USE DEF OccupancyInv
<1> DEFINE M == {x \in OccMessage : x.board \in SecAck}
<1>1. mirrors \in Seq(M)
  BY DEF TypeOK
<1>2. Tail(mirrors) \in Seq(M)
  BY <1>1, TailOf
<1>3. TypeOK'
  BY <1>2 DEF TypeOK, host, track
<1>4. Silent' /\ ReportsInTime' /\ TrainsFollowSegments' /\ FreeIsFollowed'
  BY Frames DEF host, track
<1>5. LastReportTrue'
  BY DEF LastReportTrue, Pending, Real, host, track
<1>6. LastAddressTrue'
  <2>1. \A s \in Segment : /\ Pending(s, {"address"})' = Pending(s, {"address"})
                           /\ Decoders(s)' = Decoders(s)
    BY DEF Pending, Decoders, track
  <2> QED
    BY <2>1 DEF LastAddressTrue, host
<1>7. MirrorTrue'
  <2> SUFFICES ASSUME NEW s \in Segment, NEW i \in DOMAIN mirrors', LastIn(mirrors', OccOf(s), i)
               PROVE  (s \in mirrors'[i].occ) = occupied[s]
    BY DEF MirrorTrue, host
  <2>1. LastIn(mirrors, OccOf(s), i + 1) /\ mirrors'[i] = mirrors[i + 1]
    BY <1>1, TailLast
  <2> QED
    BY <2>1 DEF MirrorTrue, LastIn
<1> QED
  BY <1>3, <1>4, <1>5, <1>6, <1>7

LEMMA HearMirrorInv ==
  OccupancyInv /\ HearMirror => OccupancyInv'
<1> SUFFICES ASSUME OccupancyInv, HearMirror PROVE OccupancyInv'
  OBVIOUS
<1> USE DEF OccupancyInv
<1> DEFINE m == Head(mirrors)
           M == {x \in OccMessage : x.board \in SecAck}
<1>1. /\ mirrors \in Seq(M) /\ mirrors # << >> /\ mirrors' = Tail(mirrors)
      /\ Arrived({<<"mirror", {s}>> : s \in m.of})
      /\ unmirrored' = IF m.board \in secure
                       THEN (unmirrored \ m.of) \cup {s \in m.of : Real(s) # (s \in m.occ)}
                       ELSE unmirrored
      /\ UNCHANGED <<host, uplink, track, plugged, secure, untold, told, moves, faults>>
  BY DEF HearMirror, TypeOK
<1>2. m = mirrors[1] /\ 1 \in DOMAIN mirrors /\ m \in M
  BY <1>1, TailOf
<1> HIDE DEF m
<1>3. \A k, s : <<k, {s}>> \in missing' <=> <<k, {s}>> \in missing /\ ~(k = "mirror" /\ s \in m.of)
  BY <1>1, ArrivedEffect
<1>4. missing' \in SUBSET Said({"occ", "address", "mirror"})
  BY <1>1 DEF TypeOK, Arrived
<1>5. unmirrored' \in SUBSET Segment
  BY <1>1, <1>2 DEF TypeOK, OccMessage
<1>6. HeardTrue'
  <2> SUFFICES ASSUME NEW s \in Segment, BoardOf[s] \in secure, <<"occ", {s}>> \in told,
                      ~Pending(s, {"occ", "multiple"}), NoneIn(mirrors', OccOf(s)),
                      <<"mirror", {s}>> \notin missing', s \notin unmirrored'
               PROVE  occupied[s] = Real(s)
    BY <1>1 DEF HeardTrue, Pending, Real, host, track
  <2>1. m \in OccOf(s) <=> s \in m.of
    BY <1>2 DEF OccOf
  <2>2. CASE s \in m.of
    <3>1. LastIn(mirrors, OccOf(s), 1)
      BY <1>1, <1>2, <2>1, <2>2, TailLast DEF NoneIn
    <3>2. m.board \in secure
      BY <1>2, <2>2, SegmentFacts
    <3>3. (s \in m.occ) = occupied[s]
      BY <1>2, <3>1 DEF MirrorTrue
    <3>4. ~(Real(s) # (s \in m.occ))
      BY <1>1, <2>2, <3>2
    <3> QED
      BY <3>3, <3>4
  <2>3. CASE s \notin m.of
    <3>1. NoneIn(mirrors, OccOf(s))
      BY <1>1, <2>1, <2>3, TailLast DEF m
    <3>2. s \notin unmirrored
      BY <1>1, <2>3
    <3> QED
      BY <1>3, <2>3, <3>1, <3>2 DEF HeardTrue
  <2> QED
    BY <2>2, <2>3
<1>7. faults' \in Nat
  BY <1>1 DEF TypeOK
<1> QED
  BY <1>1, <1>3, <1>4, <1>5, <1>6, <1>7, MirrorTail

LEMMA LoseMirrorInv ==
  OccupancyInv /\ LoseMirror => OccupancyInv'
<1> SUFFICES ASSUME OccupancyInv, LoseMirror PROVE OccupancyInv'
  OBVIOUS
<1> USE DEF OccupancyInv
<1> DEFINE m == Head(mirrors)
           M == {x \in OccMessage : x.board \in SecAck}
           lost == {<<"mirror", {s}>> : s \in m.of}
<1>1. /\ mirrors \in Seq(M) /\ mirrors # << >> /\ mirrors' = Tail(mirrors)
      /\ missing' = missing \cup lost /\ faults' = faults + 1
      /\ UNCHANGED <<host, uplink, track, plugged, secure, untold, unmirrored, told, moves>>
  BY DEF LoseMirror, TypeOK, boards
<1>2. m \in M
  BY <1>1, TailOf
<1> HIDE DEF m
<1>3. m.of \subseteq Segment
  BY <1>2 DEF OccMessage
<1>4. /\ \A s : <<"mirror", {s}>> \in lost <=> s \in m.of
      /\ \A s : <<"occ", {s}>> \notin lost /\ <<"address", {s}>> \notin lost
      /\ lost \subseteq Said({"occ", "address", "mirror"})
  BY <1>3 DEF Said
<1> HIDE DEF lost
<1>5. missing' \in SUBSET Said({"occ", "address", "mirror"}) /\ unmirrored' \in SUBSET Segment /\ faults' \in Nat
  BY <1>1, <1>4 DEF TypeOK
<1>6. HeardTrue'
  <2> SUFFICES ASSUME NEW s \in Segment, BoardOf[s] \in secure, <<"occ", {s}>> \in told,
                      ~Pending(s, {"occ", "multiple"}), NoneIn(mirrors', OccOf(s)),
                      <<"mirror", {s}>> \notin missing', s \notin unmirrored
               PROVE  occupied[s] = Real(s)
    BY <1>1 DEF HeardTrue, Pending, Real, host, track
  <2>1. s \notin m.of /\ <<"mirror", {s}>> \notin missing
    BY <1>1, <1>4
  <2>2. m \notin OccOf(s)
    BY <2>1 DEF OccOf
  <2>3. NoneIn(mirrors, OccOf(s))
    BY <1>1, <2>2, TailLast DEF m
  <2> QED
    BY <2>1, <2>3 DEF HeardTrue
<1> QED
  BY <1>1, <1>4, <1>5, <1>6, MirrorTail

----------------------------------------------------------------------------
(* What boards have to tell.                                                *)

Has(q, x) == \E k \in DOMAIN q : q[k] = x

LEMMA ConcatOf ==
  ASSUME NEW A, NEW q \in Seq(A), NEW r \in Seq(A)
  PROVE  q \o r \in Seq(A) /\ \A x : Has(q \o r, x) <=> Has(q, x) \/ Has(r, x)
<1>1. q \o r \in Seq(A)
  OBVIOUS
<1>2. /\ Len(q) \in Nat /\ Len(r) \in Nat
      /\ DOMAIN q = 1..Len(q) /\ DOMAIN r = 1..Len(r) /\ DOMAIN (q \o r) = 1..(Len(q) + Len(r))
      /\ \A k \in 1..Len(q) : (q \o r)[k] = q[k]
      /\ \A k \in 1..Len(r) : (q \o r)[Len(q) + k] = r[k]
  OBVIOUS
<1> DEFINE p == q \o r
<1>3. ASSUME NEW x, Has(p, x) PROVE Has(q, x) \/ Has(r, x)
  <2>1. PICK k \in DOMAIN p : p[k] = x
    BY <1>3 DEF Has
  <2>2. CASE k \in 1..Len(q)
    BY <1>2, <2>1, <2>2 DEF Has
  <2>3. CASE k \notin 1..Len(q)
    <3>1. k - Len(q) \in 1..Len(r) /\ Len(q) + (k - Len(q)) = k
      BY <1>2, <2>3
    <3> QED
      BY <1>2, <2>1, <3>1 DEF Has
  <2> QED
    BY <2>2, <2>3
<1> HIDE DEF p
<1>4. ASSUME NEW x, Has(q, x) PROVE Has(p, x)
  BY <1>2, <1>4 DEF Has, p
<1>5. ASSUME NEW x, Has(r, x) PROVE Has(p, x)
  <2>1. PICK k \in DOMAIN r : r[k] = x
    BY <1>5 DEF Has
  <2>2. Len(q) + k \in DOMAIN p /\ p[Len(q) + k] = x
    BY <1>2, <2>1 DEF p
  <2> QED
    BY <2>2 DEF Has
<1> QED
  BY <1>1, <1>3, <1>4, <1>5 DEF p

LEMMA PendingHas ==
  ASSUME NEW s, NEW kinds
  PROVE  Pending(s, kinds) <=> \E x : Has(untold[BoardOf[s]], x) /\ x[1] \in kinds /\ s \in x[2]
BY DEF Pending, Has

LEMMA PendingHasNext ==
  ASSUME NEW s, NEW kinds
  PROVE  Pending(s, kinds)' <=> \E x : Has(untold'[BoardOf[s]], x) /\ x[1] \in kinds /\ s \in x[2]
BY DEF Pending, Has

(* A message is added to the line by a board that is on the bus, or about a *)
(* board that comes or goes.                                                *)
LEMMA AppendInTime ==
  ASSUME TypeOK, ReportsInTime, NEW m \in Message, uplink' = Append(uplink, m), connected' = connected,
         m \notin NodeMessage => m.board \in plugged /\ plugged' = plugged,
         m \in NodeMessage => plugged' = IF m.type = "MSG_NODE_NEW" THEN plugged \cup {m.board}
                                         ELSE plugged \ {m.board}
  PROVE  ReportsInTime'
<1>1. uplink \in Seq(Message)
  BY DEF TypeOK
<1>2. /\ Len(uplink) \in Nat /\ Len(uplink') = Len(uplink) + 1
      /\ DOMAIN uplink = 1..Len(uplink) /\ DOMAIN uplink' = 1..(Len(uplink) + 1)
      /\ \A i \in 1..Len(uplink) : uplink'[i] = uplink[i]
      /\ uplink'[Len(uplink) + 1] = m
  BY <1>1, AppendOf
<1>3. ASSUME NEW b, NEW n \in Nat, n <= Len(uplink) + 1, Joined(uplink, connected, b, n)
      PROVE  Joined(uplink', connected', b, n)
  <2>1. Joined(Append(uplink, m), connected, b, n)
    BY <1>1, <1>3, JoinedAppend
  <2> QED
    BY <2>1
<1>4. ASSUME NEW i \in DOMAIN uplink', uplink'[i] \notin NodeMessage
      PROVE  Joined(uplink', connected', uplink'[i].board, i)
  <2>1. i \in Nat /\ i <= Len(uplink) + 1
    BY <1>2
  <2>2. CASE i \in DOMAIN uplink
    <3>1. Joined(uplink, connected, uplink'[i].board, i)
      BY <1>2, <1>4, <2>2 DEF ReportsInTime
    <3> QED
      BY <1>3, <2>1, <3>1
  <2>3. CASE i = Len(uplink) + 1
    <3>1. Joined(uplink, connected, m.board, i)
      BY <1>2, <1>4, <2>3 DEF ReportsInTime
    <3> QED
      BY <1>2, <1>3, <2>1, <2>3, <3>1
  <2> QED
    BY <1>2, <2>2, <2>3
<1>5. ASSUME NEW b \in plugged' PROVE Joined(uplink', connected', b, Len(uplink') + 1)
  <2>1. Len(uplink') + 1 = Len(uplink) + 2 /\ Len(uplink) + 2 \in Nat
    BY <1>2
  <2>2. m # [type |-> "MSG_NODE_LOST", board |-> b]
    <3>1. CASE m \in NodeMessage
      BY <1>5, <3>1
    <3>2. CASE m \notin NodeMessage
      <4>1. [type |-> "MSG_NODE_LOST", board |-> b] \in NodeMessage
        BY <1>5, <3>2 DEF NodeMessage, NodeTypes, TypeOK
      <4> QED
        BY <3>2, <4>1
    <3> QED
      BY <3>1, <3>2
  <2>3. CASE b \in plugged
    <3>1. Joined(uplink, connected, b, Len(uplink) + 1)
      BY <2>3 DEF ReportsInTime
    <3>2. Joined(uplink, connected, b, Len(uplink) + 2)
      BY <1>2, <3>1 DEF Joined
    <3> QED
      BY <1>1, <2>1, <2>2, <3>2, JoinedAppend
  <2>4. CASE b \notin plugged
    <3>1. m = [type |-> "MSG_NODE_NEW", board |-> b]
      <4>1. m \in NodeMessage /\ m.type = "MSG_NODE_NEW" /\ m.board = b
        BY <1>5, <2>4
      <4> QED
        BY <4>1 DEF NodeMessage
    <3> QED
      BY <1>1, <2>1, <2>2, <3>1, JoinedAppend
  <2> QED
    BY <2>3, <2>4
<1> QED
  BY <1>4, <1>5 DEF ReportsInTime

LEMMA FreeAppend ==
  ASSUME TypeOK, FreeIsFollowed, NEW m \in Message, uplink' = Append(uplink, m), at' = at,
         \A s \in Segment : <<"address", {s}>> \in told' =>
           \/ m \in AddressOf(s)
           \/ <<"address", {s}>> \in told /\ (Pending(s, {"address"}) => Pending(s, {"address"})'),
         \A s \in Segment : m \in OccOf(s) /\ s \notin m.occ => ~Real(s)
  PROVE  FreeIsFollowed'
<1>1. uplink \in Seq(Message)
  BY DEF TypeOK
<1>2. /\ Len(uplink) \in Nat /\ DOMAIN uplink = 1..Len(uplink) /\ DOMAIN uplink' = 1..(Len(uplink) + 1)
      /\ \A i \in 1..Len(uplink) : uplink'[i] = uplink[i]
      /\ uplink'[Len(uplink) + 1] = m
  BY <1>1, AppendOf
<1> SUFFICES ASSUME NEW s \in Segment, NEW i \in DOMAIN uplink', <<"address", {s}>> \in told', Real(s),
                    uplink'[i] \in OccOf(s), s \notin uplink'[i].occ
             PROVE  \/ Pending(s, {"address"})'
                    \/ \E j \in DOMAIN uplink' : i < j /\ uplink'[j] \in AddressOf(s)
  BY DEF FreeIsFollowed, Real
<1>3. i \in DOMAIN uplink /\ uplink'[i] = uplink[i]
  BY <1>2
<1>4. CASE m \in AddressOf(s)
  BY <1>2, <1>3, <1>4
<1>5. CASE <<"address", {s}>> \in told /\ (Pending(s, {"address"}) => Pending(s, {"address"})')
  BY <1>2, <1>3, <1>5 DEF FreeIsFollowed
<1> QED
  BY <1>4, <1>5

LEMMA SysEnableInv ==
  OccupancyInv /\ SysEnable => OccupancyInv'
<1> SUFFICES ASSUME OccupancyInv, SysEnable PROVE OccupancyInv'
  OBVIOUS
<1> USE DEF OccupancyInv
<1>1. /\ reset' = "enabled"
      /\ UNCHANGED <<connected, occupied, dcc_addresses, on_track, orientation, uplink, mirrors, at, facing,
                     plugged, secure, untold, unmirrored, told, missing, moves, faults>>
  BY DEF SysEnable, track, boards, history
<1>2. TypeOK'
  BY <1>1 DEF TypeOK
<1>3. Silent'
  BY <1>1 DEF Silent
<1> QED
  BY <1>1, <1>2, <1>3, Frames

(* More to tell does not disturb the invariant.                             *)
LEMMA MoreToTell ==
  ASSUME OccupancyInv, reset' # "reset" \/ UNCHANGED <<reset, untold>>, \A s \in Segment : \A k : Pending(s, k) => Pending(s, k)',
         \A b \in Board : untold'[b] # << >> => b \in plugged,
         UNCHANGED <<connected, occupied, dcc_addresses, on_track, orientation, uplink, mirrors, plugged,
                     secure, unmirrored, told, missing, faults>>,
         TypeOK',
         \A s \in Segment :
           /\ <<"occ", {s}>> \in told /\ ~Pending(s, {"occ", "multiple"})' => Real(s)' = Real(s)
           /\ <<"address", {s}>> \in told /\ ~Pending(s, {"address"})' => Decoders(s)' = Decoders(s)
           /\ <<"address", {s}>> \in told /\ ~Pending(s, {"address"})' => Real(s)' = Real(s)
  PROVE  OccupancyInv'
<1> USE DEF OccupancyInv
<1>1. Silent'
  BY DEF Silent
<1>2. ReportsInTime' /\ MirrorTrue' /\ TrainsFollowSegments'
  BY Frames
<1>3. LastReportTrue'
  BY DEF LastReportTrue
<1>4. HeardTrue'
  BY DEF HeardTrue
<1>5. LastAddressTrue'
  BY DEF LastAddressTrue
<1>6. FreeIsFollowed'
  BY DEF FreeIsFollowed
<1> QED
  BY <1>1, <1>2, <1>3, <1>4, <1>5, <1>6

LEMMA QueryOccupancyInv ==
  OccupancyInv /\ QueryOccupancy => OccupancyInv'
<1> SUFFICES ASSUME OccupancyInv, QueryOccupancy PROVE OccupancyInv'
  OBVIOUS
<1> USE DEF OccupancyInv
<1>1. /\ reset' = "queried"
      /\ untold' = [b \in Board |-> IF b \in DccMain \cap connected \cap plugged
                                    THEN untold[b] \o Asked(b) ELSE untold[b]]
      /\ UNCHANGED <<connected, occupied, dcc_addresses, on_track, orientation, uplink, mirrors, at, facing,
                     plugged, secure, unmirrored, told, missing, moves, faults>>
  BY DEF QueryOccupancy, track, history
<1>2. \A b \in Board : untold[b] \in Seq(Request(b)) /\ Asked(b) \in Seq(Request(b))
  BY AskedType DEF TypeOK
<1>3. \A b \in Board : untold'[b] \in Seq(Request(b))
  BY <1>1, <1>2, ConcatOf
<1>4. TypeOK'
  BY <1>1, <1>3 DEF TypeOK
<1>5. ASSUME NEW s \in Segment, NEW k, Pending(s, k) PROVE Pending(s, k)'
  <2> DEFINE b == BoardOf[s]
  <2>1. b \in Board
    BY SegmentFacts
  <2>2. \A x : Has(untold[b], x) => Has(untold'[b], x)
    <3>1. \A x : Has(untold[b], x) => Has(untold[b] \o Asked(b), x)
      BY <1>2, <2>1, ConcatOf
    <3> QED
      BY <1>1, <2>1, <3>1
  <2> QED
    BY <1>5, <2>2, PendingHas, PendingHasNext
<1>6. \A b \in Board : untold'[b] # << >> => b \in plugged
  BY <1>1 DEF Silent
<1>7. \A s \in Segment : Real(s)' = Real(s) /\ Decoders(s)' = Decoders(s)
  BY <1>1 DEF Real, Decoders
<1> QED
  BY <1>1, <1>4, <1>5, <1>6, <1>7, MoreToTell

LEMMA MoveInv ==
  ASSUME OccupancyInv, NEW t \in Train, Move(t)
  PROVE  OccupancyInv'
<1> USE DEF OccupancyInv
<1>1. PICK s \in Segment :
        /\ at' = [at EXCEPT ![t] = IF s \in @ THEN @ \ {s} ELSE @ \cup {s}]
        /\ IF at[t] = {} THEN \E d \in Orientation : facing' = [facing EXCEPT ![t] = d]
           ELSE UNCHANGED facing
        /\ untold' = [untold EXCEPT ![BoardOf[s]] =
             IF reset = "reset" \/ BoardOf[s] \notin plugged THEN @
             ELSE @ \o (IF Real(s)' # Real(s) THEN << <<"occ", {s}>> >> ELSE << >>)
                    \o << <<"address", {s}>> >>]
  BY DEF Move
<1>2. /\ moves' = moves + 1
      /\ UNCHANGED <<reset, connected, occupied, dcc_addresses, on_track, orientation, uplink, mirrors,
                     plugged, secure, unmirrored, told, missing, faults>>
  BY DEF Move, host
<1> PICK changes \in BOOLEAN : changes = (Real(s)' # Real(s))
  OBVIOUS
<1> DEFINE b == BoardOf[s]
           silent == reset = "reset" \/ b \notin plugged
           one == IF changes THEN << <<"occ", {s}>> >> ELSE << >>
           two == << <<"address", {s}>> >>
<1>3. b \in Board /\ s \in SegmentsOf(b)
  BY SegmentFacts
<1>4. /\ untold[b] \in Seq(Request(b)) /\ one \in Seq(Request(b)) /\ two \in Seq(Request(b))
      /\ \A c \in Board : untold[c] \in Seq(Request(c)) /\ (c # b => untold'[c] = untold[c])
      /\ untold = [c \in Board |-> untold[c]]
  <2>1. <<"occ", {s}>> \in Request(b) /\ <<"address", {s}>> \in Request(b)
    BY <1>3 DEF Request
  <2>2. two \in Seq(Request(b))
    BY <2>1
  <2>3. one \in Seq(Request(b))
    <3>1. CASE changes
      <4>1. << <<"occ", {s}>> >> \in Seq(Request(b))
        BY <2>1
      <4> QED
        BY <3>1, <4>1, Zenon
    <3>2. CASE ~changes
      BY <3>2
    <3> QED
      BY <3>1, <3>2
  <2> QED
    BY <1>1, <1>3, <2>2, <2>3 DEF TypeOK
<1>5. untold'[b] = IF silent THEN untold[b] ELSE (untold[b] \o one) \o two
  BY <1>1, <1>3, <1>4
<1> DEFINE p == untold[b]
           q == p \o one
           r == q \o two
<1>15. /\ Has(two, <<"address", {s}>>)
       /\ changes => Has(one, <<"occ", {s}>>)
  <2>1. Has(two, <<"address", {s}>>)
    BY DEF Has
  <2>2. ASSUME changes PROVE Has(one, <<"occ", {s}>>)
    <3>1. one = << <<"occ", {s}>> >>
      BY <2>2
    <3> QED
      BY <3>1 DEF Has
  <2> QED
    BY <2>1, <2>2
<1>16. p \in Seq(Request(b)) /\ one \in Seq(Request(b)) /\ two \in Seq(Request(b))
  BY <1>4
<1> HIDE DEF p, one, two
<1>17. q \in Seq(Request(b)) /\ \A x : Has(q, x) <=> Has(p, x) \/ Has(one, x)
  BY <1>16, ConcatOf
<1> HIDE DEF q
<1>18. r \in Seq(Request(b)) /\ \A x : Has(r, x) <=> Has(q, x) \/ Has(two, x)
  BY <1>16, <1>17, ConcatOf
<1>19. untold'[b] = IF silent THEN p ELSE r
  BY <1>5 DEF p, q
<1> HIDE DEF r, silent
<1>7. TypeOK'
  <2>1. at' \in [Train -> SUBSET Segment]
    BY <1>1 DEF TypeOK
  <2>2. facing' \in [Train -> Orientation]
    BY <1>1 DEF TypeOK
  <2>3. untold' = [c \in Board |-> untold'[c]] /\ \A c \in Board : untold'[c] \in Seq(Request(c))
    BY <1>1, <1>4, <1>16, <1>18, <1>19
  <2> QED
    BY <1>2, <2>1, <2>2, <2>3 DEF TypeOK
<1>8. ~silent => /\ Pending(s, {"address"})'
                 /\ Real(s)' # Real(s) => Pending(s, {"occ", "multiple"})'
  <2> SUFFICES ASSUME ~silent
               PROVE  /\ Pending(s, {"address"})'
                      /\ changes => Pending(s, {"occ", "multiple"})'
    OBVIOUS
  <2>1. Has(untold'[b], <<"address", {s}>>) /\ (changes => Has(untold'[b], <<"occ", {s}>>))
    BY <1>15, <1>17, <1>18, <1>19
  <2> QED
    BY <2>1, PendingHasNext
<1>9. ASSUME NEW u \in Segment, NEW k, Pending(u, k) PROVE Pending(u, k)'
  <2>1. BoardOf[u] \in Board
    BY SegmentFacts
  <2>2. ASSUME NEW x, Has(untold[BoardOf[u]], x) PROVE Has(untold'[BoardOf[u]], x)
    <3>1. CASE BoardOf[u] = b
      <4>1. Has(p, x) /\ Has(r, x)
        BY <1>17, <1>18, <2>2, <3>1 DEF p
      <4> QED
        BY <1>19, <3>1, <4>1
    <3>2. CASE BoardOf[u] # b
      BY <1>4, <2>1, <2>2, <3>2
    <3> QED
      BY <3>1, <3>2
  <2> QED
    BY <1>9, <2>2, PendingHas, PendingHasNext
<1>10. ASSUME NEW u \in Segment, u # s PROVE Real(u)' = Real(u) /\ Decoders(u)' = Decoders(u)
  <2>1. \A v \in Train : u \in at'[v] <=> u \in at[v]
    BY <1>1, <1>10 DEF TypeOK
  <2>2. \A v \in Train : u \in at[v] => facing'[v] = facing[v]
    BY <1>1 DEF TypeOK
  <2>3. Real(u)' = Real(u)
    BY <2>1 DEF Real
  <2>4. Decoders(u)' = Decoders(u)
    BY <2>1, <2>2 DEF Decoders
  <2> QED
    BY <2>3, <2>4
<1>11. <<"occ", {s}>> \in told \/ <<"address", {s}>> \in told => ~silent
  BY DEF Silent, silent
<1>12. \A c \in Board : untold'[c] # << >> => c \in plugged
  BY <1>4, <1>19 DEF Silent, silent, p
<1>13. reset' # "reset" \/ UNCHANGED <<reset, untold>>
  BY <1>1, <1>2, <1>3 DEF TypeOK
<1>14. /\ <<"occ", {s}>> \in told /\ ~Pending(s, {"occ", "multiple"})' => Real(s)' = Real(s)
       /\ <<"address", {s}>> \in told => Pending(s, {"address"})'
  BY <1>8, <1>11
<1> HIDE DEF b
<1> QED
  BY <1>2, <1>7, <1>9, <1>10, <1>12, <1>13, <1>14, MoreToTell

(* A board tells the occupancy of some of its segments, as it is.           *)
LEMMA TellInv ==
  ASSUME OccupancyInv, NEW b \in Board, NEW type \in OccTypes, NEW of \in SUBSET SegmentsOf(b),
         Tell(b, type, of), reset # "reset",
         untold' = [c \in Board |-> untold'[c]] /\ \A c \in Board : untold'[c] \in Seq(Request(c)),
         \A c \in Board : untold'[c] # << >> => c \in plugged,
         \A s \in Segment : /\ Pending(s, {"occ", "multiple"}) => s \in of \/ Pending(s, {"occ", "multiple"})'
                            /\ Pending(s, {"address"}) => Pending(s, {"address"})'
  PROVE  OccupancyInv'
<1> USE DEF OccupancyInv
<1> PICK m : m = Occupancy(b, type, of)
  OBVIOUS
<1>1. /\ b \in plugged /\ uplink' = Append(uplink, m)
      /\ unmirrored' = unmirrored \cup (IF b \in secure THEN of ELSE {})
      /\ told' = told \cup {<<"occ", {s}>> : s \in of}
      /\ UNCHANGED <<reset, connected, occupied, dcc_addresses, on_track, orientation, mirrors, at, facing,
                     plugged, secure, missing, moves, faults>>
  BY DEF Tell, host, track, history
<1>2. /\ m = [type |-> type, board |-> b, of |-> of, occ |-> {s \in of : Real(s)}]
      /\ of \subseteq Segment
  BY DEF Occupancy, SegmentsOf
<1>3. m \in OccMessage /\ m.board = b /\ m.of = of /\ \A s \in of : s \in m.occ <=> Real(s)
  BY <1>2 DEF OccMessage
<1>4. m \in Message /\ m \notin NodeMessage /\ \A s \in Segment : m \notin AddressOf(s)
  BY <1>2, <1>3 DEF Message, NodeMessage, AddressOf, AddressMessage, NodeTypes, OccTypes
<1>5. \A s \in Segment : m \in OccOf(s) <=> s \in of
  BY <1>3 DEF OccOf
<1>6. uplink \in Seq(Message) /\ uplink' \in Seq(Message)
  BY <1>1, <1>4, AppendOf DEF TypeOK
<1>7. \A s \in Segment : s \in of => BoardOf[s] = b
  BY DEF SegmentsOf
<1>8. /\ \A s \in Segment : <<"occ", {s}>> \in told' <=> <<"occ", {s}>> \in told \/ s \in of
      /\ \A s \in Segment : <<"address", {s}>> \in told' <=> <<"address", {s}>> \in told
      /\ told' \in SUBSET Said({"occ", "address"})
  <2> DEFINE new == {<<"occ", {s}>> : s \in of}
  <2>1. /\ \A s : <<"occ", {s}>> \in new <=> s \in of
        /\ \A s : <<"address", {s}>> \notin new
        /\ new \subseteq Said({"occ", "address"})
    <3>1. new \subseteq Said({"occ", "address"})
      BY <1>2 DEF Said
    <3>2. \A s : <<"occ", {s}>> \in new <=> s \in of
      OBVIOUS
    <3>3. \A s : <<"address", {s}>> \notin new
      OBVIOUS
    <3> QED
      BY <3>1, <3>2, <3>3
  <2> HIDE DEF new
  <2>2. told' = told \cup new
    BY <1>1 DEF new
  <2> QED
    BY <2>1, <2>2 DEF TypeOK
<1>9. TypeOK'
  <2>1. unmirrored' \in SUBSET Segment
    BY <1>1, <1>2 DEF TypeOK
  <2> QED
    BY <1>1, <1>6, <1>8, <2>1 DEF TypeOK
<1>10. Silent'
  BY <1>1, <1>7, <1>8 DEF Silent
<1>11. ReportsInTime'
  BY <1>1, <1>3, <1>4, AppendInTime
<1>12. MirrorTrue' /\ TrainsFollowSegments'
  BY <1>1, Frames
<1>13. \A s \in Segment : Real(s)' = Real(s) /\ Decoders(s)' = Decoders(s)
  BY <1>1 DEF Real, Decoders
<1>14. FreeIsFollowed'
  BY <1>1, <1>3, <1>4, <1>5, <1>8, FreeAppend
<1>15. LastReportTrue'
  <2> SUFFICES ASSUME NEW s \in Segment, <<"occ", {s}>> \in told', ~Pending(s, {"occ", "multiple"})'
               PROVE  /\ \A i \in DOMAIN uplink' :
                           LastIn(uplink', OccOf(s), i) => (s \in uplink'[i].occ) = Real(s)
                      /\ NoneIn(uplink', OccOf(s)) => occupied[s] = Real(s) \/ <<"occ", {s}>> \in missing
    BY <1>1, <1>13 DEF LastReportTrue
  <2>1. CASE s \in of
    <3>1. \A i \in DOMAIN uplink' : LastIn(uplink', OccOf(s), i) => uplink'[i] = m
      BY <1>1, <1>4, <1>5, <1>6, <2>1, AppendLast
    <3>2. ~NoneIn(uplink', OccOf(s))
      BY <1>1, <1>4, <1>5, <1>6, <2>1, AppendLast
    <3>3. (s \in m.occ) <=> Real(s)
      BY <1>3, <2>1
    <3>4. Real(s) \in BOOLEAN
      BY DEF Real
    <3>5. (s \in m.occ) = Real(s)
      BY <3>3, <3>4
    <3> QED
      BY <3>1, <3>2, <3>5
  <2>2. CASE s \notin of
    <3>1. \A i \in DOMAIN uplink' :
            LastIn(uplink', OccOf(s), i) => LastIn(uplink, OccOf(s), i) /\ uplink'[i] = uplink[i]
      BY <1>1, <1>4, <1>5, <1>6, <2>2, AppendLast
    <3>2. NoneIn(uplink', OccOf(s)) => NoneIn(uplink, OccOf(s))
      BY <1>1, <1>4, <1>5, <1>6, <2>2, AppendLast
    <3>3. <<"occ", {s}>> \in told /\ ~Pending(s, {"occ", "multiple"})
      BY <1>8, <2>2
    <3> QED
      BY <3>1, <3>2, <3>3 DEF LastReportTrue, LastIn
  <2> QED
    BY <2>1, <2>2
<1>16. HeardTrue'
  <2> SUFFICES ASSUME NEW s \in Segment, BoardOf[s] \in secure, <<"occ", {s}>> \in told',
                      ~Pending(s, {"occ", "multiple"})', NoneIn(mirrors, OccOf(s)),
                      <<"mirror", {s}>> \notin missing, s \notin unmirrored'
               PROVE  occupied[s] = Real(s)
    BY <1>1, <1>13 DEF HeardTrue
  <2>1. s \notin of /\ s \notin unmirrored
    BY <1>1, <1>7
  <2> QED
    BY <1>8, <2>1 DEF HeardTrue
<1>17. LastAddressTrue'
  <2> SUFFICES ASSUME NEW s \in Segment, <<"address", {s}>> \in told', ~Pending(s, {"address"})'
               PROVE  /\ \A i \in DOMAIN uplink' :
                           LastIn(uplink', AddressOf(s), i) => uplink'[i].addresses = Decoders(s)
                      /\ NoneIn(uplink', AddressOf(s)) /\ <<"address", {s}>> \notin missing
                           => dcc_addresses[s] = Decoders(s)
    BY <1>1, <1>13 DEF LastAddressTrue
  <2>1. \A i \in DOMAIN uplink' :
          LastIn(uplink', AddressOf(s), i) => LastIn(uplink, AddressOf(s), i) /\ uplink'[i] = uplink[i]
    BY <1>1, <1>4, <1>6, AppendLast
  <2>2. NoneIn(uplink', AddressOf(s)) => NoneIn(uplink, AddressOf(s))
    BY <1>1, <1>4, <1>6, AppendLast
  <2>3. <<"address", {s}>> \in told /\ ~Pending(s, {"address"})
    BY <1>8
  <2> QED
    BY <2>1, <2>2, <2>3 DEF LastAddressTrue, LastIn
<1> QED
  BY <1>9, <1>10, <1>11, <1>12, <1>14, <1>15, <1>16, <1>17

(* The next of what a board has to tell is taken.                           *)
LEMMA UntoldTail ==
  ASSUME TypeOK, Silent, NEW b \in Board, untold[b] # << >>, untold' = [untold EXCEPT ![b] = Tail(@)]
  PROVE  /\ untold' = [c \in Board |-> untold'[c]] /\ \A c \in Board : untold'[c] \in Seq(Request(c))
         /\ \A c \in Board : untold'[c] # << >> => c \in plugged
         /\ Head(untold[b]) \in Request(b)
         /\ \A s \in Segment : \A kinds : Pending(s, kinds) =>
              \/ Pending(s, kinds)'
              \/ Head(untold[b])[1] \in kinds /\ s \in Head(untold[b])[2]
<1> PICK q \in Seq(Request(b)) : q = untold[b]
  BY DEF TypeOK
<1>1. /\ untold'[b] = Tail(q) /\ \A c \in Board : c # b => untold'[c] = untold[c]
      /\ untold' = [c \in Board |-> untold'[c]]
  BY DEF TypeOK
<1>2. Head(q) \in Request(b) /\ Tail(q) \in Seq(Request(b))
  BY TailOf
<1>3. \A c \in Board : untold'[c] \in Seq(Request(c))
  BY <1>1, <1>2 DEF TypeOK
<1>4. \A c \in Board : untold'[c] # << >> => c \in plugged
  BY <1>1 DEF Silent
<1>5. ASSUME NEW x, Has(q, x) PROVE Has(Tail(q), x) \/ x = Head(q)
  <2>1. PICK k \in DOMAIN q : q[k] = x
    BY <1>5 DEF Has
  <2> DEFINE r == Tail(q)
  <2>2. /\ Head(q) = q[1] /\ Len(q) \in Nat /\ DOMAIN q = 1..Len(q) /\ DOMAIN r = 1..(Len(q) - 1)
        /\ \A i \in 1..(Len(q) - 1) : r[i] = q[i + 1]
    BY TailOf
  <2> HIDE DEF r
  <2>3. CASE k # 1
    <3>1. k - 1 \in 1..(Len(q) - 1) /\ (k - 1) + 1 = k
      BY <2>1, <2>2, <2>3
    <3>2. k - 1 \in DOMAIN r /\ r[k - 1] = x
      BY <2>1, <2>2, <3>1
    <3> QED
      BY <3>2 DEF Has, r
  <2> QED
    BY <2>1, <2>2, <2>3
<1>6. ASSUME NEW s \in Segment, NEW kinds, Pending(s, kinds)
      PROVE  \/ Pending(s, kinds)'
             \/ Head(untold[b])[1] \in kinds /\ s \in Head(untold[b])[2]
  <2>1. PICK x : Has(untold[BoardOf[s]], x) /\ x[1] \in kinds /\ s \in x[2]
    BY <1>6, PendingHas
  <2>2. BoardOf[s] \in Board
    BY SegmentFacts
  <2>3. CASE BoardOf[s] = b
    BY <1>1, <1>5, <2>1, <2>3, PendingHasNext
  <2>4. CASE BoardOf[s] # b
    BY <1>1, <2>1, <2>2, <2>4, PendingHasNext
  <2> QED
    BY <2>3, <2>4
<1> QED
  BY <1>1, <1>2, <1>3, <1>4, <1>6

(* A board tells the addresses on one of its segments.                      *)
LEMMA TellAddressInv ==
  ASSUME OccupancyInv, NEW b \in Board, untold[b] # << >>, untold' = [untold EXCEPT ![b] = Tail(@)],
         NEW x \in SegmentsOf(b), Head(untold[b]) = <<"address", {x}>>,
         uplink' = Append(uplink, [type |-> "MSG_BM_ADDRESS", board |-> b,
                                   of |-> {x}, addresses |-> Decoders(x)]),
         told' = told \cup {<<"address", {x}>>},
         UNCHANGED <<host, mirrors, track, plugged, secure, unmirrored, history>>
  PROVE  OccupancyInv'
<1> USE DEF OccupancyInv
<1> PICK m : m = [type |-> "MSG_BM_ADDRESS", board |-> b, of |-> {x}, addresses |-> Decoders(x)]
  OBVIOUS
<1>1. /\ uplink' = Append(uplink, m)
      /\ UNCHANGED <<reset, connected, occupied, dcc_addresses, on_track, orientation, mirrors, at, facing,
                     plugged, secure, unmirrored, missing, moves, faults>>
  BY DEF host, track, history
<1>2. x \in Segment /\ BoardOf[x] = b /\ b \in plugged /\ reset # "reset"
  BY DEF SegmentsOf, Silent
<1>3. m \in AddressMessage
  BY <1>2, DecodersType DEF AddressMessage
<1>4. /\ m \in Message /\ m \notin NodeMessage /\ m.board = b /\ m.addresses = Decoders(x)
      /\ \A s \in Segment : m \notin OccOf(s) /\ (m \in AddressOf(s) <=> s = x)
  BY <1>3 DEF Message, NodeMessage, AddressOf, OccOf, OccMessage, NodeTypes, OccTypes
<1>5. /\ untold' = [c \in Board |-> untold'[c]] /\ \A c \in Board : untold'[c] \in Seq(Request(c))
      /\ \A c \in Board : untold'[c] # << >> => c \in plugged
      /\ \A s \in Segment : \A kinds : Pending(s, kinds) =>
           \/ Pending(s, kinds)'
           \/ Head(untold[b])[1] \in kinds /\ s \in Head(untold[b])[2]
  BY UntoldTail
<1>6. \A s \in Segment : /\ Pending(s, {"occ", "multiple"}) => Pending(s, {"occ", "multiple"})'
                         /\ s # x /\ Pending(s, {"address"}) => Pending(s, {"address"})'
  <2>1. Head(untold[b])[1] = "address" /\ Head(untold[b])[2] = {x}
    OBVIOUS
  <2>2. Head(untold[b])[1] \notin {"occ", "multiple"}
    BY <2>1
  <2>3. \A s \in Segment : s # x => s \notin Head(untold[b])[2]
    BY <2>1
  <2> QED
    BY <1>5, <2>2, <2>3
<1>7. /\ \A s \in Segment : <<"occ", {s}>> \in told' <=> <<"occ", {s}>> \in told
      /\ \A s \in Segment : <<"address", {s}>> \in told' <=> <<"address", {s}>> \in told \/ s = x
      /\ told' \in SUBSET Said({"occ", "address"})
  <2>1. <<"address", {x}>> \in Said({"occ", "address"})
    BY <1>2 DEF Said
  <2> QED
    BY <2>1 DEF TypeOK
<1>8. uplink \in Seq(Message) /\ uplink' \in Seq(Message)
  BY <1>1, <1>4, AppendOf DEF TypeOK
<1>9. TypeOK'
  BY <1>1, <1>5, <1>7, <1>8 DEF TypeOK
<1>10. Silent'
  BY <1>1, <1>2, <1>5, <1>7 DEF Silent
<1>11. ReportsInTime'
  BY <1>1, <1>2, <1>4, AppendInTime
<1>12. MirrorTrue' /\ TrainsFollowSegments'
  BY <1>1, Frames
<1>13. \A s \in Segment : Real(s)' = Real(s) /\ Decoders(s)' = Decoders(s)
  BY <1>1 DEF Real, Decoders
<1>14. FreeIsFollowed'
  BY <1>1, <1>4, <1>6, <1>7, FreeAppend
<1>15. LastReportTrue'
  <2> SUFFICES ASSUME NEW s \in Segment, <<"occ", {s}>> \in told', ~Pending(s, {"occ", "multiple"})'
               PROVE  /\ \A i \in DOMAIN uplink' :
                           LastIn(uplink', OccOf(s), i) => (s \in uplink'[i].occ) = Real(s)
                      /\ NoneIn(uplink', OccOf(s)) => occupied[s] = Real(s) \/ <<"occ", {s}>> \in missing
    BY <1>1, <1>13 DEF LastReportTrue
  <2>4. m \in Message /\ m \notin OccOf(s) /\ uplink \in Seq(Message) /\ uplink' = Append(uplink, m)
    BY <1>1, <1>4, <1>8
  <2>1. \A i \in DOMAIN uplink' :
          LastIn(uplink', OccOf(s), i) => LastIn(uplink, OccOf(s), i) /\ uplink'[i] = uplink[i]
    BY <2>4, AppendLast
  <2>2. NoneIn(uplink', OccOf(s)) => NoneIn(uplink, OccOf(s))
    BY <2>4, AppendLast
  <2>3. <<"occ", {s}>> \in told /\ ~Pending(s, {"occ", "multiple"})
    BY <1>6, <1>7
  <2> QED
    BY <2>1, <2>2, <2>3, ZenonT(40) DEF LastReportTrue, LastIn
<1>16. HeardTrue'
  BY <1>1, <1>6, <1>7, <1>13 DEF HeardTrue
<1>17. LastAddressTrue'
  <2> SUFFICES ASSUME NEW s \in Segment, <<"address", {s}>> \in told', ~Pending(s, {"address"})'
               PROVE  /\ \A i \in DOMAIN uplink' :
                           LastIn(uplink', AddressOf(s), i) => uplink'[i].addresses = Decoders(s)
                      /\ NoneIn(uplink', AddressOf(s)) /\ <<"address", {s}>> \notin missing
                           => dcc_addresses[s] = Decoders(s)
    BY <1>1, <1>13 DEF LastAddressTrue
  <2>1. CASE s = x
    <3>4. m \in Message /\ m \in AddressOf(s) /\ uplink \in Seq(Message) /\ uplink' = Append(uplink, m)
      BY <1>1, <1>4, <1>8, <2>1
    <3>1. \A i \in DOMAIN uplink' : LastIn(uplink', AddressOf(s), i) => uplink'[i] = m
      BY <3>4, AppendLast
    <3>2. ~NoneIn(uplink', AddressOf(s))
      BY <3>4, AppendLast
    <3> QED
      BY <1>4, <2>1, <3>1, <3>2
  <2>2. CASE s # x
    <3>4. m \in Message /\ m \notin AddressOf(s) /\ uplink \in Seq(Message) /\ uplink' = Append(uplink, m)
      BY <1>1, <1>4, <1>8, <2>2
    <3>1. \A i \in DOMAIN uplink' :
            LastIn(uplink', AddressOf(s), i) => LastIn(uplink, AddressOf(s), i) /\ uplink'[i] = uplink[i]
      BY <3>4, AppendLast
    <3>2. NoneIn(uplink', AddressOf(s)) => NoneIn(uplink, AddressOf(s))
      BY <3>4, AppendLast
    <3>3. <<"address", {s}>> \in told /\ ~Pending(s, {"address"})
      BY <1>6, <1>7, <2>2
    <3>5. /\ \A i \in DOMAIN uplink : LastIn(uplink, AddressOf(s), i) => uplink[i].addresses = Decoders(s)
          /\ NoneIn(uplink, AddressOf(s)) /\ <<"address", {s}>> \notin missing
               => dcc_addresses[s] = Decoders(s)
      BY <3>3 DEF LastAddressTrue
    <3>6. \A i : LastIn(uplink, AddressOf(s), i) => i \in DOMAIN uplink
      BY DEF LastIn
    <3> QED
      BY <3>1, <3>2, <3>5, <3>6
  <2> QED
    BY <2>1, <2>2
<1> QED
  BY <1>9, <1>10, <1>11, <1>12, <1>14, <1>15, <1>16, <1>17

LEMMA TellNextInv ==
  ASSUME OccupancyInv, NEW b \in Board, TellNext(b)
  PROVE  OccupancyInv'
<1> USE DEF OccupancyInv
<1> PICK kind, of : kind = Head(untold[b])[1] /\ of = Head(untold[b])[2]
  OBVIOUS
<1>1. /\ untold[b] # << >> /\ untold' = [untold EXCEPT ![b] = Tail(@)]
      /\ \/ kind = "multiple" /\ Tell(b, "MSG_BM_MULTIPLE", of)
         \/ kind = "occ" /\ \E s \in of : Tell(b, OccOrFree(s), of)
         \/ /\ kind = "address"
            /\ \E s \in of : uplink' = Append(uplink, [type |-> "MSG_BM_ADDRESS", board |-> b,
                                                      of |-> of, addresses |-> Decoders(s)])
            /\ told' = told \cup {<<"address", of>>}
            /\ UNCHANGED <<host, mirrors, track, plugged, secure, unmirrored, history>>
  BY DEF TellNext
<1>2. /\ untold' = [c \in Board |-> untold'[c]] /\ \A c \in Board : untold'[c] \in Seq(Request(c))
      /\ \A c \in Board : untold'[c] # << >> => c \in plugged
      /\ Head(untold[b]) \in Request(b)
      /\ \A s \in Segment : \A kinds : Pending(s, kinds) =>
           Pending(s, kinds)' \/ (kind \in kinds /\ s \in of)
  BY <1>1, UntoldTail
<1>3. of \in SUBSET SegmentsOf(b) /\ (kind = "address" => \E x \in SegmentsOf(b) : of = {x})
  BY <1>2 DEF Request
<1>4. Head(untold[b]) = <<kind, of>> /\ reset # "reset"
  BY <1>1, <1>2 DEF Request, Silent
<1>5. CASE kind \in {"occ", "multiple"}
  <2>1. PICK type \in OccTypes : Tell(b, type, of)
    BY <1>1, <1>5 DEF OccOrFree, OccTypes
  <2>2. \A s \in Segment : /\ Pending(s, {"occ", "multiple"}) => s \in of \/ Pending(s, {"occ", "multiple"})'
                           /\ Pending(s, {"address"}) => Pending(s, {"address"})'
    BY <1>2, <1>5
  <2> QED
    BY <1>2, <1>3, <1>4, <2>1, <2>2, TellInv
<1>6. CASE kind = "address"
  <2>1. PICK x \in SegmentsOf(b) : of = {x}
    BY <1>3, <1>6
  <2>2. /\ uplink' = Append(uplink, [type |-> "MSG_BM_ADDRESS", board |-> b,
                                     of |-> {x}, addresses |-> Decoders(x)])
        /\ told' = told \cup {<<"address", {x}>>}
        /\ UNCHANGED <<host, mirrors, track, plugged, secure, unmirrored, history>>
    BY <1>1, <1>6, <2>1
  <2> QED
    BY <1>1, <1>4, <1>6, <2>1, <2>2, TellAddressInv
<1> QED
  BY <1>1, <1>5, <1>6

LEMMA TellAgainInv ==
  ASSUME OccupancyInv, NEW b \in Board, TellAgain(b)
  PROVE  OccupancyInv'
<1> USE DEF OccupancyInv
<1>1. PICK s \in unmirrored \cap SegmentsOf(b) : Tell(b, OccOrFree(s), {s})
  BY DEF TellAgain
<1>2. untold' = untold /\ reset # "reset" /\ OccOrFree(s) \in OccTypes
  BY <1>1 DEF TellAgain, Silent, OccOrFree, OccTypes
<1>3. \A u \in Segment : \A kinds : Pending(u, kinds)' = Pending(u, kinds)
  BY <1>2 DEF Pending
<1>4. /\ untold' = [c \in Board |-> untold'[c]] /\ \A c \in Board : untold'[c] \in Seq(Request(c))
      /\ \A c \in Board : untold'[c] # << >> => c \in plugged
  BY <1>2 DEF TypeOK, Silent
<1>5. {s} \in SUBSET SegmentsOf(b)
  OBVIOUS
<1> QED
  BY <1>1, <1>2, <1>3, <1>4, <1>5, TellInv

----------------------------------------------------------------------------
(* Boards come and go.                                                      *)

LEMMA UnplugInv ==
  ASSUME OccupancyInv, NEW b \in Board, Unplug(b)
  PROVE  OccupancyInv'
<1> USE DEF OccupancyInv
<1> PICK m : m = [type |-> "MSG_NODE_LOST", board |-> b]
  OBVIOUS
<1>1. /\ reset = "queried" /\ faults' = faults + 1
      /\ b \in plugged /\ plugged' = plugged \ {b} /\ secure' = secure \ {b}
      /\ uplink' = Append(uplink, m)
      /\ untold' = [untold EXCEPT ![b] = << >>]
      /\ told' = {r \in told : ~(r[2] \subseteq SegmentsOf(b))}
      /\ unmirrored' = unmirrored \ SegmentsOf(b)
      /\ UNCHANGED <<reset, connected, occupied, dcc_addresses, on_track, orientation, mirrors, at, facing,
                     missing, moves>>
  BY DEF Unplug, host, track
<1>2. /\ m \in NodeMessage /\ m \in Message /\ m.type = "MSG_NODE_LOST" /\ m.board = b
      /\ \A s \in Segment : m \notin OccOf(s) /\ m \notin AddressOf(s)
  BY DEF Message, NodeMessage, AddressOf, OccOf, OccMessage, AddressMessage, NodeTypes, OccTypes
<1>3. /\ untold' = [c \in Board |-> untold'[c]] /\ untold'[b] = << >>
      /\ \A c \in Board : c # b => untold'[c] = untold[c]
      /\ \A c \in Board : untold'[c] \in Seq(Request(c))
  <2>1. /\ untold' = [c \in Board |-> untold'[c]] /\ untold'[b] = << >>
        /\ \A c \in Board : c # b => untold'[c] = untold[c]
    BY <1>1 DEF TypeOK
  <2>2. \A c \in Board : untold'[c] \in Seq(Request(c))
    <3> SUFFICES ASSUME NEW c \in Board PROVE untold'[c] \in Seq(Request(c))
      OBVIOUS
    <3>1. CASE c = b
      BY <2>1, <3>1
    <3>2. CASE c # b
      BY <2>1, <3>2 DEF TypeOK
    <3> QED
      BY <3>1, <3>2
  <2> QED
    BY <2>1, <2>2
<1>4. ASSUME NEW s \in Segment, BoardOf[s] = b
      PROVE  <<"occ", {s}>> \notin told' /\ <<"address", {s}>> \notin told'
  <2>1. {s} \subseteq SegmentsOf(b)
    BY <1>4, SegmentFacts
  <2> QED
    BY <1>1, <2>1
<1>5. ASSUME NEW s \in Segment, BoardOf[s] # b
      PROVE  /\ <<"occ", {s}>> \in told' => <<"occ", {s}>> \in told
             /\ <<"address", {s}>> \in told' => <<"address", {s}>> \in told
             /\ \A kinds : Pending(s, kinds)' = Pending(s, kinds)
             /\ s \in unmirrored' <=> s \in unmirrored
  <2>1. BoardOf[s] \in Board /\ s \notin SegmentsOf(b)
    BY <1>5, SegmentFacts
  <2>2. \A kinds : Pending(s, kinds)' = Pending(s, kinds)
    BY <1>3, <1>5, <2>1 DEF Pending
  <2> QED
    BY <1>1, <2>1, <2>2
<1>6. uplink \in Seq(Message) /\ uplink' \in Seq(Message)
  BY <1>1, <1>2, AppendOf DEF TypeOK
<1>7. TypeOK'
  BY <1>1, <1>3, <1>6 DEF TypeOK
<1>8. Silent'
  BY <1>1, <1>3, <1>4, <1>5 DEF Silent
<1>9. ReportsInTime'
  BY <1>1, <1>2, AppendInTime
<1>10. MirrorTrue' /\ TrainsFollowSegments'
  BY <1>1, Frames
<1>11. \A s \in Segment : Real(s)' = Real(s) /\ Decoders(s)' = Decoders(s)
  BY <1>1 DEF Real, Decoders
<1>12. FreeIsFollowed'
  BY <1>1, <1>2, <1>4, <1>5, FreeAppend
<1>13. \A s \in Segment :
         /\ \A i \in DOMAIN uplink' :
              /\ LastIn(uplink', OccOf(s), i) => LastIn(uplink, OccOf(s), i) /\ uplink'[i] = uplink[i]
              /\ LastIn(uplink', AddressOf(s), i) => LastIn(uplink, AddressOf(s), i) /\ uplink'[i] = uplink[i]
         /\ NoneIn(uplink', OccOf(s)) => NoneIn(uplink, OccOf(s))
         /\ NoneIn(uplink', AddressOf(s)) => NoneIn(uplink, AddressOf(s))
  BY <1>1, <1>2, <1>6, AppendLast
<1>14. LastReportTrue'
  <2> SUFFICES ASSUME NEW s \in Segment, <<"occ", {s}>> \in told', ~Pending(s, {"occ", "multiple"})'
               PROVE  /\ \A i \in DOMAIN uplink' :
                           LastIn(uplink', OccOf(s), i) => (s \in uplink'[i].occ) = Real(s)
                      /\ NoneIn(uplink', OccOf(s)) => occupied[s] = Real(s) \/ <<"occ", {s}>> \in missing
    BY <1>1, <1>11 DEF LastReportTrue
  <2>1. <<"occ", {s}>> \in told /\ ~Pending(s, {"occ", "multiple"})
    BY <1>4, <1>5
  <2> QED
    BY <1>13, <2>1 DEF LastReportTrue, LastIn
<1>15. HeardTrue'
  <2> SUFFICES ASSUME NEW s \in Segment, BoardOf[s] \in secure', <<"occ", {s}>> \in told',
                      ~Pending(s, {"occ", "multiple"})', NoneIn(mirrors, OccOf(s)),
                      <<"mirror", {s}>> \notin missing, s \notin unmirrored'
               PROVE  occupied[s] = Real(s)
    BY <1>1, <1>11 DEF HeardTrue
  <2> QED
    BY <1>1, <1>4, <1>5 DEF HeardTrue
<1>16. LastAddressTrue'
  <2> SUFFICES ASSUME NEW s \in Segment, <<"address", {s}>> \in told', ~Pending(s, {"address"})'
               PROVE  /\ \A i \in DOMAIN uplink' :
                           LastIn(uplink', AddressOf(s), i) => uplink'[i].addresses = Decoders(s)
                      /\ NoneIn(uplink', AddressOf(s)) /\ <<"address", {s}>> \notin missing
                           => dcc_addresses[s] = Decoders(s)
    BY <1>1, <1>11 DEF LastAddressTrue
  <2>1. <<"address", {s}>> \in told /\ ~Pending(s, {"address"})
    BY <1>4, <1>5
  <2> QED
    BY <1>13, <2>1 DEF LastAddressTrue, LastIn
<1> QED
  BY <1>7, <1>8, <1>9, <1>10, <1>12, <1>14, <1>15, <1>16

LEMMA PlugInv ==
  ASSUME OccupancyInv, NEW b \in Board, Plug(b)
  PROVE  OccupancyInv'
<1> USE DEF OccupancyInv
<1> PICK m : m = [type |-> "MSG_NODE_NEW", board |-> b]
  OBVIOUS
<1>1. /\ b \in Board \ plugged /\ plugged' = plugged \cup {b} /\ uplink' = Append(uplink, m)
      /\ UNCHANGED <<reset, connected, occupied, dcc_addresses, on_track, orientation, mirrors, at, facing,
                     secure, untold, unmirrored, told, missing, moves, faults>>
  BY DEF Plug, host, track, history
<1>2. /\ m \in NodeMessage /\ m \in Message /\ m.type = "MSG_NODE_NEW" /\ m.board = b
      /\ \A s \in Segment : m \notin OccOf(s) /\ m \notin AddressOf(s)
  BY DEF Message, NodeMessage, AddressOf, OccOf, OccMessage, AddressMessage, NodeTypes, OccTypes
<1>3. uplink \in Seq(Message) /\ uplink' \in Seq(Message)
  BY <1>1, <1>2, AppendOf DEF TypeOK
<1>4. TypeOK'
  BY <1>1, <1>3 DEF TypeOK
<1>5. Silent'
  BY <1>1 DEF Silent
<1>6. ReportsInTime'
  BY <1>1, <1>2, AppendInTime
<1>7. MirrorTrue' /\ HeardTrue' /\ TrainsFollowSegments'
  BY <1>1, Frames
<1>8. \A s \in Segment : /\ \A kinds : Pending(s, kinds)' = Pending(s, kinds)
                         /\ Real(s)' = Real(s) /\ Decoders(s)' = Decoders(s)
  BY <1>1 DEF Pending, Real, Decoders
<1>9. FreeIsFollowed'
  BY <1>1, <1>2, <1>8, FreeAppend
<1>10. \A s \in Segment :
         /\ \A i \in DOMAIN uplink' :
              /\ LastIn(uplink', OccOf(s), i) => LastIn(uplink, OccOf(s), i) /\ uplink'[i] = uplink[i]
              /\ LastIn(uplink', AddressOf(s), i) => LastIn(uplink, AddressOf(s), i) /\ uplink'[i] = uplink[i]
         /\ NoneIn(uplink', OccOf(s)) => NoneIn(uplink, OccOf(s))
         /\ NoneIn(uplink', AddressOf(s)) => NoneIn(uplink, AddressOf(s))
  BY <1>1, <1>2, <1>3, AppendLast
<1>11. LastReportTrue'
  <2> SUFFICES ASSUME NEW s \in Segment, <<"occ", {s}>> \in told, ~Pending(s, {"occ", "multiple"})
               PROVE  /\ \A i \in DOMAIN uplink' :
                           LastIn(uplink', OccOf(s), i) => (s \in uplink'[i].occ) = Real(s)
                      /\ NoneIn(uplink', OccOf(s)) => occupied[s] = Real(s) \/ <<"occ", {s}>> \in missing
    BY <1>1, <1>8 DEF LastReportTrue
  <2> QED
    BY <1>10 DEF LastReportTrue, LastIn
<1>12. LastAddressTrue'
  <2> SUFFICES ASSUME NEW s \in Segment, <<"address", {s}>> \in told, ~Pending(s, {"address"})
               PROVE  /\ \A i \in DOMAIN uplink' :
                           LastIn(uplink', AddressOf(s), i) => uplink'[i].addresses = Decoders(s)
                      /\ NoneIn(uplink', AddressOf(s)) /\ <<"address", {s}>> \notin missing
                           => dcc_addresses[s] = Decoders(s)
    BY <1>1, <1>8 DEF LastAddressTrue
  <2> QED
    BY <1>10 DEF LastAddressTrue, LastIn
<1> QED
  BY <1>4, <1>5, <1>6, <1>7, <1>9, <1>11, <1>12

----------------------------------------------------------------------------
(* The theorems.                                                            *)

LEMMA OccupancyInvNext == OccupancyInv /\ [Next]_vars => OccupancyInv'
<1> SUFFICES ASSUME OccupancyInv, [Next]_vars PROVE OccupancyInv'
  OBVIOUS
<1>1. CASE Receiver
  BY <1>1, HandleOccupancyInv, HandleAddressInv, HandleNodeInv DEF Receiver
<1>2. CASE SysEnable \/ QueryOccupancy
  BY <1>2, SysEnableInv, QueryOccupancyInv
<1>3. ASSUME NEW t \in Train, Move(t) PROVE OccupancyInv'
  BY <1>3, MoveInv
<1>4. ASSUME NEW b \in Board, Tells(b) \/ Unplug(b) \/ Plug(b) PROVE OccupancyInv'
  BY <1>4, TellNextInv, TellAgainInv, UnplugInv, PlugInv DEF Tells
<1>5. CASE HearMirror \/ LoseReport \/ LoseMirror
  BY <1>5, HearMirrorInv, LoseReportInv, LoseMirrorInv
<1>6. CASE UNCHANGED vars
  <2>1. UNCHANGED <<reset, connected, occupied, dcc_addresses, on_track, orientation, uplink, mirrors, at,
                    facing, plugged, secure, untold, unmirrored, told, missing, moves, faults>>
    BY <1>6 DEF vars, host, track, boards, history
  <2>2. TypeOK' /\ Silent'
    BY <2>1 DEF OccupancyInv, TypeOK, Silent
  <2> QED
    BY <2>1, <2>2, Frames DEF OccupancyInv
<1> QED
  BY <1>1, <1>2, <1>3, <1>4, <1>5, <1>6 DEF Next

(* In every state the variables have their types, and what is on the line   *)
(* leads to what is the case, or has led there.                             *)
THEOREM OccupancyInvariant == Spec => []OccupancyInv
BY OccupancyInvInit, OccupancyInvNext, PTL DEF Spec

(* A train is on the track exactly if a segment reports its decoder, and    *)
(* faces as a segment that reports it says, whichever message came last.    *)
THEOREM TrainsAreFollowed == Spec => []TrainsFollowSegments
<1>1. OccupancyInv => TrainsFollowSegments
  BY DEF OccupancyInv
<1> QED
  BY <1>1, OccupancyInvariant, PTL

(* When nothing is on its way any more, what is stored of a segment that a  *)
(* board has told of is what is on it, unless the messages that could tell  *)
(* were the last and were lost.                                             *)
THEOREM TrackIsKnownInTheEnd == Spec => []TrackIsKnown
<1>1. OccupancyInv => TrackIsKnown
  <2> SUFFICES ASSUME OccupancyInv, Quiet, NEW s \in Segment
               PROVE  /\ <<"occ", {s}>> \in told /\ Heard(s) => occupied[s] = Real(s)
                      /\ <<"address", {s}>> \in told \ missing => dcc_addresses[s] = Decoders(s)
    BY DEF TrackIsKnown
  <2>1. uplink = << >> /\ mirrors = << >> /\ unmirrored = {} /\ untold[BoardOf[s]] = << >>
    BY SegmentFacts DEF Quiet
  <2>2. NoneIn(uplink, OccOf(s)) /\ NoneIn(uplink, AddressOf(s)) /\ NoneIn(mirrors, OccOf(s))
    BY <2>1 DEF NoneIn
  <2>3. \A kinds : ~Pending(s, kinds)
    BY <2>1 DEF Pending
  <2>4. <<"occ", {s}>> \in told /\ Heard(s) => occupied[s] = Real(s)
    BY <2>1, <2>2, <2>3 DEF OccupancyInv, LastReportTrue, HeardTrue, Heard
  <2>5. <<"address", {s}>> \in told \ missing => dcc_addresses[s] = Decoders(s)
    BY <2>2, <2>3 DEF OccupancyInv, LastAddressTrue
  <2> QED
    BY <2>4, <2>5
<1> QED
  BY <1>1, OccupancyInvariant, PTL
=============================================================================

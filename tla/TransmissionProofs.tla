-------------------------- MODULE TransmissionProofs -------------------------
(****************************************************************************)
(* Proofs about Transmission, for any number of calling threads, any nodes, *)
(* message sizes and capacity of the buffer, and across the wrap of the     *)
(* sequence numbers: no message is lost or doubled, those of a node with    *)
(* one sender stay in order, and a node that one caller sends requests to   *)
(* never has more to answer than the table has booked.                      *)
(****************************************************************************)
EXTENDS Transmission, NodeTableProofs, SequenceTheorems, FiniteSetTheorems

----------------------------------------------------------------------------
(* Sequences of messages and their numbers.                                 *)

LEMMA NumbersType ==
  ASSUME NEW q \in Seq(Message)
  PROVE  /\ Numbers(q) \in Seq(Seqnum) /\ Len(Numbers(q)) = Len(q)
         /\ \A i \in 1..Len(q) : Numbers(q)[i] = q[i].seq
<1>1. Len(q) \in Nat /\ \A i \in 1..Len(q) : q[i] \in Message
  OBVIOUS
<1>2. \A i \in 1..Len(q) : q[i].seq \in Seqnum
  BY <1>1 DEF Message
<1>3. Numbers(q) \in [1..Len(q) -> Seqnum]
  BY <1>2 DEF Numbers
<1>4. Numbers(q) \in Seq(Seqnum) /\ Len(Numbers(q)) = Len(q)
  BY <1>1, <1>3
<1> QED
  BY <1>4 DEF Numbers

LEMMA TypesType ==
  ASSUME NEW q \in Seq(Message)
  PROVE  Types(q) \in Seq(Type)
<1>1. Len(q) \in Nat /\ \A i \in 1..Len(q) : q[i] \in Message
  OBVIOUS
<1>2. \A i \in 1..Len(q) : q[i].type \in Type
  BY <1>1 DEF Message
<1>3. Types(q) \in [1..Len(q) -> Type]
  BY <1>2 DEF Types
<1> QED
  BY <1>1, <1>3

LEMMA NumbersConcat ==
  ASSUME NEW a \in Seq(Message), NEW b \in Seq(Message)
  PROVE  Numbers(a \o b) = Numbers(a) \o Numbers(b)
<1> DEFINE q == a \o b
           N == Numbers(a) \o Numbers(b)
<1>1. /\ Len(a) \in Nat /\ Len(b) \in Nat
      /\ q \in Seq(Message) /\ Len(q) = Len(a) + Len(b)
      /\ \A i \in 1..(Len(a) + Len(b)) : q[i] = IF i <= Len(a) THEN a[i] ELSE b[i - Len(a)]
  BY ConcatProperties
<1>2. /\ Numbers(a) \in Seq(Seqnum) /\ Len(Numbers(a)) = Len(a)
      /\ Numbers(b) \in Seq(Seqnum) /\ Len(Numbers(b)) = Len(b)
      /\ Numbers(q) \in Seq(Seqnum) /\ Len(Numbers(q)) = Len(a) + Len(b)
  BY <1>1, NumbersType
<1>3. /\ N \in Seq(Seqnum) /\ Len(N) = Len(a) + Len(b)
      /\ \A i \in 1..(Len(a) + Len(b)) :
           N[i] = IF i <= Len(a) THEN Numbers(a)[i] ELSE Numbers(b)[i - Len(a)]
  BY <1>2, ConcatProperties
<1>4. ASSUME NEW i \in 1..(Len(a) + Len(b))
      PROVE  Numbers(q)[i] = N[i]
  <2>1. Numbers(q)[i] = q[i].seq
    BY <1>1, NumbersType
  <2>2. CASE i <= Len(a)
    <3>1. i \in 1..Len(a)
      BY <1>1, <2>2
    <3> QED
      BY <3>1, <2>1, <2>2, <1>1, <1>3, NumbersType
  <2>3. CASE ~(i <= Len(a))
    <3>1. i - Len(a) \in 1..Len(b)
      BY <1>1, <2>3
    <3> QED
      BY <3>1, <2>1, <2>3, <1>1, <1>3, NumbersType
  <2> QED
    BY <2>2, <2>3
<1> HIDE DEF q, N
<1>5. Numbers(q) = N
  BY <1>2, <1>3, <1>4, SeqEqual
<1> QED
  BY <1>5 DEF q, N

LEMMA NumbersOne ==
  ASSUME NEW m \in Message
  PROVE  /\ <<m>> \in Seq(Message) /\ Numbers(<<m>>) = <<m.seq>>
         /\ <<m.seq>> \in Seq(Seqnum)
<1>1. m.seq \in Seqnum
  BY DEF Message
<1>2. <<m>> \in Seq(Message) /\ Len(<<m>>) = 1 /\ <<m>>[1] = m /\ 1 \in 1..1
  OBVIOUS
<1>3. Numbers(<<m>>) \in Seq(Seqnum) /\ Len(Numbers(<<m>>)) = 1 /\ Numbers(<<m>>)[1] = m.seq
  BY <1>2, NumbersType
<1>4. <<m.seq>> \in Seq(Seqnum) /\ Len(<<m.seq>>) = 1 /\ <<m.seq>>[1] = m.seq
  BY <1>1
<1>5. \A i \in 1..1 : i = 1
  OBVIOUS
<1>6. Numbers(<<m>>) = <<m.seq>>
  BY <1>3, <1>4, <1>5, SeqEqual
<1> QED
  BY <1>2, <1>4, <1>6

LEMMA NumbersNone == << >> \in Seq(Message) /\ Numbers(<< >>) = << >>
<1>1. << >> \in Seq(Message) /\ Len(<< >>) = 0
  OBVIOUS
<1>2. Len(Numbers(<< >>)) = 0 /\ Numbers(<< >>) \in Seq(Seqnum)
  BY <1>1, NumbersType
<1> QED
  BY <1>1, <1>2

LEMMA NumbersAppend ==
  ASSUME NEW q \in Seq(Message), NEW m \in Message
  PROVE  /\ Append(q, m) \in Seq(Message)
         /\ Numbers(Append(q, m)) = Numbers(q) \o <<m.seq>>
<1>1. Append(q, m) = q \o <<m>>
  BY AppendIsConcat
<1>2. Append(q, m) \in Seq(Message)
  OBVIOUS
<1>3. Numbers(q \o <<m>>) = Numbers(q) \o Numbers(<<m>>)
  BY NumbersOne, NumbersConcat
<1> QED
  BY <1>1, <1>2, <1>3, NumbersOne

LEMMA NumbersHead ==
  ASSUME NEW q \in Seq(Message), q # << >>
  PROVE  /\ Head(q) \in Message /\ Tail(q) \in Seq(Message)
         /\ Numbers(q) = <<Head(q).seq>> \o Numbers(Tail(q))
<1>1. Head(q) \in Message /\ Tail(q) \in Seq(Message) /\ q = <<Head(q)>> \o Tail(q)
  OBVIOUS
<1> QED
  BY <1>1, NumbersConcat, NumbersOne

----------------------------------------------------------------------------
(* What a write does for one node: of the messages q a first part goes to   *)
(* the line and b stays in the buffer.                                      *)
Splits(q, b, before, after) ==
  \E a \in Seq(Message) : q = a \o b /\ after = before \o Numbers(a)

LEMMA SplitsAll ==
  ASSUME NEW q \in Seq(Message), NEW w
  PROVE  Splits(q, << >>, w, w \o Numbers(q))
<1>1. q = q \o << >>
  BY ConcatEmptySeq
<1> QED
  BY <1>1 DEF Splits

LEMMA SplitsNone ==
  ASSUME NEW q \in Seq(Message), NEW w \in Seq(Seqnum)
  PROVE  /\ Splits(q, q, w, w \o Numbers(<< >>))
         /\ Splits(q, q, w, w)
<1>1. q = << >> \o q /\ w \o << >> = w
  BY ConcatEmptySeq
<1> QED
  BY <1>1, NumbersNone DEF Splits

LEMMA FlushSplits ==
  ASSUME TypeOK, Flush
  PROVE  /\ buffer' \in [Address -> Seq(Message)]
         /\ wire' \in [Address -> Seq(Seqnum)]
         /\ owed' \in [Address -> Seq(Type)]
         /\ buffer_index' \in 0..pkt_max_cap /\ (buffer_index' = 0 => buffer' = NoMessages)
         /\ \A n \in Address : Splits(buffer[n], buffer'[n], wire[n], wire'[n])
<1>0. /\ \A n \in Address : /\ buffer[n] \in Seq(Message) /\ wire[n] \in Seq(Seqnum)
                            /\ owed[n] \in Seq(Type)
      /\ pkt_max_cap \in Nat
  BY TransmissionAssumption DEF TypeOK
<1>1. CASE buffer_index > 0
  <2>1. Write(buffer) /\ buffer' = NoMessages /\ buffer_index' = 0
    BY <1>1 DEF Flush
  <2>2. \A n \in Address : wire[n] \o Numbers(buffer[n]) \in Seq(Seqnum)
    BY <1>0, NumbersType, ConcatProperties
  <2>3. \A n \in Address : owed[n] \o Types(buffer[n]) \in Seq(Type)
    BY <1>0, TypesType, ConcatProperties
  <2>4. /\ wire' = [n \in Address |-> wire[n] \o Numbers(buffer[n])]
        /\ owed' = [n \in Address |-> owed[n] \o Types(buffer[n])]
    BY <2>1 DEF Write
  <2>5. wire' \in [Address -> Seq(Seqnum)] /\ owed' \in [Address -> Seq(Type)]
    BY <2>2, <2>3, <2>4
  <2>6. \A n \in Address : Splits(buffer[n], buffer'[n], wire[n], wire'[n])
    BY <1>0, <2>1, <2>4, SplitsAll DEF NoMessages
  <2> QED
    BY <1>0, <2>1, <2>5, <2>6 DEF NoMessages
<1>2. CASE ~(buffer_index > 0)
  <2>1. UNCHANGED line
    BY <1>2 DEF Flush
  <2> QED
    BY <1>0, <2>1, SplitsNone DEF TypeOK, line
<1> QED
  BY <1>1, <1>2

LEMMA AddToBufferSplits ==
  ASSUME TypeOK, NEW e \in Job, AddToBuffer(e)
  PROVE  /\ buffer' \in [Address -> Seq(Message)]
         /\ wire' \in [Address -> Seq(Seqnum)]
         /\ owed' \in [Address -> Seq(Type)]
         /\ buffer_index' \in 0..pkt_max_cap /\ (buffer_index' = 0 => buffer' = NoMessages)
         /\ \A n \in Address : Splits(With(buffer, e)[n], buffer'[n], wire[n], wire'[n])
<1> DEFINE size == Size[e.msg.type]
           before == buffer_index + size > pkt_max_cap
           index == (IF before THEN 0 ELSE buffer_index) + size
           after == index > pkt_max_cap - MinSize
           gone == IF after THEN With(buffer, e) ELSE IF before THEN buffer ELSE NoMessages
<1>0. /\ e.to \in Address /\ e.msg \in Message /\ size \in 1..pkt_max_cap
      /\ pkt_max_cap \in Nat /\ MinSize \in Nat /\ buffer_index \in 0..pkt_max_cap
  BY TransmissionAssumption DEF Job, Message, TypeOK
<1>1. /\ Write(gone)
      /\ buffer' = IF after THEN NoMessages
                   ELSE With(IF before THEN NoMessages ELSE buffer, e)
      /\ buffer_index' = IF after THEN 0 ELSE index
  BY DEF AddToBuffer
<1>2. \A n \in Address : /\ buffer[n] \in Seq(Message) /\ wire[n] \in Seq(Seqnum)
                         /\ owed[n] \in Seq(Type)
  BY DEF TypeOK
<1>3. /\ NoMessages \in [Address -> Seq(Message)] /\ buffer \in [Address -> Seq(Message)]
      /\ \A q \in [Address -> Seq(Message)] :
           /\ With(q, e) \in [Address -> Seq(Message)]
           /\ With(q, e)[e.to] = Append(q[e.to], e.msg)
           /\ \A n \in Address \ {e.to} : With(q, e)[n] = q[n]
  BY <1>0 DEF NoMessages, With, TypeOK
<1>4. buffer_index' \in 0..pkt_max_cap /\ (buffer_index' = 0 => buffer' = NoMessages)
  <2> HIDE DEF size
  <2> QED
    BY <1>0, <1>1
<1> HIDE DEF size, before, index, after
<1>5. gone \in [Address -> Seq(Message)] /\ buffer' \in [Address -> Seq(Message)]
  BY <1>1, <1>3
<1>6. /\ wire' = [n \in Address |-> wire[n] \o Numbers(gone[n])]
      /\ owed' = [n \in Address |-> owed[n] \o Types(gone[n])]
  BY <1>1 DEF Write
<1>7. wire' \in [Address -> Seq(Seqnum)] /\ owed' \in [Address -> Seq(Type)]
  <2>1. \A n \in Address : /\ wire[n] \o Numbers(gone[n]) \in Seq(Seqnum)
                           /\ owed[n] \o Types(gone[n]) \in Seq(Type)
    BY <1>2, <1>5, NumbersType, TypesType, ConcatProperties
  <2> QED
    BY <1>6, <2>1
<1>8. ASSUME NEW n \in Address
      PROVE  Splits(With(buffer, e)[n], buffer'[n], wire[n], wire'[n])
  <2>1. /\ With(buffer, e)[n] \in Seq(Message) /\ NoMessages[n] = << >>
        /\ wire'[n] = wire[n] \o Numbers(gone[n])
    BY <1>3, <1>6 DEF NoMessages
  <2>2. CASE after
    BY <2>1, <2>2, <1>1, <1>2, SplitsAll
  <2>3. CASE ~after /\ ~before
    BY <2>1, <2>3, <1>1, <1>2, SplitsNone
  <2>4. CASE ~after /\ before
    <3>1. buffer'[n] = With(NoMessages, e)[n] /\ wire'[n] = wire[n] \o Numbers(buffer[n])
      BY <2>1, <2>4, <1>1
    <3>2. With(buffer, e)[n] = buffer[n] \o With(NoMessages, e)[n]
      <4>1. CASE n = e.to
        <5>1. Append(buffer[n], e.msg) = buffer[n] \o <<e.msg>>
          BY <1>0, <1>2, AppendIsConcat
        <5>2. Append(<< >>, e.msg) = <<e.msg>>
          OBVIOUS
        <5> QED
          BY <4>1, <5>1, <5>2, <2>1, <1>3
      <4>2. CASE n # e.to
        <5>1. With(buffer, e)[n] = buffer[n] /\ With(NoMessages, e)[n] = << >>
          BY <4>2, <2>1, <1>3
        <5> QED
          BY <5>1, <1>2, ConcatEmptySeq
      <4> QED
        BY <4>1, <4>2
    <3> QED
      BY <3>1, <3>2, <1>2 DEF Splits
  <2> QED
    BY <2>2, <2>3, <2>4
<1> QED
  BY <1>4, <1>5, <1>7, <1>8

----------------------------------------------------------------------------
(* Typing.                                                                  *)
TypeInv == TypeOK /\ TableInv

LEMMA InitType == Init => TypeInv
<1> SUFFICES ASSUME Init PROVE TypeInv
  OBVIOUS
<1>1. TableInv
  BY InitTable DEF Init
<1>2. /\ pc \in [Thread -> {"idle", "numbered", "accepted", "flush"}]
      /\ \A t \in Thread : pc[t] = "idle"
      /\ job \in [Thread -> Job \cup {NoJob}]
      /\ given \in [Address -> [Seqnum -> Nat]]
      /\ Receiver \in Thread
  BY DEF Init, Thread
<1>3. /\ buffer \in [Address -> Seq(Message)] /\ wire \in [Address -> Seq(Seqnum)]
      /\ owed \in [Address -> Seq(Type)]
  BY DEF Init, NoMessages
<1>4. /\ buffer_index \in 0..pkt_max_cap /\ (buffer_index = 0 => buffer = NoMessages)
      /\ heard = Nothing /\ dequeued = FALSE /\ events \in Nat /\ calls \in [Caller -> Nat]
  BY TransmissionAssumption DEF Init
<1>5. fn = "none" /\ pc[Receiver] = "idle" /\ TableTypeOK
  BY <1>1, <1>2 DEF Init, LocalsInit, TableInv
<1>6. TypeOK
  BY <1>2, <1>3, <1>4, <1>5 DEF TypeOK
<1> QED
  BY <1>1, <1>6 DEF TypeInv

LEMMA TakeNumberType ==
  ASSUME TypeInv, NEW t \in Thread, NEW n \in Address, NEW y \in Type,
         TakeNumber(t, n, y), UNCHANGED receiving,
         t = Receiver => heard # Nothing,
         calls' \in [Caller -> Nat]
  PROVE  TypeInv'
<1>0. TypeOK /\ TableInv
  BY DEF TypeInv
<1>1. TableInv'
  BY <1>0, NumberTable DEF TakeNumber
<1> DEFINE e == [to |-> n, msg |-> [type |-> y, seq |-> send_seqnum[n]]]
<1>2. e \in Job /\ e.to \in SendTo[t] /\ send_seqnum[n] \in Seqnum
  BY <1>0 DEF TakeNumber, Job, Message, TypeOK, TableTypeOK
<1>3. /\ pc' = [pc EXCEPT ![t] = "numbered"] /\ job' = [job EXCEPT ![t] = e]
      /\ given' = [given EXCEPT ![n][send_seqnum[n]] = @ + 1]
      /\ MutexFree /\ UNCHANGED <<locals, line>>
  BY DEF TakeNumber, GoTo
<1> HIDE DEF e
<1>4. /\ pc' \in [Thread -> {"idle", "numbered", "accepted", "flush"}]
      /\ job' \in [Thread -> Job \cup {NoJob}]
      /\ \A u \in Thread :
           pc'[u] \in {"numbered", "accepted"} => job'[u] \in Job /\ job'[u].to \in SendTo[u]
  BY <1>0, <1>2, <1>3 DEF TypeOK
<1>5. given' \in [Address -> [Seqnum -> Nat]]
  BY <1>0, <1>2, <1>3 DEF TypeOK
<1>6. pc'[Receiver] # "idle" => heard' # Nothing /\ MutexFree'
  BY <1>0, <1>3 DEF TypeOK, MutexFree, locals, receiving
<1>7. TypeOK'
  BY <1>0, <1>1, <1>3, <1>4, <1>5, <1>6 DEF TypeOK, TableInv, locals, line, receiving
<1> QED
  BY <1>1, <1>7 DEF TypeInv

LEMMA TrySendType ==
  ASSUME TypeInv, NEW t \in Thread, TrySend(t)
  PROVE  TypeInv'
<1>0. TypeOK /\ TableInv
  BY DEF TypeInv
<1>1. /\ pc[t] = "numbered" /\ job[t] \in Job /\ job[t].to \in Address
      /\ job[t].msg \in Message /\ job[t].to \in SendTo[t]
      /\ SendNow(job[t].to, job[t].msg) \/ Store(job[t].to, job[t].msg)
      /\ \E l \in {"accepted", "flush", "idle"} : pc' = [pc EXCEPT ![t] = l]
      /\ UNCHANGED <<send_seqnum, job, calls, given, line, receiving>>
  BY <1>0 DEF TrySend, TypeOK, Job, GoTo, AfterSend
<1>2. send_seqnum' \in [Address -> Seqnum]
  BY <1>0, <1>1 DEF TypeOK, TableTypeOK
<1>3. TableInv'
  BY <1>0, <1>1, <1>2, SendNowTable, StoreTable
<1>4. MutexFree /\ UNCHANGED locals
  BY <1>1 DEF SendNow, Store
<1>5. TypeOK'
  BY <1>0, <1>1, <1>3, <1>4 DEF TypeOK, TableInv, MutexFree, locals, line, receiving
<1> QED
  BY <1>3, <1>5 DEF TypeInv

LEMMA PutIntoBufferType ==
  ASSUME TypeInv, NEW t \in Thread, PutIntoBuffer(t)
  PROVE  TypeInv'
<1>0. TypeOK /\ TableInv
  BY DEF TypeInv
<1>1. /\ pc[t] = "accepted" /\ job[t] \in Job /\ AddToBuffer(job[t])
      /\ \E l \in {"flush", "idle"} : pc' = [pc EXCEPT ![t] = l]
      /\ UNCHANGED <<table, locals, job, calls, given, receiving>>
  BY <1>0 DEF PutIntoBuffer, TypeOK, GoTo, AfterSend
<1>2. TableInv'
  BY <1>0, <1>1, StillTable
<1>3. /\ buffer' \in [Address -> Seq(Message)] /\ wire' \in [Address -> Seq(Seqnum)]
      /\ owed' \in [Address -> Seq(Type)]
      /\ buffer_index' \in 0..pkt_max_cap /\ (buffer_index' = 0 => buffer' = NoMessages)
  BY <1>0, <1>1, AddToBufferSplits
<1>4. TypeOK'
  BY <1>0, <1>1, <1>2, <1>3 DEF TypeOK, TableInv, MutexFree, locals, receiving
<1> QED
  BY <1>2, <1>4 DEF TypeInv

\* Hearing a message, with what it leaves of the owed answers.
LEMMA HearType ==
  ASSUME TypeInv, NEW n \in Address, NEW u \in Uplink, Hear(n, u),
         owed' \in [Address -> Seq(Type)], events' \in Nat
  PROVE  TypeInv'
<1>0. TypeOK /\ TableInv
  BY DEF TypeInv
<1>1. /\ BeginUpdate(n, u) \/ UNCHANGED <<table, locals>>
      /\ heard' = <<n, u>> /\ Listening
      /\ UNCHANGED <<sending, buffer, buffer_index, wire, dequeued>>
  BY DEF Hear
<1>2. TableInv'
  BY <1>0, <1>1, StillTable
<1>3. heard' \in Address \X Uplink /\ heard' # Nothing
  <2>1. n # NoNode
    BY AddressAssumption
  <2> QED
    BY <1>1, <2>1 DEF Nothing
<1>4. UNCHANGED serving /\ pc[Receiver] = "idle" /\ UNCHANGED pc
  BY <1>1 DEF BeginUpdate, Listening, locals, sending
<1>5. TypeOK'
  BY <1>0, <1>1, <1>2, <1>3, <1>4 DEF TypeOK, TableInv, sending
<1> QED
  BY <1>2, <1>5 DEF TypeInv

LEMMA HearAnswerType ==
  ASSUME TypeInv, NEW n \in Address, HearAnswer(n)
  PROVE  TypeInv'
<1>1. PICK k \in 1..Len(owed[n]) :
        /\ \E i \in 1..Len(Answers[owed[n][k]]) : Hear(n, Answers[owed[n][k]][i])
        /\ owed' = [owed EXCEPT ![n] = SubSeq(@, k + 1, Len(@))]
  BY DEF HearAnswer
<1>2. owed[n] \in Seq(Type) /\ owed \in [Address -> Seq(Type)] /\ events' \in Nat
  BY DEF TypeInv, TypeOK, HearAnswer
<1>3. owed[n][k] \in Type /\ SubSeq(owed[n], k + 1, Len(owed[n])) \in Seq(Type)
  BY <1>2
<1>4. Answers[owed[n][k]] \in Seq(Uplink)
  BY <1>3, TypeAssumption
<1>5. PICK i \in 1..Len(Answers[owed[n][k]]) : Hear(n, Answers[owed[n][k]][i])
  BY <1>1
<1>6. Answers[owed[n][k]][i] \in Uplink
  BY <1>4
<1>7. owed' \in [Address -> Seq(Type)]
  BY <1>1, <1>2, <1>3
<1> QED
  BY <1>2, <1>5, <1>6, <1>7, HearType

LEMMA HearMoreType ==
  ASSUME TypeInv, NEW n \in Address, HearOccupancy(n) \/ HearStall(n) \/ HearReady(n)
  PROVE  TypeInv'
<1>1. /\ \E u \in Uplink : Hear(n, u)
      /\ owed' \in [Address -> Seq(Type)] /\ events' \in Nat
  BY TransmissionAssumption
     DEF HearOccupancy, HearStall, HearReady, HearEvent, TypeInv, TypeOK
<1> QED
  BY <1>1, HearType

LEMMA UpdateStepType ==
  ASSUME TypeInv, UpdateStep
  PROVE  TypeInv'
<1>0. TypeOK /\ TableInv /\ UNCHANGED <<sending, line, receiving>>
  BY DEF TypeInv, UpdateStep
<1>1. TableInv'
  BY <1>0, MatchTable, ServeNextAffectedTable, StillTable DEF UpdateStep
<1>2. /\ ~MutexFree /\ (fn' = "state_update" => fn = "state_update")
      /\ dequeued => serving' # NoNode
  BY <1>0 DEF UpdateStep, Match, Skip, EndUpdate, ServeNextAffected, EndStallOff, Updating,
              Releasing, Return, MutexFree, TypeOK
<1>3. pc[Receiver] = "idle" /\ UNCHANGED pc
  BY <1>0, <1>2 DEF TypeOK, sending
<1>4. TypeOK'
  BY <1>0, <1>1, <1>2, <1>3 DEF TypeOK, TableInv, sending, line, receiving
<1> QED
  BY <1>1, <1>4 DEF TypeInv

LEMMA SendStoredType ==
  ASSUME TypeInv, SendStored
  PROVE  /\ TypeInv'
         /\ serving \in Address /\ message_queue[serving] # << >>
         /\ [to |-> serving, msg |-> Head(message_queue[serving])] \in Job
<1> DEFINE e == [to |-> serving, msg |-> Head(message_queue[serving])]
<1>0. TypeOK /\ TableInv
  BY DEF TypeInv
<1>1. /\ TableInv' /\ serving \in Address /\ message_queue[serving] # << >>
      /\ Head(message_queue[serving]) \in Message
  BY <1>0, DequeueTable DEF SendStored
<1>2. e \in Job
  BY <1>1 DEF Job
<1>3. /\ AddToBuffer(e) /\ dequeued' = TRUE /\ UNCHANGED <<sending, heard, events, locals>>
      /\ serving # NoNode
  BY DEF SendStored, Dequeue
<1>4. /\ buffer' \in [Address -> Seq(Message)] /\ wire' \in [Address -> Seq(Seqnum)]
      /\ owed' \in [Address -> Seq(Type)]
      /\ buffer_index' \in 0..pkt_max_cap /\ (buffer_index' = 0 => buffer' = NoMessages)
  BY <1>0, <1>2, <1>3, AddToBufferSplits
<1> HIDE DEF e
<1>5. TypeOK'
  BY <1>0, <1>1, <1>3, <1>4 DEF TypeOK, TableInv, MutexFree, sending, locals
<1> QED
  BY <1>1, <1>2, <1>5 DEF TypeInv, e

LEMMA EndSendStoredType ==
  ASSUME TypeInv, EndSendStored
  PROVE  TypeInv'
<1>0. TypeOK /\ TableInv
  BY DEF TypeInv
<1>1. TableInv'
  BY <1>0, EndServingTable DEF EndSendStored
<1>2. /\ dequeued' = FALSE /\ UNCHANGED <<sending, heard, events>>
      /\ Flush \/ UNCHANGED line
  BY DEF EndSendStored
<1>3. /\ buffer' \in [Address -> Seq(Message)] /\ wire' \in [Address -> Seq(Seqnum)]
      /\ owed' \in [Address -> Seq(Type)]
      /\ buffer_index' \in 0..pkt_max_cap /\ (buffer_index' = 0 => buffer' = NoMessages)
  BY <1>0, <1>2, FlushSplits DEF TypeOK, line
<1>4. fn' = "none" \/ fn' = fn
  BY DEF EndSendStored, EndServing, Return
<1>5. TypeOK'
  BY <1>0, <1>1, <1>2, <1>3, <1>4 DEF TypeOK, TableInv, MutexFree, sending
<1> QED
  BY <1>1, <1>5 DEF TypeInv

LEMMA HandleType ==
  ASSUME TypeInv, HandleStall \/ HandleOther
  PROVE  TypeInv'
<1>0. TypeOK /\ TableInv
  BY DEF TypeInv
<1>1. /\ heard[1] \in Address /\ MutexFree /\ pc[Receiver] = "idle"
      /\ \/ StallOn(heard[1]) \/ StallOff(heard[1]) \/ UNCHANGED <<table, locals>>
      /\ heard' = Nothing /\ UNCHANGED <<sending, line, dequeued, events>>
  BY DEF HandleStall, HandleOther, Updated
<1>2. TableInv'
  BY <1>0, <1>1, StillTable
<1>3. /\ UNCHANGED serving /\ fn' # "state_update"
  BY <1>1 DEF StallOn, StallOff, MutexFree, locals
<1>4. TypeOK'
  BY <1>0, <1>1, <1>2, <1>3 DEF TypeOK, TableInv, sending, line
<1> QED
  BY <1>2, <1>4 DEF TypeInv

LEMMA FlushType ==
  ASSUME TypeInv, AutoFlush \/ FlushReply
  PROVE  TypeInv'
<1>0. TypeOK /\ TableInv
  BY DEF TypeInv
<1>1. Flush /\ UNCHANGED <<table, locals, job, calls, given, dequeued, events>>
  BY DEF AutoFlush, FlushReply, sending, receiving
<1>2. TableInv'
  BY <1>0, <1>1, StillTable
<1>3. /\ buffer' \in [Address -> Seq(Message)] /\ wire' \in [Address -> Seq(Seqnum)]
      /\ owed' \in [Address -> Seq(Type)]
      /\ buffer_index' \in 0..pkt_max_cap /\ (buffer_index' = 0 => buffer' = NoMessages)
  BY <1>0, <1>1, FlushSplits
<1>4. CASE AutoFlush
  <2>1. UNCHANGED <<pc, heard>>
    BY <1>4 DEF AutoFlush, sending, receiving
  <2>2. TypeOK'
    BY <1>0, <1>1, <1>2, <1>3, <2>1 DEF TypeOK, TableInv, MutexFree, locals
  <2> QED
    BY <1>2, <2>2 DEF TypeInv
<1>5. CASE FlushReply
  <2>1. /\ pc[Receiver] = "flush" /\ pc' = [pc EXCEPT ![Receiver] = "idle"]
        /\ heard' = Nothing
    BY <1>5 DEF FlushReply, GoTo
  <2>2. MutexFree /\ pc' \in [Thread -> {"idle", "numbered", "accepted", "flush"}]
        /\ Receiver \in Thread
        /\ \A t \in Thread : pc'[t] # "idle" => pc'[t] = pc[t]
    BY <1>0, <2>1 DEF TypeOK, Thread
  <2>3. TypeOK'
    BY <1>0, <1>1, <1>2, <1>3, <2>1, <2>2 DEF TypeOK, TableInv, MutexFree, locals
  <2> QED
    BY <1>2, <2>3 DEF TypeInv
<1> QED
  BY <1>4, <1>5

LEMMA NumberingType ==
  ASSUME TypeInv,
         Reply \/ \E t \in Caller, n \in Address, y \in CallType : Call(t, n, y)
  PROVE  TypeInv'
<1>0. TypeOK
  BY DEF TypeInv
<1>1. CASE Reply
  <2>1. /\ TakeNumber(Receiver, heard[1], ReplyType) /\ UNCHANGED <<calls, receiving>>
        /\ heard[1] \in Address
    BY <1>1 DEF Reply, Updated
  <2>2. heard # Nothing
    BY <2>1, AddressAssumption DEF Nothing
  <2>3. Receiver \in Thread /\ ReplyType \in Type /\ calls' \in [Caller -> Nat]
    BY <1>0, <2>1, TransmissionAssumption DEF Thread, TypeOK
  <2> QED
    BY <2>1, <2>2, <2>3, TakeNumberType
<1>2. ASSUME NEW t \in Caller, NEW n \in Address, NEW y \in CallType, Call(t, n, y)
      PROVE  TypeInv'
  <2>1. /\ TakeNumber(t, n, y) /\ UNCHANGED receiving
        /\ calls[t] > 0 /\ calls' = [calls EXCEPT ![t] = @ - 1]
    BY <1>2 DEF Call
  <2>2. calls' \in [Caller -> Nat]
    BY <1>0, <2>1 DEF TypeOK
  <2>3. t \in Thread /\ y \in Type /\ t # Receiver
    BY TransmissionAssumption DEF Thread
  <2> QED
    BY <2>1, <2>2, <2>3, TakeNumberType
<1> QED
  BY <1>1, <1>2

LEMMA TypeStep == TypeInv /\ [Next]_vars => TypeInv'
<1> SUFFICES ASSUME TypeInv, [Next]_vars PROVE TypeInv'
  OBVIOUS
<1>1. CASE UNCHANGED vars
  <2>1. TypeOK /\ TableInv /\ UNCHANGED <<table, locals, sending, line, receiving>>
    BY <1>1 DEF TypeInv, vars
  <2>2. TableInv'
    BY <2>1, StillTable
  <2>3. TypeOK'
    BY <2>1, <2>2 DEF TypeOK, TableInv, MutexFree, locals, sending, line, receiving
  <2> QED
    BY <2>2, <2>3 DEF TypeInv
<1> QED
  BY <1>1, NumberingType, TrySendType, PutIntoBufferType, FlushType, HearAnswerType,
     HearMoreType, UpdateStepType, SendStoredType, EndSendStoredType, HandleType
     DEF Next, Handle

(* Every variable keeps its type; the receiver works on one message at a    *)
(* time, and never waits for the table's mutex while it is in an update;    *)
(* bytes counted in the buffer and messages in it go together.              *)
THEOREM TransmissionTypeCorrect == Spec => []TypeOK
<1>1. TypeInv => TypeOK
  BY DEF TypeInv
<1> QED
  BY InitType, TypeStep, <1>1, PTL DEF Spec

----------------------------------------------------------------------------
(* Counting the messages with a number.                                     *)
Spots(s, q) == {i \in DOMAIN q : q[i] = s}

LEMMA TimesType ==
  ASSUME NEW S, NEW q \in Seq(S), NEW s
  PROVE  IsFiniteSet(Spots(s, q)) /\ Times(s, q) \in Nat
<1>1. Len(q) \in Nat /\ DOMAIN q = 1..Len(q)
  OBVIOUS
<1>2. IsFiniteSet(1..Len(q))
  BY <1>1, FS_Interval
<1>3. Spots(s, q) \in SUBSET (1..Len(q))
  BY <1>1 DEF Spots
<1>4. IsFiniteSet(Spots(s, q))
  BY <1>2, <1>3, FS_Subset
<1>5. Cardinality(Spots(s, q)) \in Nat
  BY <1>4, FS_CardinalityType
<1> QED
  BY <1>4, <1>5 DEF Times, Spots

LEMMA TimesConcat ==
  ASSUME NEW S, NEW a \in Seq(S), NEW b \in Seq(S), NEW s
  PROVE  Times(s, a \o b) = Times(s, a) + Times(s, b)
<1> DEFINE l == Len(a)
           k == Len(b)
           A == Spots(s, a)
           B == Spots(s, b)
           C == {i \in (l + 1)..(l + k) : b[i - l] = s}
           shift == [i \in B |-> i + l]
<1>1. /\ l \in Nat /\ k \in Nat /\ DOMAIN a = 1..l /\ DOMAIN b = 1..k
      /\ DOMAIN (a \o b) = 1..(l + k)
      /\ \A i \in 1..(l + k) : (a \o b)[i] = IF i <= l THEN a[i] ELSE b[i - l]
  OBVIOUS
<1>2. IsFiniteSet(A) /\ IsFiniteSet(B) /\ Cardinality(A) \in Nat /\ Cardinality(B) \in Nat
  BY TimesType, FS_CardinalityType
<1> HIDE DEF l, k
<1>3. Spots(s, a \o b) = A \cup C
  <2>1. ASSUME NEW i
        PROVE  i \in Spots(s, a \o b) <=> i \in A \cup C
    <3>1. CASE i \in 1..l
      BY <3>1, <1>1 DEF Spots
    <3>2. CASE i \in (l + 1)..(l + k)
      BY <3>2, <1>1 DEF Spots
    <3>3. CASE i \notin 1..l /\ i \notin (l + 1)..(l + k)
      BY <3>3, <1>1 DEF Spots
    <3> QED
      BY <3>1, <3>2, <3>3
  <2> QED
    BY <2>1
<1>4. A \cap C = {}
  BY <1>1 DEF Spots
<1>5. shift \in Bijection(B, C)
  <2>1. \A i \in B : i \in 1..k /\ b[i] = s
    BY <1>1 DEF Spots
  <2>2. \A i \in B : shift[i] \in C /\ shift[i] = i + l /\ i + l - l = i
    BY <2>1, <1>1
  <2>3. shift \in [B -> C]
    BY <2>2
  <2>4. \A i, j \in B : shift[i] = shift[j] => i = j
    BY <2>1, <2>2, <1>1
  <2>5. ASSUME NEW c \in C
        PROVE  \E i \in B : shift[i] = c
    <3>1. c - l \in B /\ (c - l) + l = c
      BY <1>1 DEF Spots
    <3> QED
      BY <3>1, <2>2
  <2> HIDE DEF shift, B, C
  <2> QED
    BY <2>3, <2>4, <2>5 DEF Bijection, Injection, Surjection, IsInjective
<1>6. IsFiniteSet(C) /\ Cardinality(C) = Cardinality(B)
  BY <1>2, <1>5, FS_Bijection DEF ExistsBijection
<1>7. Cardinality(A \cup C) = Cardinality(A) + Cardinality(C) - Cardinality(A \cap C)
  BY <1>2, <1>6, FS_Union
<1>8. Cardinality(A \cup C) = Cardinality(A) + Cardinality(B)
  <2>1. Cardinality({}) = 0
    BY FS_EmptySet
  <2>2. Cardinality(A \cap C) = 0
    BY <1>4, <2>1
  <2> HIDE DEF A, B, C
  <2> QED
    BY <1>2, <1>6, <1>7, <2>2
<1> QED
  BY <1>3, <1>8 DEF Times, Spots

LEMMA TimesOne ==
  ASSUME NEW x, NEW s
  PROVE  Times(s, <<x>>) = IF x = s THEN 1 ELSE 0
<1>1. DOMAIN <<x>> = {1} /\ <<x>>[1] = x
  OBVIOUS
<1>2. CASE x = s
  <2>1. Spots(s, <<x>>) = {1}
    BY <1>1, <1>2 DEF Spots
  <2> QED
    BY <1>2, <2>1, FS_Singleton DEF Times, Spots
<1>3. CASE x # s
  <2>1. Spots(s, <<x>>) = {}
    BY <1>1, <1>3 DEF Spots
  <2> QED
    BY <1>3, <2>1, FS_EmptySet DEF Times, Spots
<1> QED
  BY <1>2, <1>3

LEMMA TimesAppend ==
  ASSUME NEW q \in Seq(Message), NEW m \in Message, NEW s
  PROVE  Times(s, Numbers(Append(q, m)))
           = Times(s, Numbers(q)) + IF m.seq = s THEN 1 ELSE 0
<1>1. /\ Numbers(q) \in Seq(Seqnum) /\ <<m.seq>> \in Seq(Seqnum)
      /\ Numbers(Append(q, m)) = Numbers(q) \o <<m.seq>>
  BY NumbersType, NumbersOne, NumbersAppend
<1>2. Times(s, Numbers(q) \o <<m.seq>>) = Times(s, Numbers(q)) + Times(s, <<m.seq>>)
  BY <1>1, TimesConcat
<1>3. Times(s, <<m.seq>>) = IF m.seq = s THEN 1 ELSE 0
  BY TimesOne
<1> QED
  BY <1>1, <1>2, <1>3

LEMMA TimesHead ==
  ASSUME NEW q \in Seq(Message), q # << >>, NEW s
  PROVE  Times(s, Numbers(q))
           = Times(s, Numbers(Tail(q))) + IF Head(q).seq = s THEN 1 ELSE 0
<1>1. /\ Numbers(q) = <<Head(q).seq>> \o Numbers(Tail(q))
      /\ <<Head(q).seq>> \in Seq(Seqnum) /\ Numbers(Tail(q)) \in Seq(Seqnum)
  BY NumbersHead, NumbersType, NumbersOne
<1>2. Times(s, Numbers(Tail(q))) \in Nat
  BY <1>1, TimesType
<1>3. Times(s, Numbers(q)) = Times(s, <<Head(q).seq>>) + Times(s, Numbers(Tail(q)))
  BY <1>1, TimesConcat
<1> QED
  BY <1>2, <1>3, TimesOne

\* A write keeps the messages of a node together.
LEMMA SplitsTimes ==
  ASSUME NEW q \in Seq(Message), NEW b \in Seq(Message), NEW w \in Seq(Seqnum), NEW v,
         Splits(q, b, w, v), NEW s
  PROVE  Times(s, Numbers(b)) + Times(s, v) = Times(s, Numbers(q)) + Times(s, w)
<1>1. PICK a \in Seq(Message) : q = a \o b /\ v = w \o Numbers(a)
  BY DEF Splits
<1>2. /\ Numbers(a) \in Seq(Seqnum) /\ Numbers(b) \in Seq(Seqnum)
      /\ Numbers(q) = Numbers(a) \o Numbers(b)
  BY <1>1, NumbersType, NumbersConcat
<1>3. /\ Times(s, Numbers(q)) = Times(s, Numbers(a)) + Times(s, Numbers(b))
      /\ Times(s, v) = Times(s, w) + Times(s, Numbers(a))
  BY <1>1, <1>2, TimesConcat
<1>4. /\ Times(s, Numbers(a)) \in Nat /\ Times(s, Numbers(b)) \in Nat /\ Times(s, w) \in Nat
  BY <1>2, TimesType
<1> QED
  BY <1>3, <1>4

LEMMA CarriersFinite ==
  ASSUME NEW s, NEW n
  PROVE  IsFiniteSet(Carriers(s, n)) /\ Cardinality(Carriers(s, n)) \in Nat
<1>1. IsFiniteSet(Thread)
  <2>1. IsFiniteSet(Caller \cup {Receiver})
    BY TransmissionAssumption, FS_AddElement
  <2> QED
    BY <2>1 DEF Thread
<1>2. Carriers(s, n) \in SUBSET Thread
  BY DEF Carriers
<1>3. IsFiniteSet(Carriers(s, n))
  BY <1>1, <1>2, FS_Subset
<1> QED
  BY <1>3, FS_CardinalityType

LEMMA CopiesType ==
  ASSUME TypeOK, NEW n \in Address, NEW s
  PROVE  /\ Cardinality(Carriers(s, n)) \in Nat
         /\ Times(s, Numbers(message_queue[n])) \in Nat
         /\ Times(s, Numbers(buffer[n])) \in Nat
         /\ Times(s, wire[n]) \in Nat
<1>1. /\ message_queue[n] \in Seq(Message) /\ buffer[n] \in Seq(Message)
      /\ wire[n] \in Seq(Seqnum)
  BY DEF TypeOK, TableTypeOK
<1>2. /\ Numbers(message_queue[n]) \in Seq(Seqnum) /\ Numbers(buffer[n]) \in Seq(Seqnum)
  BY <1>1, NumbersType
<1> QED
  BY <1>1, <1>2, CarriersFinite, TimesType

----------------------------------------------------------------------------
(* Where a message goes from one critical section to the next.              *)

LEMMA InitConserved == Init => Conserved
<1> SUFFICES ASSUME Init, NEW n \in Address, NEW s \in Seqnum
             PROVE  Copies(s, n) = given[n][s]
  BY DEF Conserved
<1>1. Carriers(s, n) = {}
  BY DEF Init, Carriers, Thread
<1>2. /\ message_queue[n] = << >> /\ buffer[n] = << >> /\ wire[n] = << >> /\ given[n][s] = 0
  BY DEF Init, TableInit, NoMessages
<1>3. Times(s, << >>) = 0
  <2>1. {i \in DOMAIN << >> : << >>[i] = s} = {}
    OBVIOUS
  <2> QED
    BY <2>1, FS_EmptySet DEF Times
<1> QED
  BY <1>1, <1>2, <1>3, NumbersNone, FS_EmptySet DEF Copies

LEMMA TakeNumberConserved ==
  ASSUME TypeOK, Conserved, NEW t \in Thread, NEW n \in Address, NEW y \in Type,
         TakeNumber(t, n, y)
  PROVE  Conserved'
<1> DEFINE e == [to |-> n, msg |-> [type |-> y, seq |-> send_seqnum[n]]]
<1>1. /\ pc[t] = "idle" /\ pc' = [pc EXCEPT ![t] = "numbered"]
      /\ job' = [job EXCEPT ![t] = e]
      /\ given' = [given EXCEPT ![n][send_seqnum[n]] = @ + 1]
      /\ UNCHANGED <<message_queue, buffer, wire>>
  BY DEF TakeNumber, GoTo, line
<1>2. e.to = n /\ e.msg.seq = send_seqnum[n] /\ send_seqnum[n] \in Seqnum
  BY DEF TypeOK, TableTypeOK
<1> HIDE DEF e
<1> SUFFICES ASSUME NEW k \in Address, NEW s \in Seqnum
             PROVE  Copies(s, k)' = given'[k][s]
  BY DEF Conserved
<1>3. Copies(s, k) = given[k][s] /\ given[k][s] \in Nat
  BY DEF Conserved, TypeOK
<1>4. CASE k = n /\ s = send_seqnum[n]
  <2>1. t \notin Carriers(s, k) /\ Carriers(s, k)' = Carriers(s, k) \cup {t}
    BY <1>1, <1>2, <1>4 DEF Carriers, TypeOK
  <2>2. Cardinality(Carriers(s, k)') = Cardinality(Carriers(s, k)) + 1
    BY <2>1, CarriersFinite, FS_AddElement
  <2>3. given'[k][s] = given[k][s] + 1
    BY <1>1, <1>2, <1>4 DEF TypeOK
  <2>4. Copies(s, k)' = Copies(s, k) + 1
    BY <1>1, <2>2, CopiesType DEF Copies
  <2> QED
    BY <1>3, <2>3, <2>4
<1>5. CASE ~(k = n /\ s = send_seqnum[n])
  <2>1. Carriers(s, k)' = Carriers(s, k)
    BY <1>1, <1>2, <1>5 DEF Carriers, TypeOK
  <2>2. given'[k][s] = given[k][s]
    BY <1>1, <1>2, <1>5 DEF TypeOK
  <2> QED
    BY <1>1, <1>3, <2>1, <2>2 DEF Copies
<1> QED
  BY <1>4, <1>5

\* A thread gives its message away.
LEMMA HandOver ==
  ASSUME TypeOK, NEW t \in Thread, pc[t] \in {"numbered", "accepted"},
         NEW l \in {"flush", "idle"}, pc' = [pc EXCEPT ![t] = l], UNCHANGED job,
         NEW n, NEW s
  PROVE  Cardinality(Carriers(s, n))
           = Cardinality(Carriers(s, n)') + IF n = job[t].to /\ s = job[t].msg.seq THEN 1 ELSE 0
<1>1. /\ IsFiniteSet(Carriers(s, n)) /\ Cardinality(Carriers(s, n)) \in Nat
  BY CarriersFinite
<1>2. Carriers(s, n)' = Carriers(s, n) \ {t}
  BY DEF Carriers, TypeOK
<1>3. t \in Carriers(s, n) <=> n = job[t].to /\ s = job[t].msg.seq
  BY DEF Carriers
<1>4. Cardinality(Carriers(s, n) \ {t})
        = IF t \in Carriers(s, n) THEN Cardinality(Carriers(s, n)) - 1
          ELSE Cardinality(Carriers(s, n))
  BY <1>1, FS_RemoveElement
<1> QED
  BY <1>1, <1>2, <1>3, <1>4

LEMMA HandOverFinite ==
  ASSUME TypeOK, NEW t \in Thread, pc[t] \in {"numbered", "accepted"},
         NEW l \in {"flush", "idle"}, pc' = [pc EXCEPT ![t] = l], UNCHANGED job,
         NEW n, NEW s
  PROVE  Cardinality(Carriers(s, n)') \in Nat
<1>1. IsFiniteSet(Carriers(s, n))
  BY CarriersFinite
<1>2. Carriers(s, n)' = Carriers(s, n) \ {t}
  BY DEF Carriers, TypeOK
<1>3. IsFiniteSet(Carriers(s, n)')
  BY <1>1, <1>2, FS_RemoveElement
<1> QED
  BY <1>3, FS_CardinalityType

LEMMA TrySendConserved ==
  ASSUME TypeOK, Conserved, NEW t \in Thread, TrySend(t)
  PROVE  Conserved'
<1> DEFINE to == job[t].to
           m == job[t].msg
<1>0. /\ pc[t] = "numbered" /\ to \in Address /\ m \in Message
      /\ UNCHANGED <<job, given, buffer, wire>>
  BY DEF TrySend, TypeOK, Job, line
<1>1. CASE SendNow(to, m) /\ GoTo(t, "accepted")
  <2>1. pc' = [pc EXCEPT ![t] = "accepted"] /\ UNCHANGED message_queue
    BY <1>1 DEF SendNow, GoTo
  <2>2. \A n, s : Carriers(s, n)' = Carriers(s, n)
    BY <1>0, <2>1 DEF Carriers, TypeOK
  <2> QED
    BY <1>0, <2>1, <2>2 DEF Conserved, Copies
<1>2. CASE Store(to, m) /\ GoTo(t, AfterSend(t))
  <2>1. PICK l \in {"flush", "idle"} : pc' = [pc EXCEPT ![t] = l]
    BY <1>2 DEF GoTo, AfterSend
  <2>2. message_queue' = [message_queue EXCEPT ![to] = Append(@, m)]
    BY <1>2 DEF Store
  <2> SUFFICES ASSUME NEW n \in Address, NEW s \in Seqnum
               PROVE  Copies(s, n)' = given'[n][s]
    BY DEF Conserved
  <2>3. Copies(s, n) = given[n][s]
    BY DEF Conserved
  <2>4. Cardinality(Carriers(s, n))
          = Cardinality(Carriers(s, n)') + IF n = to /\ s = m.seq THEN 1 ELSE 0
    BY <1>0, <2>1, HandOver
  <2>5. Times(s, Numbers(message_queue'[n]))
          = Times(s, Numbers(message_queue[n])) + IF n = to /\ s = m.seq THEN 1 ELSE 0
    <3>1. message_queue[n] \in Seq(Message) /\ Times(s, Numbers(message_queue[n])) \in Nat
      BY CopiesType DEF TypeOK, TableTypeOK
    <3>2. message_queue'[n] = IF n = to THEN Append(message_queue[n], m) ELSE message_queue[n]
      BY <2>2 DEF TypeOK, TableTypeOK
    <3>3. CASE n = to
      BY <3>1, <3>2, <3>3, <1>0, TimesAppend
    <3>4. CASE n # to
      BY <3>1, <3>2, <3>4
    <3> QED
      BY <3>3, <3>4
  <2>6. Cardinality(Carriers(s, n)') \in Nat
    BY <1>0, <2>1, HandOverFinite
  <2> HIDE DEF to, m
  <2> QED
    BY <1>0, <2>3, <2>4, <2>5, <2>6, CopiesType DEF Copies
<1> QED
  BY <1>1, <1>2 DEF TrySend

\* What AddToBuffer does to the counts of one node.
LEMMA AddToBufferTimes ==
  ASSUME TypeOK, NEW e \in Job, AddToBuffer(e), NEW n \in Address, NEW s
  PROVE  Times(s, Numbers(buffer'[n])) + Times(s, wire'[n])
           = Times(s, Numbers(buffer[n])) + Times(s, wire[n])
               + IF n = e.to /\ s = e.msg.seq THEN 1 ELSE 0
<1>1. /\ e.to \in Address /\ e.msg \in Message
      /\ buffer[n] \in Seq(Message) /\ wire[n] \in Seq(Seqnum)
  BY DEF Job, TypeOK
<1>2. With(buffer, e)[n] = IF n = e.to THEN Append(buffer[n], e.msg) ELSE buffer[n]
  BY DEF With, TypeOK
<1>3. With(buffer, e)[n] \in Seq(Message)
  BY <1>1, <1>2
<1>4. buffer'[n] \in Seq(Message) /\ Splits(With(buffer, e)[n], buffer'[n], wire[n], wire'[n])
  BY AddToBufferSplits
<1>5. Times(s, Numbers(buffer'[n])) + Times(s, wire'[n])
        = Times(s, Numbers(With(buffer, e)[n])) + Times(s, wire[n])
  BY <1>1, <1>3, <1>4, SplitsTimes
<1>6. Times(s, Numbers(With(buffer, e)[n]))
        = Times(s, Numbers(buffer[n])) + IF n = e.to /\ s = e.msg.seq THEN 1 ELSE 0
  <2>1. CASE n = e.to
    BY <2>1, <1>1, <1>2, TimesAppend
  <2>2. CASE n # e.to
    BY <2>2, <1>2, CopiesType
  <2> QED
    BY <2>1, <2>2
<1> QED
  BY <1>5, <1>6, CopiesType

LEMMA PutIntoBufferConserved ==
  ASSUME TypeOK, TypeOK', Conserved, NEW t \in Thread, PutIntoBuffer(t)
  PROVE  Conserved'
<1>0. /\ pc[t] = "accepted" /\ job[t] \in Job /\ AddToBuffer(job[t])
      /\ UNCHANGED <<job, given, message_queue>>
  BY DEF PutIntoBuffer, TypeOK, table
<1>1. PICK l \in {"flush", "idle"} : pc' = [pc EXCEPT ![t] = l]
  BY DEF PutIntoBuffer, GoTo, AfterSend
<1> SUFFICES ASSUME NEW n \in Address, NEW s \in Seqnum
             PROVE  Copies(s, n)' = given'[n][s]
  BY DEF Conserved
<1>2. Copies(s, n) = given[n][s]
  BY DEF Conserved
<1>3. Cardinality(Carriers(s, n))
        = Cardinality(Carriers(s, n)') + IF n = job[t].to /\ s = job[t].msg.seq THEN 1 ELSE 0
  BY <1>0, <1>1, HandOver
<1>4. Times(s, Numbers(buffer'[n])) + Times(s, wire'[n])
        = Times(s, Numbers(buffer[n])) + Times(s, wire[n])
            + IF n = job[t].to /\ s = job[t].msg.seq THEN 1 ELSE 0
  BY <1>0, AddToBufferTimes
<1>5. /\ Cardinality(Carriers(s, n)') \in Nat
      /\ Times(s, Numbers(buffer'[n])) \in Nat /\ Times(s, wire'[n]) \in Nat
  <2>1. Numbers(buffer'[n]) \in Seq(Seqnum) /\ wire'[n] \in Seq(Seqnum)
    BY NumbersType DEF TypeOK
  <2>2. Cardinality(Carriers(s, n)') \in Nat
    BY <1>0, <1>1, HandOverFinite
  <2> QED
    BY <2>1, <2>2, TimesType
<1> QED
  BY <1>0, <1>2, <1>3, <1>4, <1>5, CopiesType DEF Copies

LEMMA SendStoredConserved ==
  ASSUME TypeInv, TypeOK', Conserved, SendStored
  PROVE  Conserved'
<1> DEFINE q == message_queue[serving]
           e == [to |-> serving, msg |-> Head(message_queue[serving])]
<1>0. TypeOK
  BY DEF TypeInv
<1>1. serving \in Address /\ q # << >> /\ e \in Job
  BY SendStoredType
<1>2. /\ message_queue' = [message_queue EXCEPT ![serving] = Tail(@)] /\ AddToBuffer(e)
      /\ UNCHANGED <<pc, job, given>>
  BY DEF SendStored, Dequeue, sending
<1> SUFFICES ASSUME NEW n \in Address, NEW s \in Seqnum
             PROVE  Copies(s, n)' = given'[n][s]
  BY DEF Conserved
<1>3. Copies(s, n) = given[n][s] /\ Carriers(s, n)' = Carriers(s, n)
  BY <1>2 DEF Conserved, Carriers
<1>4. Times(s, Numbers(message_queue[n]))
        = Times(s, Numbers(message_queue'[n])) + IF n = e.to /\ s = e.msg.seq THEN 1 ELSE 0
  <2>1. message_queue[n] \in Seq(Message) /\ Times(s, Numbers(message_queue[n])) \in Nat
    BY <1>0, CopiesType DEF TypeOK, TableTypeOK
  <2>2. message_queue'[n] = IF n = serving THEN Tail(message_queue[n]) ELSE message_queue[n]
    BY <1>0, <1>2 DEF TypeOK, TableTypeOK
  <2>3. CASE n = serving
    BY <2>1, <2>2, <2>3, <1>1, TimesHead
  <2>4. CASE n # serving
    BY <2>1, <2>2, <2>4
  <2> QED
    BY <2>3, <2>4
<1>5. Times(s, Numbers(buffer'[n])) + Times(s, wire'[n])
        = Times(s, Numbers(buffer[n])) + Times(s, wire[n])
            + IF n = e.to /\ s = e.msg.seq THEN 1 ELSE 0
  BY <1>0, <1>1, <1>2, AddToBufferTimes
<1>6. /\ Times(s, Numbers(message_queue'[n])) \in Nat
      /\ Times(s, Numbers(buffer'[n])) \in Nat /\ Times(s, wire'[n]) \in Nat
  <2>1. /\ Numbers(buffer'[n]) \in Seq(Seqnum) /\ wire'[n] \in Seq(Seqnum)
        /\ Numbers(message_queue'[n]) \in Seq(Seqnum)
    BY NumbersType DEF TypeOK, TableTypeOK
  <2> QED
    BY <2>1, TimesType
<1> HIDE DEF e, q
<1>7. PICK d \in {0, 1} : d = IF n = e.to /\ s = e.msg.seq THEN 1 ELSE 0
  OBVIOUS
<1>8. /\ Times(s, Numbers(message_queue[n])) = Times(s, Numbers(message_queue'[n])) + d
      /\ Times(s, Numbers(buffer'[n])) + Times(s, wire'[n])
           = Times(s, Numbers(buffer[n])) + Times(s, wire[n]) + d
      /\ given'[n][s] = given[n][s]
  BY <1>2, <1>4, <1>5, <1>7
<1>9. Copies(s, n)' = Copies(s, n)
  <2>1. /\ Cardinality(Carriers(s, n)) \in Nat
        /\ Times(s, Numbers(message_queue[n])) \in Nat
        /\ Times(s, Numbers(buffer[n])) \in Nat /\ Times(s, wire[n]) \in Nat
    BY <1>0, CopiesType
  <2>2. Carriers(s, n)' = Carriers(s, n)
    BY <1>3
  <2> QED
    BY <1>6, <1>8, <2>1, <2>2 DEF Copies
<1> QED
  BY <1>3, <1>8, <1>9

\* Where nothing but a flush moves a message.
LEMMA FlushConserved ==
  ASSUME TypeOK, TypeOK', Conserved, Flush \/ UNCHANGED <<buffer, wire>>,
         UNCHANGED <<message_queue, given>>,
         \A n, s : Carriers(s, n)' = Carriers(s, n)
  PROVE  Conserved'
<1> SUFFICES ASSUME NEW n \in Address, NEW s \in Seqnum
             PROVE  Copies(s, n)' = given'[n][s]
  BY DEF Conserved
<1>1. Copies(s, n) = given[n][s]
  BY DEF Conserved
<1>2. Times(s, Numbers(buffer'[n])) + Times(s, wire'[n])
        = Times(s, Numbers(buffer[n])) + Times(s, wire[n])
  <2>1. CASE Flush
    <3>1. /\ buffer[n] \in Seq(Message) /\ wire[n] \in Seq(Seqnum) /\ buffer'[n] \in Seq(Message)
          /\ Splits(buffer[n], buffer'[n], wire[n], wire'[n])
      BY <2>1, FlushSplits DEF TypeOK
    <3> QED
      BY <3>1, SplitsTimes
  <2>2. CASE UNCHANGED <<buffer, wire>>
    BY <2>2
  <2> QED
    BY <2>1, <2>2
<1>3. Times(s, Numbers(buffer'[n])) \in Nat /\ Times(s, wire'[n]) \in Nat
  <2>1. Numbers(buffer'[n]) \in Seq(Seqnum) /\ wire'[n] \in Seq(Seqnum)
    BY NumbersType DEF TypeOK
  <2> QED
    BY <2>1, TimesType
<1> QED
  BY <1>1, <1>2, <1>3, CopiesType DEF Copies

\* The steps of the others move no message, or flush the buffer.
LEMMA OtherSteps ==
  ASSUME TypeOK,
         \/ UpdateStep \/ EndSendStored \/ HandleStall \/ HandleOther \/ AutoFlush \/ FlushReply
         \/ \E n \in Address : HearAnswer(n) \/ HearOccupancy(n) \/ HearStall(n) \/ HearReady(n)
         \/ UNCHANGED vars
  PROVE  /\ Flush \/ UNCHANGED <<buffer, wire>>
         /\ UNCHANGED <<message_queue, send_seqnum, given, job>>
         /\ \A t \in Thread : \/ pc'[t] = pc[t]
                              \/ {pc[t], pc'[t]} \subseteq {"flush", "idle"}
<1>1. CASE UpdateStep
  BY <1>1 DEF UpdateStep, Match, Skip, EndUpdate, ServeNextAffected, EndStallOff, sending, line,
              table
<1>2. CASE EndSendStored
  BY <1>2 DEF EndSendStored, EndServing, sending, line
<1>3. CASE HandleStall \/ HandleOther
  BY <1>3 DEF HandleStall, HandleOther, StallOn, StallOff, sending, line, table
<1>4. CASE AutoFlush \/ FlushReply
  BY <1>4 DEF AutoFlush, FlushReply, GoTo, sending, table, TypeOK
<1>5. ASSUME NEW n \in Address,
             HearAnswer(n) \/ HearOccupancy(n) \/ HearStall(n) \/ HearReady(n)
      PROVE  UNCHANGED <<buffer, wire, message_queue, send_seqnum, given, job, pc>>
  BY <1>5 DEF HearAnswer, HearOccupancy, HearStall, HearReady, HearEvent, Hear, BeginUpdate,
              sending, table
<1>6. CASE UNCHANGED vars
  BY <1>6 DEF vars, table, sending, line
<1> QED
  BY <1>1, <1>2, <1>3, <1>4, <1>5, <1>6

LEMMA ConservedStep ==
  ASSUME TypeInv, TypeInv', Conserved, [Next]_vars
  PROVE  Conserved'
<1>0. TypeOK /\ TypeOK'
  BY DEF TypeInv
<1>1. ASSUME NEW t \in Caller, NEW n \in Address, NEW y \in CallType, Call(t, n, y)
      PROVE  Conserved'
  <2>1. t \in Thread /\ y \in Type /\ TakeNumber(t, n, y)
    BY <1>1, TransmissionAssumption DEF Call, Thread
  <2> QED
    BY <1>0, <2>1, TakeNumberConserved
<1>2. CASE Reply
  <2>1. /\ Receiver \in Thread /\ ReplyType \in Type /\ heard[1] \in Address
        /\ TakeNumber(Receiver, heard[1], ReplyType)
    BY <1>2, TransmissionAssumption DEF Reply, Updated, Thread
  <2> QED
    BY <1>0, <2>1, TakeNumberConserved
<1>3. ASSUME \/ UpdateStep \/ EndSendStored \/ HandleStall \/ HandleOther
             \/ AutoFlush \/ FlushReply
             \/ \E n \in Address : \/ HearAnswer(n) \/ HearOccupancy(n)
                                   \/ HearStall(n) \/ HearReady(n)
             \/ UNCHANGED vars
      PROVE  Conserved'
  <2>1. /\ Flush \/ UNCHANGED <<buffer, wire>>
        /\ UNCHANGED <<message_queue, given, job>>
        /\ \A t \in Thread : \/ pc'[t] = pc[t]
                             \/ {pc[t], pc'[t]} \subseteq {"flush", "idle"}
    BY <1>0, <1>3, OtherSteps
  <2>2. \A n, s : Carriers(s, n)' = Carriers(s, n)
    BY <2>1 DEF Carriers
  <2> QED
    BY <1>0, <2>1, <2>2, FlushConserved
<1> QED
  BY <1>0, <1>1, <1>2, <1>3, TrySendConserved, PutIntoBufferConserved, SendStoredConserved
     DEF Next, Handle

(* No message is lost or doubled: for every number given out there is one   *)
(* message in the hands of a thread, stored, buffered or on the line.       *)
THEOREM MessagesAreConserved == Spec => []Conserved
<1>1. Init => TypeInv /\ Conserved
  BY InitType, InitConserved
<1>2. TypeInv /\ Conserved /\ [Next]_vars => (TypeInv /\ Conserved)'
  BY TypeStep, ConservedStep
<1> QED
  BY <1>1, <1>2, PTL DEF Spec

----------------------------------------------------------------------------
(* Order: the nodes with one sender.                                        *)
Accepted(n) == InHand(n, "accepted")
Numbered(n) == InHand(n, "numbered")

\* What waits behind the messages in the buffer.
Rest(n) == Accepted(n) \o Numbers(message_queue[n]) \o Numbered(n)

(* The invariant the order rests on: while the sender of n is between the   *)
(* table, which let its message pass, and the buffer, nothing is stored for *)
(* n, so nothing stored can overtake it or be overtaken.                    *)
NoneOvertakes == \A n \in Exclusive : Accepted(n) # << >> => message_queue[n] = << >>

LEMMA SenderIs ==
  ASSUME NEW n \in Exclusive, NEW t \in Thread, n \in SendTo[t]
  PROVE  /\ n \in Address
         /\ (CHOOSE u \in Thread : n \in SendTo[u]) = t
<1>1. PICK v \in Thread : \A u \in Thread : n \in SendTo[u] <=> u = v
  BY DEF Exclusive
<1>2. v = t
  BY <1>1
<1> QED
  BY <1>1, <1>2 DEF Exclusive

LEMMA InHandOf ==
  ASSUME NEW n \in Exclusive, NEW t \in Thread, n \in SendTo[t], NEW l
  PROVE  /\ InHand(n, l)
              = IF pc[t] = l /\ job[t].to = n THEN <<job[t].msg.seq>> ELSE << >>
         /\ InHand(n, l)'
              = IF pc'[t] = l /\ job'[t].to = n THEN <<job'[t].msg.seq>> ELSE << >>
<1> DEFINE v == CHOOSE u \in Thread : n \in SendTo[u]
<1>1. v = t
  BY SenderIs
<1>2. InHand(n, l) = IF pc[v] = l /\ job[v].to = n THEN <<job[v].msg.seq>> ELSE << >>
  BY DEF InHand
<1>3. InHand(n, l)' = IF pc'[v] = l /\ job'[v].to = n THEN <<job'[v].msg.seq>> ELSE << >>
  BY DEF InHand
<1> HIDE DEF v
<1> QED
  BY <1>1, <1>2, <1>3

LEMMA ASender ==
  ASSUME NEW n \in Exclusive
  PROVE  /\ n \in Address
         /\ \E t \in Thread : n \in SendTo[t]
BY DEF Exclusive

RestTyped ==
  \A n \in Exclusive :
    /\ Accepted(n) \in Seq(Seqnum) /\ Numbered(n) \in Seq(Seqnum)
    /\ Numbers(message_queue[n]) \in Seq(Seqnum) /\ Numbers(buffer[n]) \in Seq(Seqnum)
    /\ Rest(n) \in Seq(Seqnum)
    /\ Waiting[n] = Numbers(buffer[n]) \o Rest(n)

LEMMA RestType == TypeOK => RestTyped
<1> SUFFICES ASSUME TypeOK, NEW n \in Exclusive
             PROVE  /\ Accepted(n) \in Seq(Seqnum) /\ Numbered(n) \in Seq(Seqnum)
                    /\ Numbers(message_queue[n]) \in Seq(Seqnum)
                    /\ Numbers(buffer[n]) \in Seq(Seqnum)
                    /\ Rest(n) \in Seq(Seqnum)
                    /\ Waiting[n] = Numbers(buffer[n]) \o Rest(n)
  BY DEF RestTyped
<1>1. PICK t \in Thread : n \in SendTo[t]
  BY ASender
<1>2. pc[t] \in {"accepted", "numbered"} => job[t].msg \in Message
  BY DEF TypeOK, Job
<1>3. ASSUME NEW l \in {"accepted", "numbered"}
      PROVE  InHand(n, l) \in Seq(Seqnum)
  <2>1. CASE pc[t] = l /\ job[t].to = n
    <3>1. InHand(n, l) = <<job[t].msg.seq>>
      BY <2>1, <1>1, InHandOf
    <3> QED
      BY <3>1, <2>1, <1>2, NumbersOne
  <2>2. CASE ~(pc[t] = l /\ job[t].to = n)
    <3>1. InHand(n, l) = << >>
      BY <2>2, <1>1, InHandOf
    <3> QED
      BY <3>1
  <2> QED
    BY <2>1, <2>2
<1>4. Accepted(n) \in Seq(Seqnum) /\ Numbered(n) \in Seq(Seqnum)
  BY <1>3 DEF Accepted, Numbered
<1>5. Numbers(message_queue[n]) \in Seq(Seqnum) /\ Numbers(buffer[n]) \in Seq(Seqnum)
  BY ASender, NumbersType DEF TypeOK, TableTypeOK
<1>8. Waiting[n] = Numbers(buffer[n]) \o Accepted(n) \o Numbers(message_queue[n]) \o Numbered(n)
  BY DEF Waiting, Accepted, Numbered
<1> DEFINE b == Numbers(buffer[n])
           q == Numbers(message_queue[n])
           a == Accepted(n)
           c == Numbered(n)
<1> HIDE DEF b, q, a, c
<1>9. a \in Seq(Seqnum) /\ b \in Seq(Seqnum) /\ q \in Seq(Seqnum) /\ c \in Seq(Seqnum)
  BY <1>4, <1>5 DEF a, b, c, q
<1>10. a \o q \in Seq(Seqnum) /\ (a \o q) \o c \in Seq(Seqnum)
  BY <1>9, ConcatProperties
<1>11. (b \o a) \o q = b \o (a \o q)
  BY <1>9, ConcatAssociative
<1>12. (b \o (a \o q)) \o c = b \o ((a \o q) \o c)
  <2>1. PICK d \in Seq(Seqnum) : d = a \o q
    BY <1>10
  <2>2. (b \o d) \o c = b \o (d \o c)
    BY <1>9, ConcatAssociative, SMTT(20)
  <2> QED
    BY <2>1, <2>2
<1>13. Waiting[n] = ((b \o a) \o q) \o c /\ Rest(n) = (a \o q) \o c
  BY <1>8 DEF a, b, c, q, Rest
<1>14. Waiting[n] = b \o Rest(n)
  BY <1>11, <1>12, <1>13
<1> QED
  BY <1>4, <1>5, <1>10, <1>13, <1>14 DEF b

\* A write of the channel: a first part of s goes to the line, y is left.
Writes(s, y, w, v) ==
  \E k \in 0..Len(s) : y = SubSeq(s, k + 1, Len(s)) /\ v = w \o SubSeq(s, 1, k)

\* What a split of the buffer does is what a write of the channel does.
LEMMA SplitsWrites ==
  ASSUME NEW q \in Seq(Message), NEW b \in Seq(Message), NEW w \in Seq(Seqnum), NEW v,
         Splits(q, b, w, v), NEW r \in Seq(Seqnum)
  PROVE  Writes(Numbers(q) \o r, Numbers(b) \o r, w, v)
<1>1. PICK a \in Seq(Message) : q = a \o b /\ v = w \o Numbers(a)
  BY DEF Splits
<1> DEFINE x == Numbers(a)
           y == Numbers(b) \o r
           s == Numbers(q) \o r
<1>2. /\ x \in Seq(Seqnum) /\ Numbers(b) \in Seq(Seqnum)
      /\ Numbers(q) = x \o Numbers(b)
  BY <1>1, NumbersType, NumbersConcat
<1>3. y \in Seq(Seqnum) /\ s = x \o y
  BY <1>2, ConcatProperties, ConcatAssociative, SMTT(20)
<1> HIDE DEF x, y, s
<1>4. /\ Len(x) \in Nat /\ Len(y) \in Nat
      /\ s \in Seq(Seqnum) /\ Len(s) = Len(x) + Len(y)
      /\ \A i \in 1..(Len(x) + Len(y)) : s[i] = IF i <= Len(x) THEN x[i] ELSE y[i - Len(x)]
  BY <1>2, <1>3, ConcatProperties
<1>5. SubSeq(s, 1, Len(x)) = x
  <2>1. \A i \in 1..Len(x) : s[i] \in Seqnum /\ s[i] = x[i]
    BY <1>2, <1>4
  <2>2. /\ SubSeq(s, 1, Len(x)) \in Seq(Seqnum)
        /\ Len(SubSeq(s, 1, Len(x))) = Len(x)
        /\ \A i \in 1..Len(x) : SubSeq(s, 1, Len(x))[i] = s[i]
    BY <1>4, <2>1, SubSeqProperties
  <2> QED
    BY <1>2, <2>1, <2>2, SeqEqual
<1>6. SubSeq(s, Len(x) + 1, Len(s)) = y
  <2>1. \A i \in (Len(x) + 1)..Len(s) : s[i] \in Seqnum
    BY <1>4
  <2>2. /\ SubSeq(s, Len(x) + 1, Len(s)) \in Seq(Seqnum)
        /\ Len(SubSeq(s, Len(x) + 1, Len(s))) = Len(y)
        /\ \A i \in 1..Len(y) : SubSeq(s, Len(x) + 1, Len(s))[i] = s[Len(x) + i]
    BY <1>4, <2>1, SubSeqProperties
  <2>3. ASSUME NEW i \in 1..Len(y)
        PROVE  s[Len(x) + i] = y[i]
    <3>1. /\ Len(x) + i \in 1..(Len(x) + Len(y)) /\ ~(Len(x) + i <= Len(x))
          /\ Len(x) + i - Len(x) = i
      BY <1>4
    <3> QED
      BY <1>4, <3>1
  <2> QED
    BY <1>3, <2>2, <2>3, SeqEqual
<1>7. Len(x) \in 0..Len(s)
  BY <1>4
<1> QED
  BY <1>1, <1>5, <1>6, <1>7 DEF x, y, s, Writes

\* The form every write to the line has for the channel.
LEMMA WriteStep ==
  ASSUME TypeOK, TypeOK', UNCHANGED send_seqnum,
         \A n \in Exclusive : \E q \in Seq(Message) :
           /\ Splits(q, buffer'[n], wire[n], wire'[n])
           /\ Waiting[n] = Numbers(q) \o Rest(n)'
  PROVE  Ordered!Write
<1>1. ASSUME NEW n \in Exclusive
      PROVE  \E k \in 0..Len(Waiting[n]) :
               /\ Waiting'[n] = SubSeq(Waiting[n], k + 1, Len(Waiting[n]))
               /\ wire'[n] = wire[n] \o SubSeq(Waiting[n], 1, k)
  <2>1. PICK q \in Seq(Message) : /\ Splits(q, buffer'[n], wire[n], wire'[n])
                                  /\ Waiting[n] = Numbers(q) \o Rest(n)'
    BY <1>1
  <2>2. buffer'[n] \in Seq(Message) /\ wire[n] \in Seq(Seqnum)
    BY ASender DEF TypeOK
  <2>3. Rest(n)' \in Seq(Seqnum) /\ Waiting'[n] = Numbers(buffer'[n]) \o Rest(n)'
    <3>1. TypeOK' => RestTyped'
      BY RestType, PTL
    <3> QED
      BY <3>1 DEF RestTyped
  <2>4. Writes(Waiting[n], Waiting'[n], wire[n], wire'[n])
    <3>1. PICK r \in Seq(Seqnum) : r = Rest(n)'
      BY <2>3
    <3>2. PICK b \in Seq(Message), w \in Seq(Seqnum) : b = buffer'[n] /\ w = wire[n]
      BY <2>2
    <3>3. PICK v : v = wire'[n] /\ Splits(q, b, w, v)
      BY <2>1, <3>2
    <3>4. Writes(Numbers(q) \o r, Numbers(b) \o r, w, v)
      BY <2>1, <3>1, <3>2, <3>3, SplitsWrites
    <3>5. Waiting[n] = Numbers(q) \o r /\ Waiting'[n] = Numbers(b) \o r
      BY <2>1, <2>3, <3>1, <3>2
    <3> QED
      BY <3>1, <3>2, <3>3, <3>4, <3>5
  <2> QED
    BY <2>4 DEF Writes
<1>2. \A n \in Exclusive :
        [k \in Exclusive |-> wire[k]][n] = wire[n] /\ [k \in Exclusive |-> wire'[k]][n] = wire'[n]
  OBVIOUS
<1>3. DOMAIN Waiting' = Exclusive /\ DOMAIN [n \in Exclusive |-> wire'[n]] = Exclusive
  BY DEF Waiting
<1> QED
  BY <1>1, <1>2, <1>3 DEF Ordered!Write

----------------------------------------------------------------------------
(* Each step of the threads is a step of the channel, or none.              *)
\* Who has a message for n is the sender of n.
LEMMA HasSender ==
  ASSUME TypeOK, NEW t \in Thread, pc[t] \in {"accepted", "numbered"}
  PROVE  job[t] \in Job /\ job[t].to \in SendTo[t] /\ job[t].to \in Address
                        /\ job[t].msg \in Message
BY DEF TypeOK, Job

\* What a step of t does not touch of a node.
LEMMA OtherNode ==
  ASSUME NEW n \in Exclusive, NEW t \in Thread,
         \A u \in Thread \ {t} : pc'[u] = pc[u] /\ job'[u] = job[u],
         \A l \in {"accepted", "numbered"} :
           /\ ~(pc[t] = l /\ job[t].to = n)
           /\ ~(pc'[t] = l /\ job'[t].to = n)
  PROVE  Accepted(n)' = Accepted(n) /\ Numbered(n)' = Numbered(n)
<1>1. PICK u \in Thread : n \in SendTo[u]
  BY ASender
<1>2. ASSUME NEW l \in {"accepted", "numbered"}
      PROVE  InHand(n, l)' = InHand(n, l)
  <2>1. CASE u = t
    <3>1. InHand(n, l) = << >> /\ InHand(n, l)' = << >>
      BY <1>1, <2>1, InHandOf
    <3> QED
      BY <3>1
  <2>2. CASE u # t
    <3>1. pc'[u] = pc[u] /\ job'[u] = job[u]
      BY <2>2
    <3> QED
      BY <1>1, <3>1, InHandOf
  <2> QED
    BY <2>1, <2>2
<1> QED
  BY <1>2 DEF Accepted, Numbered

LEMMA TakeNumberOrdered ==
  ASSUME TypeOK, TypeOK', NoneOvertakes, NEW t \in Thread, NEW k \in Address, NEW y \in Type,
         TakeNumber(t, k, y)
  PROVE  NoneOvertakes' /\ [Ordered!Next]_(Ordered!vars)
<1> DEFINE e == [to |-> k, msg |-> [type |-> y, seq |-> send_seqnum[k]]]
<1>1. /\ pc[t] = "idle" /\ pc' = [pc EXCEPT ![t] = "numbered"]
      /\ job' = [job EXCEPT ![t] = e] /\ e.to = k /\ e.msg.seq = send_seqnum[k]
      /\ k \in SendTo[t]
      /\ send_seqnum' = [send_seqnum EXCEPT ![k] = NextSeqnum(@)]
      /\ UNCHANGED <<message_queue, buffer, wire>>
  BY DEF TakeNumber, GoTo, TakeSeqnum, line
<1> HIDE DEF e
<1>2. /\ pc'[t] = "numbered" /\ job'[t] = e
      /\ \A u \in Thread \ {t} : pc'[u] = pc[u] /\ job'[u] = job[u]
  BY <1>1 DEF TypeOK
<1>3. ASSUME NEW n \in Exclusive, n # k
      PROVE  Accepted(n)' = Accepted(n) /\ Numbered(n)' = Numbered(n)
  BY <1>1, <1>2, <1>3, OtherNode
<1>4. ASSUME k \in Exclusive
      PROVE  /\ Accepted(k) = << >> /\ Accepted(k)' = << >>
             /\ Numbered(k) = << >> /\ Numbered(k)' = <<send_seqnum[k]>>
  BY <1>1, <1>2, <1>4, InHandOf DEF Accepted, Numbered
<1>5. NoneOvertakes'
  BY <1>1, <1>3, <1>4 DEF NoneOvertakes
<1>6. Waiting = [n \in Exclusive |-> Waiting[n]] /\ Waiting' = [n \in Exclusive |-> Waiting'[n]]
  BY DEF Waiting
<1>7. RestTyped /\ RestTyped'
  <2>1. TypeOK' => RestTyped'
    BY RestType, PTL
  <2> QED
    BY <2>1, RestType
<1>8. ASSUME NEW n \in Exclusive, n # k
      PROVE  Waiting'[n] = Waiting[n]
  BY <1>1, <1>3, <1>7, <1>8 DEF Rest, RestTyped
<1>9. ASSUME k \in Exclusive
      PROVE  Waiting'[k] = Append(Waiting[k], send_seqnum[k])
  <2>1. Rest(k) = Numbers(message_queue[k]) /\ Rest(k)' = Numbers(message_queue[k]) \o <<send_seqnum[k]>>
    <3>1. Numbers(message_queue[k]) \in Seq(Seqnum)
      BY <1>7, <1>9 DEF RestTyped
    <3>2. << >> \o Numbers(message_queue[k]) = Numbers(message_queue[k])
          /\ Numbers(message_queue[k]) \o << >> = Numbers(message_queue[k])
      BY <3>1, ConcatEmptySeq
    <3> QED
      BY <1>1, <1>4, <1>9, <3>2 DEF Rest
  <2>2. send_seqnum[k] \in Seqnum /\ <<send_seqnum[k]>> \in Seq(Seqnum)
    BY DEF TypeOK, TableTypeOK
  <2>3. PICK b \in Seq(Seqnum), q \in Seq(Seqnum), c \in Seq(Seqnum) :
          b = Numbers(buffer[k]) /\ q = Numbers(message_queue[k]) /\ c = <<send_seqnum[k]>>
    BY <1>7, <1>9, <2>2 DEF RestTyped
  <2>4. Waiting[k] = b \o q /\ Waiting'[k] = b \o (q \o c)
    BY <1>1, <1>7, <1>9, <2>1, <2>3 DEF RestTyped
  <2>5. (b \o q) \o c = b \o (q \o c) /\ b \o q \in Seq(Seqnum)
    BY <2>3, ConcatAssociative, ConcatProperties
  <2>6. Append(b \o q, send_seqnum[k]) = (b \o q) \o c
    BY <2>2, <2>3, <2>5, AppendIsConcat
  <2> QED
    BY <2>4, <2>5, <2>6
<1>10. CASE k \in Exclusive
  <2>1. Waiting' = [Waiting EXCEPT ![k] = Append(@, send_seqnum[k])]
    BY <1>6, <1>8, <1>9, <1>10
  <2>2. [n \in Exclusive |-> send_seqnum'[n]]
          = [[n \in Exclusive |-> send_seqnum[n]] EXCEPT
               ![k] = IF @ = MaxSeqnum THEN 1 ELSE @ + 1]
    BY <1>1, <1>10, ASender DEF NextSeqnum, TypeOK, TableTypeOK
  <2>3. Ordered!Send(k)
    BY <1>1, <1>10, <2>1, <2>2 DEF Ordered!Send
  <2> QED
    BY <1>5, <1>10, <2>3 DEF Ordered!Next
<1>11. CASE k \notin Exclusive
  <2>1. Waiting' = Waiting
    BY <1>6, <1>8, <1>11
  <2>2. \A n \in Exclusive : send_seqnum'[n] = send_seqnum[n]
    BY <1>1, <1>11, ASender DEF TypeOK, TableTypeOK
  <2> QED
    BY <1>1, <1>5, <2>1, <2>2 DEF Ordered!vars
<1> QED
  BY <1>10, <1>11

LEMMA TrySendOrdered ==
  ASSUME TypeOK, TypeOK', NoneOvertakes, NEW t \in Thread, TrySend(t)
  PROVE  NoneOvertakes' /\ [Ordered!Next]_(Ordered!vars)
<1>0. PICK e \in Job, k \in Address, m \in Message : e = job[t] /\ k = e.to /\ m = e.msg
  BY HasSender DEF TrySend
<1>1. /\ pc[t] = "numbered" /\ k \in SendTo[t]
      /\ UNCHANGED <<send_seqnum, job, buffer, wire>>
  BY <1>0, HasSender DEF TrySend, line
<1>2. \/ SendNow(k, m) /\ pc'[t] = "accepted"
      \/ Store(k, m) /\ pc'[t] \in {"flush", "idle"}
  BY <1>0 DEF TrySend, GoTo, AfterSend, TypeOK
<1>3. /\ \A u \in Thread \ {t} : pc'[u] = pc[u] /\ job'[u] = job[u]
      /\ job'[t] = e
  BY <1>0, <1>1 DEF TrySend, GoTo, TypeOK
<1>4. ASSUME NEW n \in Exclusive, n # k
      PROVE  Accepted(n)' = Accepted(n) /\ Numbered(n)' = Numbered(n)
  BY <1>0, <1>3, <1>4, OtherNode
<1>5. ASSUME NEW n \in Address, n # k
      PROVE  message_queue'[n] = message_queue[n]
  BY <1>2, <1>5 DEF SendNow, Store, TypeOK, TableTypeOK
<1>6. RestTyped /\ RestTyped'
  <2>1. TypeOK' => RestTyped'
    BY RestType, PTL
  <2> QED
    BY <2>1, RestType
<1>7. ASSUME NEW n \in Exclusive, n # k
      PROVE  Waiting'[n] = Waiting[n]
  BY <1>1, <1>4, <1>5, <1>6, <1>7, ASender DEF Rest, RestTyped
<1>8. ASSUME k \in Exclusive
      PROVE  /\ Accepted(k) = << >> /\ Numbered(k) = <<m.seq>> /\ Numbered(k)' = << >>
             /\ pc'[t] = "accepted" => Accepted(k)' = <<m.seq>>
             /\ pc'[t] # "accepted" => Accepted(k)' = << >>
  <2>1. Accepted(k) = << >> /\ Numbered(k) = <<m.seq>>
    BY <1>0, <1>1, <1>8, InHandOf DEF Accepted, Numbered
  <2>2. /\ pc'[t] = "accepted" => Accepted(k)' = <<m.seq>>
        /\ pc'[t] # "accepted" => Accepted(k)' = << >>
    BY <1>0, <1>1, <1>3, <1>8, InHandOf DEF Accepted
  <2>3. Numbered(k)' = << >>
    BY <1>1, <1>2, <1>8, InHandOf DEF Numbered
  <2> QED
    BY <2>1, <2>2, <2>3
<1>9. NoneOvertakes'
  <2> SUFFICES ASSUME NEW n \in Exclusive, Accepted(n)' # << >>
               PROVE  message_queue'[n] = << >>
    BY DEF NoneOvertakes
  <2>1. CASE n = k
    <3>1. SendNow(k, m)
      BY <1>2, <1>8, <2>1
    <3> QED
      BY <2>1, <3>1 DEF SendNow
  <2>2. CASE n # k
    <3>1. Accepted(n) # << >>
      BY <1>4, <2>2
    <3> QED
      BY <1>5, <2>2, <3>1, ASender DEF NoneOvertakes
  <2> QED
    BY <2>1, <2>2
<1>10. ASSUME k \in Exclusive
       PROVE  Rest(k)' = Rest(k)
  <2>1. << >> \in Seq(Seqnum) /\ <<m.seq>> \in Seq(Seqnum)
    <3>1. << >> \in Seq(Seqnum)
      OBVIOUS
    <3> QED
      BY <1>0, <3>1, NumbersOne
  <2>2. PICK c \in Seq(Seqnum) : c = <<m.seq>>
    BY <2>1
  <2>3. CASE SendNow(k, m) /\ pc'[t] = "accepted"
    <3>1. message_queue[k] = << >> /\ message_queue'[k] = << >>
      BY <2>3 DEF SendNow
    <3>2. Numbers(message_queue[k]) = << >> /\ Numbers(message_queue'[k]) = << >>
      BY <3>1, NumbersNone
    <3>3. /\ Accepted(k) = << >> /\ Numbered(k) = c
          /\ Accepted(k)' = c /\ Numbered(k)' = << >>
      BY <1>8, <1>10, <2>2, <2>3
    <3>4. /\ Rest(k) = (<< >> \o << >>) \o c
          /\ Rest(k)' = (c \o << >>) \o << >>
      BY <3>2, <3>3 DEF Rest
    <3>5. << >> \o << >> = << >> /\ << >> \o c = c /\ c \o << >> = c
      BY <2>1, <2>2, ConcatEmptySeq
    <3> QED
      BY <3>4, <3>5
  <2>4. CASE Store(k, m) /\ pc'[t] \in {"flush", "idle"}
    <3>1. message_queue'[k] = Append(message_queue[k], m) /\ message_queue[k] \in Seq(Message)
      BY <1>0, <2>4 DEF Store, TypeOK, TableTypeOK
    <3>2. PICK q \in Seq(Seqnum) : q = Numbers(message_queue[k])
      BY <1>6, <1>10 DEF RestTyped
    <3>3. Numbers(message_queue'[k]) = q \o c
      BY <1>0, <2>2, <3>1, <3>2, NumbersAppend, SMTT(20)
    <3>4. /\ Rest(k) = (<< >> \o q) \o c
          /\ Rest(k)' = (<< >> \o (q \o c)) \o << >>
      <4>1. /\ Accepted(k) = << >> /\ Numbered(k) = c
            /\ Accepted(k)' = << >> /\ Numbered(k)' = << >>
        BY <1>8, <1>10, <2>2, <2>4
      <4> QED
        BY <3>2, <3>3, <4>1 DEF Rest
    <3>5. PICK d \in Seq(Seqnum) : d = q \o c
      BY <2>2, <3>2, ConcatProperties
    <3>6. << >> \o q = q /\ << >> \o d = d /\ d \o << >> = d
      BY <3>2, <3>5, ConcatEmptySeq
    <3> QED
      BY <3>4, <3>5, <3>6
  <2> QED
    BY <1>2, <2>3, <2>4
<1>11. \A n \in Exclusive : Waiting'[n] = Waiting[n]
  <2> SUFFICES ASSUME NEW n \in Exclusive PROVE Waiting'[n] = Waiting[n]
    OBVIOUS
  <2>1. Waiting[n] = Numbers(buffer[n]) \o Rest(n) /\ Waiting'[n] = Numbers(buffer'[n]) \o Rest(n)'
    BY <1>6 DEF RestTyped
  <2>2. CASE n = k
    BY <1>1, <1>10, <2>1, <2>2
  <2>3. CASE n # k
    BY <1>7, <2>3
  <2> QED
    BY <2>2, <2>3
<1>12. Waiting' = Waiting
  <2>1. Waiting = [n \in Exclusive |-> Waiting[n]] /\ Waiting' = [n \in Exclusive |-> Waiting'[n]]
    BY DEF Waiting
  <2> QED
    BY <1>11, <2>1
<1> QED
  BY <1>1, <1>9, <1>12 DEF Ordered!vars

LEMMA PutIntoBufferOrdered ==
  ASSUME TypeOK, TypeOK', NoneOvertakes, NEW t \in Thread, PutIntoBuffer(t)
  PROVE  NoneOvertakes' /\ [Ordered!Next]_(Ordered!vars)
<1>1. PICK e \in Job : e = job[t]
  BY HasSender DEF PutIntoBuffer
<1>2. /\ pc[t] = "accepted" /\ e.to \in SendTo[t] /\ e.to \in Address /\ e.msg \in Message
      /\ AddToBuffer(e) /\ \E l \in {"flush", "idle"} : pc' = [pc EXCEPT ![t] = l]
      /\ UNCHANGED <<send_seqnum, message_queue, job>>
  BY <1>1, HasSender DEF PutIntoBuffer, GoTo, AfterSend, table
<1>3. /\ \A u \in Thread \ {t} : pc'[u] = pc[u] /\ job'[u] = job[u]
      /\ pc'[t] \in {"flush", "idle"} /\ job'[t] = e
  BY <1>1, <1>2 DEF TypeOK
<1>4. ASSUME NEW n \in Exclusive, n # e.to
      PROVE  Accepted(n)' = Accepted(n) /\ Numbered(n)' = Numbered(n)
  BY <1>1, <1>3, <1>4, OtherNode
<1>5. ASSUME e.to \in Exclusive
      PROVE  /\ Accepted(e.to) = <<e.msg.seq>> /\ Accepted(e.to)' = << >>
             /\ Numbered(e.to) = << >> /\ Numbered(e.to)' = << >>
  BY <1>1, <1>2, <1>3, <1>5, InHandOf DEF Accepted, Numbered
<1>6. NoneOvertakes'
  BY <1>2, <1>4, <1>5 DEF NoneOvertakes
<1>7. RestTyped /\ RestTyped'
  <2>1. TypeOK' => RestTyped'
    BY RestType, PTL
  <2> QED
    BY <2>1, RestType
<1>8. ASSUME NEW n \in Exclusive
      PROVE  \E q \in Seq(Message) :
               /\ Splits(q, buffer'[n], wire[n], wire'[n])
               /\ Waiting[n] = Numbers(q) \o Rest(n)'
  <2>1. n \in Address /\ buffer[n] \in Seq(Message)
    BY ASender DEF TypeOK
  <2>2. Splits(With(buffer, e)[n], buffer'[n], wire[n], wire'[n])
    BY <1>2, <2>1, AddToBufferSplits
  <2>3. With(buffer, e)[n] = IF n = e.to THEN Append(buffer[n], e.msg) ELSE buffer[n]
    BY <2>1 DEF With, TypeOK
  <2>4. CASE n # e.to
    <3>1. Rest(n)' = Rest(n) /\ Waiting[n] = Numbers(buffer[n]) \o Rest(n)
      BY <1>2, <1>4, <1>7, <2>4 DEF Rest, RestTyped
    <3> QED
      BY <2>1, <2>2, <2>3, <2>4, <3>1
  <2>5. CASE n = e.to
    <3>1. message_queue[n] = << >> /\ message_queue'[n] = << >>
      BY <1>2, <1>5, <2>5 DEF NoneOvertakes
    <3>2. PICK c \in Seq(Seqnum) : c = <<e.msg.seq>>
      BY <1>2, NumbersOne
    <3>3. Rest(n) = (c \o << >>) \o << >> /\ Rest(n)' = (<< >> \o << >>) \o << >>
      BY <1>5, <2>5, <3>1, <3>2, NumbersNone DEF Rest
    <3>4. /\ << >> \in Seq(Seqnum) /\ << >> \o << >> = << >> /\ c \o << >> = c
      BY <3>2, ConcatEmptySeq
    <3>5. Append(buffer[n], e.msg) \in Seq(Message)
          /\ Numbers(Append(buffer[n], e.msg)) = Numbers(buffer[n]) \o c
      BY <1>2, <2>1, <3>2, NumbersAppend
    <3>6. Numbers(Append(buffer[n], e.msg)) \in Seq(Seqnum)
      BY <3>5, NumbersType
    <3>7. PICK d \in Seq(Seqnum) : d = Numbers(Append(buffer[n], e.msg))
      BY <3>6
    <3>8. d \o << >> = d
      BY <3>7, ConcatEmptySeq
    <3>9. Waiting[n] = Numbers(buffer[n]) \o Rest(n)
      BY <1>7 DEF RestTyped
    <3>10. Waiting[n] = Numbers(Append(buffer[n], e.msg)) \o Rest(n)'
      BY <3>3, <3>4, <3>5, <3>7, <3>8, <3>9
    <3> QED
      BY <2>2, <2>3, <2>5, <3>5, <3>10
  <2> QED
    BY <2>4, <2>5
<1>9. Ordered!Write
  BY <1>2, <1>8, WriteStep
<1> QED
  BY <1>6, <1>9 DEF Ordered!Next

LEMMA SendStoredOrdered ==
  ASSUME TypeInv, TypeOK', NoneOvertakes, SendStored
  PROVE  NoneOvertakes' /\ [Ordered!Next]_(Ordered!vars)
<1>0. TypeOK
  BY DEF TypeInv
<1>1. PICK k \in Address : k = serving
  BY SendStoredType
<1>2. message_queue[k] # << >> /\ [to |-> k, msg |-> Head(message_queue[k])] \in Job
  BY <1>1, SendStoredType
<1>3. PICK e \in Job : e = [to |-> k, msg |-> Head(message_queue[k])]
  BY <1>2
<1>4. /\ message_queue' = [message_queue EXCEPT ![k] = Tail(@)] /\ AddToBuffer(e)
      /\ UNCHANGED <<send_seqnum, pc, job>>
  BY <1>1, <1>3 DEF SendStored, Dequeue, sending
<1>5. \A n \in Exclusive : Accepted(n)' = Accepted(n) /\ Numbered(n)' = Numbered(n)
  BY <1>4 DEF Accepted, Numbered, InHand
<1>6. \A n \in Address : message_queue'[n] = IF n = k THEN Tail(message_queue[n]) ELSE message_queue[n]
  BY <1>0, <1>4 DEF TypeOK, TableTypeOK
<1>7. k \in Exclusive => Accepted(k) = << >>
  BY <1>2 DEF NoneOvertakes
<1>8. NoneOvertakes'
  <2> SUFFICES ASSUME NEW n \in Exclusive, Accepted(n)' # << >>
               PROVE  message_queue'[n] = << >>
    BY DEF NoneOvertakes
  <2>1. Accepted(n) # << >> /\ n # k
    BY <1>5, <1>7
  <2> QED
    BY <1>6, <2>1, ASender DEF NoneOvertakes
<1>9. RestTyped
  BY <1>0, RestType
<1>10. ASSUME NEW n \in Exclusive
       PROVE  \E q \in Seq(Message) :
                /\ Splits(q, buffer'[n], wire[n], wire'[n])
                /\ Waiting[n] = Numbers(q) \o Rest(n)'
  <2>1. n \in Address /\ buffer[n] \in Seq(Message) /\ message_queue[n] \in Seq(Message)
    BY <1>0, ASender DEF TypeOK, TableTypeOK
  <2>2. Splits(With(buffer, e)[n], buffer'[n], wire[n], wire'[n])
    BY <1>0, <1>4, <2>1, AddToBufferSplits
  <2>3. With(buffer, e)[n] = IF n = k THEN Append(buffer[n], e.msg) ELSE buffer[n]
    BY <1>0, <1>3, <2>1 DEF With, TypeOK
  <2>4. Waiting[n] = Numbers(buffer[n]) \o Rest(n)
    BY <1>9 DEF RestTyped
  <2>5. CASE n # k
    <3>1. Rest(n)' = Rest(n)
      BY <1>5, <1>6, <2>1, <2>5 DEF Rest
    <3> QED
      BY <2>1, <2>2, <2>3, <2>4, <2>5, <3>1
  <2>6. CASE n = k
    <3>1. e.msg = Head(message_queue[n]) /\ message_queue[n] # << >>
      BY <1>2, <1>3, <2>6
    <3>2. e.msg \in Message /\ Tail(message_queue[n]) \in Seq(Message)
          /\ Numbers(message_queue[n]) = <<e.msg.seq>> \o Numbers(Tail(message_queue[n]))
      BY <2>1, <3>1, NumbersHead
    <3>3. PICK c \in Seq(Seqnum) : c = <<e.msg.seq>>
      BY <3>2, NumbersOne
    <3>4. PICK r \in Seq(Seqnum) : r = Numbers(Tail(message_queue[n]))
      BY <3>2, NumbersType
    <3>5. PICK z \in Seq(Seqnum), b \in Seq(Seqnum) : z = Numbered(n) /\ b = Numbers(buffer[n])
      BY <1>9 DEF RestTyped
    <3>6. /\ Rest(n) = (<< >> \o (c \o r)) \o z
          /\ Rest(n)' = (<< >> \o r) \o z
      BY <1>5, <1>6, <1>7, <2>1, <2>6, <3>2, <3>3, <3>4, <3>5 DEF Rest
    <3>7. PICK s \in Seq(Seqnum), u \in Seq(Seqnum) : s = c \o r /\ u = r \o z
      BY <3>3, <3>4, <3>5, ConcatProperties
    <3>8. << >> \o s = s /\ << >> \o r = r
      BY <3>4, <3>7, ConcatEmptySeq
    <3>9. s \o z = c \o u
      BY <3>3, <3>4, <3>5, <3>7, ConcatAssociative
    <3>10. (b \o c) \o u = b \o (c \o u)
      <4>1. c \in Seq(Seqnum) /\ u \in Seq(Seqnum) /\ b \in Seq(Seqnum)
        BY <3>3, <3>5, <3>7
      <4> QED
        BY <4>1, ConcatAssociative, SMTT(20)
    <3>11. Append(buffer[n], e.msg) \in Seq(Message)
           /\ Numbers(Append(buffer[n], e.msg)) = b \o c
      BY <2>1, <3>2, <3>3, <3>5, NumbersAppend
    <3>12. Waiting[n] = Numbers(Append(buffer[n], e.msg)) \o Rest(n)'
      BY <2>4, <3>5, <3>6, <3>7, <3>8, <3>9, <3>10, <3>11
    <3> QED
      BY <2>2, <2>3, <2>6, <3>11, <3>12
  <2> QED
    BY <2>5, <2>6
<1>11. Ordered!Write
  BY <1>0, <1>4, <1>10, WriteStep
<1> QED
  BY <1>8, <1>11 DEF Ordered!Next

LEMMA OtherOrdered ==
  ASSUME TypeOK, TypeOK', NoneOvertakes,
         \/ UpdateStep \/ EndSendStored \/ HandleStall \/ HandleOther \/ AutoFlush \/ FlushReply
         \/ \E n \in Address : HearAnswer(n) \/ HearOccupancy(n) \/ HearStall(n) \/ HearReady(n)
         \/ UNCHANGED vars
  PROVE  NoneOvertakes' /\ [Ordered!Next]_(Ordered!vars)
<1>1. /\ Flush \/ UNCHANGED <<buffer, wire>>
      /\ UNCHANGED <<message_queue, send_seqnum, job>>
      /\ \A t \in Thread : \/ pc'[t] = pc[t]
                           \/ {pc[t], pc'[t]} \subseteq {"flush", "idle"}
  BY OtherSteps
<1>2. ASSUME NEW n \in Exclusive
      PROVE  Accepted(n)' = Accepted(n) /\ Numbered(n)' = Numbered(n)
  <2>1. PICK t \in Thread : n \in SendTo[t]
    BY ASender
  <2>2. \A l \in {"accepted", "numbered"} : pc'[t] = l <=> pc[t] = l
    BY <1>1
  <2> QED
    BY <1>1, <2>1, <2>2, InHandOf DEF Accepted, Numbered
<1>3. NoneOvertakes'
  BY <1>1, <1>2 DEF NoneOvertakes
<1>4. RestTyped /\ RestTyped'
  <2>1. TypeOK' => RestTyped'
    BY RestType, PTL
  <2> QED
    BY <2>1, RestType
<1>5. ASSUME NEW n \in Exclusive
      PROVE  Rest(n)' = Rest(n) /\ Waiting[n] = Numbers(buffer[n]) \o Rest(n)
  BY <1>1, <1>2, <1>4 DEF Rest, RestTyped
<1>6. CASE Flush
  <2>1. \A n \in Address : /\ buffer[n] \in Seq(Message)
                           /\ Splits(buffer[n], buffer'[n], wire[n], wire'[n])
    BY <1>6, FlushSplits DEF TypeOK
  <2>2. Ordered!Write
    BY <1>1, <1>5, <2>1, ASender, WriteStep
  <2> QED
    BY <1>3, <2>2 DEF Ordered!Next
<1>7. CASE UNCHANGED <<buffer, wire>>
  <2>1. \A n \in Exclusive : Waiting'[n] = Waiting[n]
    BY <1>4, <1>5, <1>7 DEF RestTyped
  <2>2. Waiting = [n \in Exclusive |-> Waiting[n]] /\ Waiting' = [n \in Exclusive |-> Waiting'[n]]
    BY DEF Waiting
  <2> QED
    BY <1>1, <1>3, <1>7, <2>1, <2>2 DEF Ordered!vars
<1> QED
  BY <1>1, <1>6, <1>7

LEMMA InitOrdered == Init => NoneOvertakes /\ Ordered!Init
<1> SUFFICES ASSUME Init PROVE NoneOvertakes /\ Ordered!Init
  OBVIOUS
<1>1. \A n \in Address : /\ buffer[n] = << >> /\ message_queue[n] = << >> /\ wire[n] = << >>
                         /\ send_seqnum[n] = 1
  BY DEF Init, TableInit, NoMessages
<1>2. \A n \in Exclusive : Accepted(n) = << >> /\ Numbered(n) = << >>
  <2> SUFFICES ASSUME NEW n \in Exclusive PROVE Accepted(n) = << >> /\ Numbered(n) = << >>
    OBVIOUS
  <2>1. PICK t \in Thread : n \in SendTo[t]
    BY ASender
  <2>2. pc[t] = "idle"
    BY DEF Init
  <2> QED
    BY <2>1, <2>2, InHandOf DEF Accepted, Numbered
<1>3. << >> \in Seq(Seqnum) /\ << >> \o << >> = << >>
  BY ConcatEmptySeq
<1>4. \A n \in Exclusive : Waiting[n] = << >>
  BY <1>1, <1>2, <1>3, ASender, NumbersNone DEF Waiting, Accepted, Numbered
<1>5. Waiting = [n \in Exclusive |-> Waiting[n]]
  BY DEF Waiting
<1>6. Ordered!Init
  BY <1>1, <1>4, <1>5, ASender DEF Ordered!Init
<1> QED
  BY <1>1, <1>6, ASender DEF NoneOvertakes

LEMMA OrderedStep ==
  ASSUME TypeInv, TypeInv', NoneOvertakes, [Next]_vars
  PROVE  NoneOvertakes' /\ [Ordered!Next]_(Ordered!vars)
<1>0. TypeOK /\ TypeOK'
  BY DEF TypeInv
<1>1. ASSUME NEW t \in Caller, NEW n \in Address, NEW y \in CallType, Call(t, n, y)
      PROVE  NoneOvertakes' /\ [Ordered!Next]_(Ordered!vars)
  <2>1. t \in Thread /\ y \in Type /\ TakeNumber(t, n, y)
    BY <1>1, TransmissionAssumption DEF Call, Thread
  <2> QED
    BY <1>0, <2>1, TakeNumberOrdered
<1>2. CASE Reply
  <2>1. /\ Receiver \in Thread /\ ReplyType \in Type /\ heard[1] \in Address
        /\ TakeNumber(Receiver, heard[1], ReplyType)
    BY <1>2, TransmissionAssumption DEF Reply, Updated, Thread
  <2> QED
    BY <1>0, <2>1, TakeNumberOrdered
<1>3. ASSUME NEW t \in Thread, TrySend(t) \/ PutIntoBuffer(t)
      PROVE  NoneOvertakes' /\ [Ordered!Next]_(Ordered!vars)
  BY <1>0, <1>3, TrySendOrdered, PutIntoBufferOrdered
<1>4. CASE SendStored
  BY <1>0, <1>4, SendStoredOrdered
<1>5. ASSUME \/ UpdateStep \/ EndSendStored \/ HandleStall \/ HandleOther
             \/ AutoFlush \/ FlushReply
             \/ \E n \in Address : \/ HearAnswer(n) \/ HearOccupancy(n)
                                   \/ HearStall(n) \/ HearReady(n)
             \/ UNCHANGED vars
      PROVE  NoneOvertakes' /\ [Ordered!Next]_(Ordered!vars)
  BY <1>0, <1>5, OtherOrdered
<1> QED
  BY <1>1, <1>2, <1>3, <1>4, <1>5 DEF Next, Handle

(* The transmission layer is a first-in-first-out channel for every node    *)
(* that one thread alone sends to.                                          *)
THEOREM ImplementsChannel == Spec => OrderedSpec
<1>1. Init => TypeInv /\ NoneOvertakes /\ Ordered!Init
  BY InitType, InitOrdered
<1>2. TypeInv /\ NoneOvertakes /\ [Next]_vars
        => TypeInv' /\ NoneOvertakes' /\ [Ordered!Next]_(Ordered!vars)
  BY TypeStep, OrderedStep
<1> QED
  BY <1>1, <1>2, PTL DEF Spec, OrderedSpec, Ordered!Spec

----------------------------------------------------------------------------
(* The account of the table and what a node has got.  The two list the same *)
(* requests: the table booked them in the order in which they reach the     *)
(* node, which gets messages without an answer in between.                  *)
Asks(y) == MaxResponse[y] > 0

(* The requests among the messages w are those booked in q behind place j   *)
(* up to place k: c[i] is the place the first i messages go up to.          *)
Books(q, w, j, k) ==
  \E c \in [0..Len(w) -> 0..Len(q)] :
    /\ c[0] = j /\ c[Len(w)] = k
    /\ \A i \in 1..Len(w) : IF Asks(w[i]) THEN c[i] = c[i - 1] + 1 /\ q[c[i]].type = w[i]
                            ELSE c[i] = c[i - 1]
    /\ \A i \in 0..Len(w) : \A l \in 0..i : c[l] <= c[i]
    /\ \A i \in 0..Len(w) : \A l \in 0..i : c[l] < c[i] => \E m \in (l + 1)..i : Asks(w[m])

LEMMA BooksOrder ==
  ASSUME NEW q \in Seq(Response), NEW w \in Seq(Type), NEW j, NEW k, Books(q, w, j, k)
  PROVE  j \in 0..Len(q) /\ k \in 0..Len(q) /\ j <= k
<1>1. Len(q) \in Nat /\ Len(w) \in Nat
  OBVIOUS
<1>2. PICK c \in [0..Len(w) -> 0..Len(q)] :
        /\ c[0] = j /\ c[Len(w)] = k
        /\ \A i \in 0..Len(w) : \A l \in 0..i : c[l] <= c[i]
  BY DEF Books
<1>3. 0 \in 0..Len(w) /\ Len(w) \in 0..Len(w) /\ 0 \in 0..Len(w)
  BY <1>1
<1> QED
  BY <1>2, <1>3

LEMMA BooksNothing == Books(<< >>, << >>, 0, 0)
<1> DEFINE c == [i \in 0..0 |-> 0]
<1>1. Len(<< >>) = 0 /\ 0..0 = {0} /\ 1..0 = {}
  OBVIOUS
<1>2. c \in [0..0 -> 0..0] /\ c[0] = 0
  BY <1>1
<1>3. \A i \in 0..0 : \A l \in 0..i : i = 0 /\ l = 0
  BY <1>1
<1> HIDE DEF c
<1> QED
  BY <1>1, <1>2, <1>3 DEF Books

\* Only the booked requests up to place k count.
LEMMA BooksOther ==
  ASSUME NEW q \in Seq(Response), NEW Q \in Seq(Response), NEW w \in Seq(Type), NEW j, NEW k,
         Books(q, w, j, k), k <= Len(Q), \A i \in 1..k : Q[i].type = q[i].type
  PROVE  Books(Q, w, j, k)
<1>1. Len(q) \in Nat /\ Len(w) \in Nat /\ Len(Q) \in Nat /\ k \in 0..Len(q)
  BY BooksOrder
<1>2. PICK c \in [0..Len(w) -> 0..Len(q)] :
        /\ c[0] = j /\ c[Len(w)] = k
        /\ \A i \in 1..Len(w) : IF Asks(w[i]) THEN c[i] = c[i - 1] + 1 /\ q[c[i]].type = w[i]
                                ELSE c[i] = c[i - 1]
        /\ \A i \in 0..Len(w) : \A l \in 0..i : c[l] <= c[i]
        /\ \A i \in 0..Len(w) : \A l \in 0..i : c[l] < c[i] => \E m \in (l + 1)..i : Asks(w[m])
  BY DEF Books
<1>3. \A i \in 0..Len(w) : c[i] \in 0..k
  <2> TAKE i \in 0..Len(w)
  <2>1. Len(w) \in 0..Len(w) /\ i \in 0..Len(w)
    BY <1>1
  <2>2. c[i] <= c[Len(w)] /\ c[i] \in 0..Len(q)
    BY <1>2, <2>1
  <2> QED
    BY <1>1, <1>2, <2>2
<1>4. c \in [0..Len(w) -> 0..Len(Q)]
  BY <1>1, <1>3
<1>5. ASSUME NEW i \in 1..Len(w), Asks(w[i])
      PROVE  c[i] = c[i - 1] + 1 /\ Q[c[i]].type = w[i]
  <2>1. i \in 0..Len(w) /\ i - 1 \in 0..Len(w) /\ c[i] = c[i - 1] + 1 /\ q[c[i]].type = w[i]
    BY <1>1, <1>2, <1>5
  <2>2. c[i] \in 1..k
    BY <1>3, <2>1
  <2> QED
    BY <2>1, <2>2
<1> QED
  BY <1>2, <1>4, <1>5 DEF Books

\* One more message without an answer.
LEMMA BooksSilent ==
  ASSUME NEW q \in Seq(Response), NEW w \in Seq(Type), NEW y \in Type, NEW j, NEW k,
         Books(q, w, j, k), ~Asks(y)
  PROVE  Books(q, Append(w, y), j, k)
<1> DEFINE n == Len(w)
           W == Append(w, y)
<1>1. Len(q) \in Nat /\ n \in Nat /\ k \in 0..Len(q) /\ Len(W) = n + 1 /\ W[n + 1] = y
      /\ \A i \in 1..n : W[i] = w[i]
  BY BooksOrder
<1>2. PICK c \in [0..n -> 0..Len(q)] :
        /\ c[0] = j /\ c[n] = k
        /\ \A i \in 1..n : IF Asks(w[i]) THEN c[i] = c[i - 1] + 1 /\ q[c[i]].type = w[i]
                           ELSE c[i] = c[i - 1]
        /\ \A i \in 0..n : \A l \in 0..i : c[l] <= c[i]
        /\ \A i \in 0..n : \A l \in 0..i : c[l] < c[i] => \E m \in (l + 1)..i : Asks(w[m])
  BY DEF Books
<1> DEFINE C == [i \in 0..(n + 1) |-> IF i = n + 1 THEN k ELSE c[i]]
<1>3. /\ C \in [0..(n + 1) -> 0..Len(q)] /\ C[n + 1] = k
      /\ \A i \in 0..n : C[i] = c[i]
  BY <1>1, <1>2
<1> HIDE DEF C, n, W
<1>4. C[0] = j /\ C[n] = k /\ C[n + 1] = C[n]
  BY <1>1, <1>2, <1>3
<1>5. ASSUME NEW i \in 1..(n + 1)
      PROVE  IF Asks(W[i]) THEN C[i] = C[i - 1] + 1 /\ q[C[i]].type = W[i]
             ELSE C[i] = C[i - 1]
  <2>1. CASE i = n + 1
    <3>1. i - 1 = n
      BY <1>1, <2>1
    <3> QED
      BY <2>1, <3>1, <1>1, <1>4
  <2>2. CASE i # n + 1
    <3>1. i \in 1..n /\ i \in 0..n /\ i - 1 \in 0..n
      BY <1>1, <2>2
    <3> QED
      BY <3>1, <1>1, <1>2, <1>3
  <2> QED
    BY <2>1, <2>2
<1>6. ASSUME NEW i \in 0..(n + 1), NEW l \in 0..i
      PROVE  /\ C[l] <= C[i]
             /\ C[l] < C[i] => \E m \in (l + 1)..i : Asks(W[m])
  <2>1. CASE i \in 0..n
    <3>1. l \in 0..n /\ C[l] = c[l] /\ C[i] = c[i]
      BY <1>1, <1>3, <2>1
    <3>2. \A m \in (l + 1)..i : W[m] = w[m]
      <4>1. \A m \in (l + 1)..i : m \in 1..n
        BY <1>1, <2>1
      <4> QED
        BY <4>1, <1>1
    <3> QED
      BY <1>2, <2>1, <3>1, <3>2
  <2>2. CASE i = n + 1 /\ l = n + 1
    BY <2>2, <1>1, <1>3
  <2>3. CASE i = n + 1 /\ l # n + 1
    <3>1. l \in 0..n /\ n \in 0..n /\ C[l] = c[l] /\ C[i] = c[n]
      BY <1>1, <1>2, <1>3, <2>3
    <3>2. c[l] <= c[n] /\ (c[l] < c[n] => \E m \in (l + 1)..n : Asks(w[m]))
      BY <1>2, <3>1
    <3>3. \A m \in (l + 1)..n : m \in (l + 1)..i /\ W[m] = w[m]
      BY <1>1, <2>3, <3>1
    <3> QED
      BY <3>1, <3>2, <3>3
  <2> QED
    BY <1>1, <2>1, <2>2, <2>3
<1>7. Len(W) = n + 1
  BY <1>1
<1>8. Books(q, W, j, k)
  BY <1>3, <1>4, <1>5, <1>6, <1>7, ZenonT(40) DEF Books
<1> QED
  BY <1>8 DEF W

\* One more request, the one booked at the next place.
LEMMA BooksAsk ==
  ASSUME NEW q \in Seq(Response), NEW w \in Seq(Type), NEW y \in Type, NEW j, NEW k,
         Books(q, w, j, k), Asks(y), k + 1 <= Len(q), q[k + 1].type = y
  PROVE  Books(q, Append(w, y), j, k + 1)
<1> DEFINE n == Len(w)
           W == Append(w, y)
<1>1. Len(q) \in Nat /\ n \in Nat /\ k \in 0..Len(q) /\ Len(W) = n + 1 /\ W[n + 1] = y
      /\ \A i \in 1..n : W[i] = w[i]
  BY BooksOrder
<1>2. PICK c \in [0..n -> 0..Len(q)] :
        /\ c[0] = j /\ c[n] = k
        /\ \A i \in 1..n : IF Asks(w[i]) THEN c[i] = c[i - 1] + 1 /\ q[c[i]].type = w[i]
                           ELSE c[i] = c[i - 1]
        /\ \A i \in 0..n : \A l \in 0..i : c[l] <= c[i]
        /\ \A i \in 0..n : \A l \in 0..i : c[l] < c[i] => \E m \in (l + 1)..i : Asks(w[m])
  BY DEF Books
<1> DEFINE C == [i \in 0..(n + 1) |-> IF i = n + 1 THEN k + 1 ELSE c[i]]
<1>3. /\ C \in [0..(n + 1) -> 0..Len(q)] /\ C[n + 1] = k + 1
      /\ \A i \in 0..n : C[i] = c[i]
  BY <1>1, <1>2
<1> HIDE DEF C, n, W
<1>4. C[0] = j /\ C[n] = k /\ C[n + 1] = C[n] + 1
  BY <1>1, <1>2, <1>3
<1>5. ASSUME NEW i \in 1..(n + 1)
      PROVE  IF Asks(W[i]) THEN C[i] = C[i - 1] + 1 /\ q[C[i]].type = W[i]
             ELSE C[i] = C[i - 1]
  <2>1. CASE i = n + 1
    <3>1. i - 1 = n
      BY <1>1, <2>1
    <3> QED
      BY <2>1, <3>1, <1>1, <1>3, <1>4
  <2>2. CASE i # n + 1
    <3>1. i \in 1..n /\ i \in 0..n /\ i - 1 \in 0..n
      BY <1>1, <2>2
    <3> QED
      BY <3>1, <1>1, <1>2, <1>3
  <2> QED
    BY <2>1, <2>2
<1>6. ASSUME NEW i \in 0..(n + 1), NEW l \in 0..i
      PROVE  /\ C[l] <= C[i]
             /\ C[l] < C[i] => \E m \in (l + 1)..i : Asks(W[m])
  <2>1. CASE i \in 0..n
    <3>1. l \in 0..n /\ C[l] = c[l] /\ C[i] = c[i]
      BY <1>1, <1>3, <2>1
    <3>2. \A m \in (l + 1)..i : W[m] = w[m]
      <4>1. \A m \in (l + 1)..i : m \in 1..n
        BY <1>1, <2>1
      <4> QED
        BY <4>1, <1>1
    <3> QED
      BY <1>2, <2>1, <3>1, <3>2
  <2>2. CASE i = n + 1 /\ l = n + 1
    BY <2>2, <1>1, <1>3
  <2>3. CASE i = n + 1 /\ l # n + 1
    <3>1. l \in 0..n /\ n \in 0..n /\ C[l] = c[l] /\ C[i] = c[n] + 1
      BY <1>1, <1>2, <1>3, <2>3
    <3>2. c[l] <= c[n] /\ c[l] \in Nat /\ c[n] \in Nat
      BY <1>2, <3>1
    <3>3. n + 1 \in (l + 1)..i /\ Asks(W[n + 1])
      BY <1>1, <2>3, <3>1
    <3> QED
      BY <3>1, <3>2, <3>3
  <2> QED
    BY <1>1, <2>1, <2>2, <2>3
<1>7. Len(W) = n + 1
  BY <1>1
<1>8. Books(q, W, j, k + 1)
  BY <1>3, <1>4, <1>5, <1>6, <1>7, ZenonT(40) DEF Books
<1> QED
  BY <1>8 DEF W

\* The first request the node has got is the first one booked.
LEMMA BooksTake ==
  ASSUME NEW q \in Seq(Response), NEW w \in Seq(Type), NEW k, Books(q, w, 0, k),
         NEW i \in 1..Len(w), Asks(w[i]), \A m \in 1..(i - 1) : ~Asks(w[m])
  PROVE  /\ k >= 1 /\ q[1].type = w[i]
         /\ Books(q, SubSeq(w, i + 1, Len(w)), 1, k)
<1> DEFINE n == Len(w)
           W == SubSeq(w, i + 1, Len(w))
<1>1. Len(q) \in Nat /\ n \in Nat /\ k \in 0..Len(q) /\ i \in 1..n
  BY BooksOrder
<1>2. W \in Seq(Type) /\ Len(W) = n - i /\ \A l \in 1..(n - i) : W[l] = w[l + i]
  <2>1. i + 1 \in 1..(n + 1) /\ n \in 0..n /\ n \in Int
    BY <1>1
  <2>2. /\ W \in Seq(Type) /\ Len(W) = n - i
        /\ \A l \in 1..(n - i) : W[l] = w[i + 1 + l - 1]
    BY <1>1, <2>1
  <2>3. \A l \in 1..(n - i) : i + 1 + l - 1 = l + i
    BY <1>1
  <2> QED
    BY <2>2, <2>3
<1>3. PICK c \in [0..n -> 0..Len(q)] :
        /\ c[0] = 0 /\ c[n] = k
        /\ \A l \in 1..n : IF Asks(w[l]) THEN c[l] = c[l - 1] + 1 /\ q[c[l]].type = w[l]
                           ELSE c[l] = c[l - 1]
        /\ \A h \in 0..n : \A l \in 0..h : c[l] <= c[h]
        /\ \A h \in 0..n : \A l \in 0..h : c[l] < c[h] => \E m \in (l + 1)..h : Asks(w[m])
  BY DEF Books
<1> HIDE DEF n, W
<1>4. c[i - 1] = 0
  <2>1. i - 1 \in 0..n /\ 0 \in 0..(i - 1) /\ c[i - 1] \in Nat
    BY <1>1, <1>3
  <2>2. ~(c[0] < c[i - 1])
    <3>1. SUFFICES ASSUME c[0] < c[i - 1] PROVE FALSE
      OBVIOUS
    <3>2. PICK m \in (0 + 1)..(i - 1) : Asks(w[m])
      BY <1>3, <2>1, <3>1
    <3>3. m \in 1..(i - 1)
      BY <1>1, <3>2
    <3> QED
      BY <3>2, <3>3
  <2> QED
    BY <1>3, <2>1, <2>2
<1>5. c[i] = 1 /\ q[1].type = w[i]
  BY <1>1, <1>3, <1>4
<1>6. k >= 1
  <2>1. n \in 0..n /\ i \in 0..n
    BY <1>1
  <2> QED
    BY <1>1, <1>3, <1>5, <2>1
<1> DEFINE C == [l \in 0..(n - i) |-> c[l + i]]
<1>7. \A l \in 0..(n - i) : l + i \in 0..n
  BY <1>1
<1>8. C \in [0..(n - i) -> 0..Len(q)] /\ \A l \in 0..(n - i) : C[l] = c[l + i]
  BY <1>3, <1>7
<1> HIDE DEF C
<1>9. C[0] = 1 /\ C[n - i] = k
  <2>1. 0 \in 0..(n - i) /\ n - i \in 0..(n - i) /\ 0 + i = i /\ (n - i) + i = n
    BY <1>1
  <2> QED
    BY <2>1, <1>3, <1>5, <1>8
<1>10. ASSUME NEW l \in 1..(n - i)
       PROVE  IF Asks(W[l]) THEN C[l] = C[l - 1] + 1 /\ q[C[l]].type = W[l]
              ELSE C[l] = C[l - 1]
  <2>1. /\ l \in 0..(n - i) /\ l - 1 \in 0..(n - i) /\ l + i \in 1..n
        /\ (l - 1) + i = (l + i) - 1
    BY <1>1
  <2>2. C[l] = c[l + i] /\ C[l - 1] = c[(l + i) - 1] /\ W[l] = w[l + i]
    BY <1>2, <1>8, <2>1
  <2> QED
    BY <1>3, <2>1, <2>2
<1>11. ASSUME NEW h \in 0..(n - i), NEW l \in 0..h
       PROVE  /\ C[l] <= C[h]
              /\ C[l] < C[h] => \E m \in (l + 1)..h : Asks(W[m])
  <2>1. l \in 0..(n - i) /\ h + i \in 0..n /\ l + i \in 0..(h + i)
    BY <1>1
  <2>2. C[l] = c[l + i] /\ C[h] = c[h + i]
    BY <1>8, <2>1
  <2>3. ASSUME C[l] < C[h]
        PROVE  \E m \in (l + 1)..h : Asks(W[m])
    <3>1. PICK m \in (l + i + 1)..(h + i) : Asks(w[m])
      BY <1>3, <2>1, <2>2, <2>3
    <3>2. m - i \in (l + 1)..h /\ m - i \in 1..(n - i) /\ (m - i) + i = m
      BY <1>1, <3>1
    <3>3. Asks(W[m - i])
      BY <1>2, <3>1, <3>2
    <3> QED
      BY <3>2, <3>3
  <2> QED
    BY <1>3, <2>1, <2>2, <2>3
<1>12. Books(q, W, 1, k)
  BY <1>2, <1>8, <1>9, <1>10, <1>11 DEF Books
<1> QED
  BY <1>5, <1>6, <1>12 DEF W, n

\* The request at the head has been answered and is taken off.
LEMMA BooksShift ==
  ASSUME NEW q \in Seq(Response), NEW w \in Seq(Type), NEW k, Books(q, w, 1, k)
  PROVE  Books(Tail(q), w, 0, k - 1)
<1> DEFINE n == Len(w)
           Q == Tail(q)
<1>1. Len(q) \in Nat /\ n \in Nat /\ k \in 0..Len(q) /\ 1 \in 0..Len(q)
  BY BooksOrder
<1>2. q # << >> /\ Len(Q) = Len(q) - 1 /\ \A i \in 1..(Len(q) - 1) : Q[i] = q[i + 1]
  BY <1>1
<1>3. PICK c \in [0..n -> 0..Len(q)] :
        /\ c[0] = 1 /\ c[n] = k
        /\ \A i \in 1..n : IF Asks(w[i]) THEN c[i] = c[i - 1] + 1 /\ q[c[i]].type = w[i]
                           ELSE c[i] = c[i - 1]
        /\ \A i \in 0..n : \A l \in 0..i : c[l] <= c[i]
        /\ \A i \in 0..n : \A l \in 0..i : c[l] < c[i] => \E m \in (l + 1)..i : Asks(w[m])
  BY DEF Books
<1> HIDE DEF n, Q
<1>4. \A i \in 0..n : c[i] \in 1..Len(q)
  <2> TAKE i \in 0..n
  <2>1. 0 \in 0..i /\ c[i] \in 0..Len(q)
    BY <1>1, <1>3
  <2>2. c[0] <= c[i]
    BY <1>3, <2>1
  <2> QED
    BY <1>1, <1>3, <2>1, <2>2
<1> DEFINE C == [i \in 0..n |-> c[i] - 1]
<1>5. C \in [0..n -> 0..Len(Q)] /\ \A i \in 0..n : C[i] = c[i] - 1
  BY <1>1, <1>2, <1>4
<1> HIDE DEF C
<1>6. C[0] = 0 /\ C[n] = k - 1
  BY <1>1, <1>3, <1>5
<1>7. ASSUME NEW i \in 1..n
      PROVE  IF Asks(w[i]) THEN C[i] = C[i - 1] + 1 /\ Q[C[i]].type = w[i]
             ELSE C[i] = C[i - 1]
  <2>1. /\ i \in 0..n /\ i - 1 \in 0..n
        /\ c[i] \in 1..Len(q) /\ c[i - 1] \in 1..Len(q)
    BY <1>1, <1>4
  <2>2. C[i] = c[i] - 1 /\ C[i - 1] = c[i - 1] - 1
    BY <1>5, <2>1
  <2>3. CASE Asks(w[i])
    <3>1. c[i] = c[i - 1] + 1 /\ q[c[i]].type = w[i]
      BY <1>3, <2>3
    <3>2. C[i] \in 1..(Len(q) - 1) /\ C[i] + 1 = c[i]
      BY <1>1, <2>1, <2>2, <3>1
    <3>3. Q[C[i]] = q[c[i]]
      BY <1>2, <3>2
    <3> QED
      BY <2>1, <2>2, <2>3, <3>1, <3>3
  <2>4. CASE ~Asks(w[i])
    BY <1>3, <2>2, <2>4
  <2> QED
    BY <2>3, <2>4
<1>8. ASSUME NEW i \in 0..n, NEW l \in 0..i
      PROVE  /\ C[l] <= C[i]
             /\ C[l] < C[i] => \E m \in (l + 1)..i : Asks(w[m])
  <2>1. l \in 0..n
    BY <1>1
  <2>2. /\ C[l] = c[l] - 1 /\ C[i] = c[i] - 1
        /\ c[l] \in 1..Len(q) /\ c[i] \in 1..Len(q)
    BY <1>4, <1>5, <2>1
  <2>3. c[l] <= c[i] /\ (c[l] < c[i] => \E m \in (l + 1)..i : Asks(w[m]))
    BY <1>3
  <2>4. C[l] <= C[i] /\ (C[l] < C[i] => c[l] < c[i])
    BY <1>1, <2>2, <2>3
  <2> QED
    BY <2>3, <2>4
<1>9. Books(Q, w, 0, k - 1)
  BY <1>5, <1>6, <1>7, <1>8 DEF Books, n
<1> QED
  BY <1>9 DEF Q

\* What the node has to give for the first messages is within the account.
LEMMA BooksBound ==
  ASSUME NEW q \in Seq(Response), NEW total \in Nat, Totals(q, total),
         NEW v \in Seq(Type), NEW u \in Seq(Type), NEW j, NEW k, Books(q, v \o u, j, k)
  PROVE  \E due \in [0..Len(v) -> 0..total] :
           /\ due[0] = 0
           /\ \A i \in 1..Len(v) : due[i] = due[i - 1] + MaxResponse[v[i]]
<1> DEFINE w == v \o u
           n == Len(v)
<1>1. /\ Len(q) \in Nat /\ n \in Nat /\ Len(u) \in Nat /\ Len(w) = n + Len(u)
      /\ \A i \in 1..n : w[i] = v[i]
  BY ConcatProperties
<1>2. PICK c \in [0..Len(w) -> 0..Len(q)] :
        /\ \A i \in 1..Len(w) : IF Asks(w[i]) THEN c[i] = c[i - 1] + 1 /\ q[c[i]].type = w[i]
                                ELSE c[i] = c[i - 1]
        /\ \A i \in 0..Len(w) : \A l \in 0..i : c[l] <= c[i]
  BY DEF Books
<1>3. PICK sum \in [0..Len(q) -> 0..total] :
        /\ \A i \in 1..Len(q) : sum[i] = sum[i - 1] + MaxResponse[q[i].type]
        /\ \A i \in 0..Len(q) : \A l \in 0..i : sum[l] <= sum[i]
  BY DEF Totals
<1> HIDE DEF w, n
<1>4. ASSUME NEW i \in 0..n
      PROVE  /\ c[i] \in 0..Len(q) /\ c[0] \in 0..Len(q)
             /\ sum[c[i]] - sum[c[0]] \in 0..total
  <2>1. i \in 0..Len(w) /\ 0 \in 0..i /\ 0 \in 0..Len(w)
    BY <1>1
  <2>2. c[i] \in 0..Len(q) /\ c[0] \in 0..Len(q) /\ c[0] <= c[i]
    BY <1>2, <2>1
  <2>3. c[0] \in 0..c[i] /\ sum[c[i]] \in 0..total /\ sum[c[0]] \in 0..total
    BY <1>1, <1>3, <2>2
  <2>4. sum[c[0]] <= sum[c[i]]
    BY <1>3, <2>2, <2>3
  <2> QED
    BY <2>2, <2>3, <2>4
<1> DEFINE due == [i \in 0..n |-> sum[c[i]] - sum[c[0]]]
<1>5. due \in [0..n -> 0..total] /\ \A i \in 0..n : due[i] = sum[c[i]] - sum[c[0]]
  BY <1>4
<1> HIDE DEF due
<1>6. due[0] = 0
  <2>1. 0 \in 0..n /\ sum[c[0]] \in 0..total
    BY <1>1, <1>3, <1>4
  <2> QED
    BY <1>5, <2>1
<1>7. ASSUME NEW i \in 1..n
      PROVE  due[i] = due[i - 1] + MaxResponse[v[i]]
  <2>1. i \in 0..n /\ i - 1 \in 0..n /\ 0 \in 0..n /\ i \in 1..Len(w)
    BY <1>1
  <2>2. w[i] = v[i] /\ v[i] \in Type /\ MaxResponse[v[i]] \in Nat
    BY <1>1, TypeAssumption DEF n
  <2>3. due[i] = sum[c[i]] - sum[c[0]] /\ due[i - 1] = sum[c[i - 1]] - sum[c[0]]
    BY <1>5, <2>1
  <2>4. /\ c[i] \in 0..Len(q) /\ c[i - 1] \in 0..Len(q)
        /\ sum[c[i]] \in Int /\ sum[c[i - 1]] \in Int /\ sum[c[0]] \in Int
    BY <1>3, <1>4, <2>1, SMTT(20)
  <2>5. CASE Asks(v[i])
    <3>1. c[i] = c[i - 1] + 1 /\ q[c[i]].type = v[i]
      BY <1>2, <2>1, <2>2, <2>5
    <3>2. PICK b \in 0..Len(q), a \in 0..Len(q) : b = c[i] /\ a = c[i - 1]
      BY <2>4
    <3>3. b \in 1..Len(q) /\ b - 1 = a
      BY <1>1, <3>1, <3>2
    <3>4. sum[b] = sum[b - 1] + MaxResponse[q[b].type]
      BY <1>3, <3>3
    <3>5. sum[b] = sum[a] + MaxResponse[v[i]]
      BY <3>1, <3>2, <3>3, <3>4
    <3>6. PICK s \in Int, r \in Int, z \in Int, m \in Nat :
            s = sum[b] /\ r = sum[a] /\ z = sum[c[0]] /\ m = MaxResponse[v[i]]
      BY <2>2, <2>4, <3>2
    <3>7. due[i] = s - z /\ due[i - 1] = r - z /\ s = r + m
      BY <2>3, <3>2, <3>5, <3>6
    <3>8. s - z = (r - z) + m
      BY <3>6, <3>7, SMTT(20)
    <3> QED
      BY <3>6, <3>7, <3>8
  <2>6. CASE ~Asks(v[i])
    <3>1. c[i] = c[i - 1]
      BY <1>2, <2>1, <2>2, <2>6
    <3>2. MaxResponse[v[i]] = 0
      BY <2>2, <2>6 DEF Asks
    <3> QED
      BY <2>3, <2>4, <3>1, <3>2
  <2> QED
    BY <2>5, <2>6
<1> QED
  BY <1>5, <1>6, <1>7 DEF n

----------------------------------------------------------------------------
\* The messages that n has got since it answered, or that are in the buffer.
OnTheWay(n) == owed[n] \o Types(buffer[n])

LEMMA TypesAre ==
  ASSUME NEW q \in Seq(Message)
  PROVE  /\ Types(q) \in Seq(Type) /\ Len(Types(q)) = Len(q)
         /\ \A i \in 1..Len(q) : Types(q)[i] = q[i].type
<1>1. Len(q) \in Nat
  OBVIOUS
<1> QED
  BY <1>1, TypesType DEF Types

LEMMA TypesConcat ==
  ASSUME NEW a \in Seq(Message), NEW b \in Seq(Message)
  PROVE  Types(a \o b) = Types(a) \o Types(b)
<1> DEFINE q == a \o b
           N == Types(a) \o Types(b)
<1>1. /\ Len(a) \in Nat /\ Len(b) \in Nat
      /\ q \in Seq(Message) /\ Len(q) = Len(a) + Len(b)
      /\ \A i \in 1..(Len(a) + Len(b)) : q[i] = IF i <= Len(a) THEN a[i] ELSE b[i - Len(a)]
  BY ConcatProperties
<1>2. /\ Types(a) \in Seq(Type) /\ Len(Types(a)) = Len(a)
      /\ Types(b) \in Seq(Type) /\ Len(Types(b)) = Len(b)
      /\ Types(q) \in Seq(Type) /\ Len(Types(q)) = Len(a) + Len(b)
  BY <1>1, TypesAre
<1>3. /\ N \in Seq(Type) /\ Len(N) = Len(a) + Len(b)
      /\ \A i \in 1..(Len(a) + Len(b)) :
           N[i] = IF i <= Len(a) THEN Types(a)[i] ELSE Types(b)[i - Len(a)]
  BY <1>2, ConcatProperties
<1>4. ASSUME NEW i \in 1..(Len(a) + Len(b))
      PROVE  Types(q)[i] = N[i]
  <2>1. Types(q)[i] = q[i].type
    BY <1>1, TypesAre
  <2>2. CASE i <= Len(a)
    <3>1. i \in 1..Len(a)
      BY <1>1, <2>2
    <3> QED
      BY <3>1, <2>1, <2>2, <1>1, <1>3, TypesAre
  <2>3. CASE ~(i <= Len(a))
    <3>1. i - Len(a) \in 1..Len(b)
      BY <1>1, <2>3
    <3> QED
      BY <3>1, <2>1, <2>3, <1>1, <1>3, TypesAre
  <2> QED
    BY <2>2, <2>3
<1> HIDE DEF q, N
<1>5. Types(q) = N
  BY <1>2, <1>3, <1>4, SeqEqual
<1> QED
  BY <1>5 DEF q, N

LEMMA TypesAppend ==
  ASSUME NEW q \in Seq(Message), NEW m \in Message
  PROVE  /\ Append(q, m) \in Seq(Message)
         /\ Types(Append(q, m)) = Append(Types(q), m.type)
<1>1. m.type \in Type /\ Len(q) \in Nat
  BY DEF Message
<1>2. /\ Append(q, m) \in Seq(Message) /\ Len(Append(q, m)) = Len(q) + 1
      /\ \A i \in 1..(Len(q) + 1) : Append(q, m)[i] = IF i = Len(q) + 1 THEN m ELSE q[i]
  OBVIOUS
<1>3. /\ Types(q) \in Seq(Type) /\ Len(Types(q)) = Len(q)
      /\ \A i \in 1..Len(q) : Types(q)[i] = q[i].type
  BY TypesAre
<1>4. /\ Append(Types(q), m.type) \in Seq(Type) /\ Len(Append(Types(q), m.type)) = Len(q) + 1
      /\ \A i \in 1..(Len(q) + 1) :
           Append(Types(q), m.type)[i] = IF i = Len(q) + 1 THEN m.type ELSE Types(q)[i]
  BY <1>1, <1>3
<1>5. /\ Types(Append(q, m)) \in Seq(Type) /\ Len(Types(Append(q, m))) = Len(q) + 1
      /\ \A i \in 1..(Len(q) + 1) : Types(Append(q, m))[i] = Append(q, m)[i].type
  BY <1>2, TypesAre
<1>6. \A i \in 1..(Len(q) + 1) : Types(Append(q, m))[i] = Append(Types(q), m.type)[i]
  <2> TAKE i \in 1..(Len(q) + 1)
  <2>1. CASE i = Len(q) + 1
    BY <2>1, <1>2, <1>4, <1>5
  <2>2. CASE i # Len(q) + 1
    <3>1. i \in 1..Len(q)
      BY <1>1, <2>2
    <3> QED
      BY <2>2, <3>1, <1>2, <1>3, <1>4, <1>5
  <2> QED
    BY <2>1, <2>2
<1>7. Types(Append(q, m)) = Append(Types(q), m.type)
  BY <1>4, <1>5, <1>6, SeqEqual
<1> QED
  BY <1>2, <1>7

LEMMA OnTheWayType ==
  ASSUME TypeOK, NEW n \in Address
  PROVE  /\ OnTheWay(n) \in Seq(Type) /\ owed[n] \in Seq(Type) /\ buffer[n] \in Seq(Message)
         /\ Types(buffer[n]) \in Seq(Type)
<1>1. owed[n] \in Seq(Type) /\ buffer[n] \in Seq(Message)
  BY DEF TypeOK
<1> QED
  BY <1>1, TypesAre, ConcatProperties DEF OnTheWay

\* The messages p are written, those of b stay in the buffer.
LEMMA WriteOnTheWay ==
  ASSUME NEW x \in Seq(Type), NEW p \in Seq(Message), NEW b \in Seq(Message)
  PROVE  (x \o Types(p)) \o Types(b) = x \o Types(p \o b)
<1>1. Types(p) \in Seq(Type) /\ Types(b) \in Seq(Type)
  BY TypesAre
<1>2. (x \o Types(p)) \o Types(b) = x \o (Types(p) \o Types(b))
  BY <1>1, ConcatAssociative, SMTT(20)
<1> QED
  BY <1>2, TypesConcat

LEMMA FlushOnTheWay ==
  ASSUME TypeOK, Flush, NEW n \in Address
  PROVE  OnTheWay(n)' = OnTheWay(n)
<1>1. owed[n] \in Seq(Type) /\ buffer[n] \in Seq(Message)
  BY DEF TypeOK
<1>2. CASE buffer_index > 0
  <2>1. owed'[n] = owed[n] \o Types(buffer[n]) /\ buffer'[n] = << >>
    BY <1>2 DEF Flush, Write, NoMessages
  <2>2. << >> \in Seq(Message) /\ buffer[n] = buffer[n] \o << >>
    BY <1>1, ConcatEmptySeq
  <2>3. (owed[n] \o Types(buffer[n])) \o Types(<< >>) = owed[n] \o Types(buffer[n])
    <3>1. PICK x \in Seq(Type), p \in Seq(Message), b \in Seq(Message) :
            x = owed[n] /\ p = buffer[n] /\ b = << >>
      BY <1>1, <2>2
    <3>2. p = p \o b
      BY <2>2, <3>1
    <3>3. (x \o Types(p)) \o Types(b) = x \o Types(p \o b)
      BY WriteOnTheWay
    <3> QED
      BY <3>1, <3>2, <3>3
  <2> QED
    BY <2>1, <2>3 DEF OnTheWay
<1>3. CASE ~(buffer_index > 0)
  BY <1>3 DEF Flush, line, OnTheWay
<1> QED
  BY <1>2, <1>3

LEMMA AddToBufferOnTheWay ==
  ASSUME TypeOK, NEW e \in Job, AddToBuffer(e), NEW n \in Address
  PROVE  OnTheWay(n)' = IF n = e.to THEN Append(OnTheWay(n), e.msg.type) ELSE OnTheWay(n)
<1> DEFINE size == Size[e.msg.type]
           before == buffer_index + size > pkt_max_cap
           index == (IF before THEN 0 ELSE buffer_index) + size
           after == index > pkt_max_cap - MinSize
           gone == IF after THEN With(buffer, e) ELSE IF before THEN buffer ELSE NoMessages
<1>0. e.to \in Address /\ e.msg \in Message /\ e.msg.type \in Type
  BY DEF Job, Message
<1>1. /\ Write(gone)
      /\ buffer' = IF after THEN NoMessages
                   ELSE With(IF before THEN NoMessages ELSE buffer, e)
  BY DEF AddToBuffer
<1>2. owed[n] \in Seq(Type) /\ buffer[n] \in Seq(Message) /\ << >> \in Seq(Message)
  BY DEF TypeOK
<1>3. /\ NoMessages \in [Address -> Seq(Message)] /\ buffer \in [Address -> Seq(Message)]
      /\ \A q \in [Address -> Seq(Message)] :
           /\ With(q, e) \in [Address -> Seq(Message)]
           /\ With(q, e)[e.to] = Append(q[e.to], e.msg)
           /\ \A m \in Address \ {e.to} : With(q, e)[m] = q[m]
  BY <1>0 DEF NoMessages, With, TypeOK
<1>4. NoMessages[n] = << >>
  BY DEF NoMessages
<1> HIDE DEF size, before, index, after
<1>5. gone \in [Address -> Seq(Message)] /\ buffer' \in [Address -> Seq(Message)]
  BY <1>1, <1>3
<1>6. owed'[n] = owed[n] \o Types(gone[n])
  BY <1>1 DEF Write
<1>7. With(buffer, e)[n] = gone[n] \o buffer'[n]
  <2>0. With(buffer, e)[n] \in Seq(Message)
    BY <1>3
  <2>1. CASE after
    <3>1. gone[n] = With(buffer, e)[n] /\ buffer'[n] = << >>
      BY <2>1, <1>1, <1>4
    <3> QED
      BY <2>0, <3>1, ConcatEmptySeq
  <2>2. CASE ~after /\ ~before
    <3>1. gone[n] = << >> /\ buffer'[n] = With(buffer, e)[n]
      BY <2>2, <1>1, <1>4
    <3> QED
      BY <2>0, <3>1, ConcatEmptySeq
  <2>3. CASE ~after /\ before
    <3>1. gone[n] = buffer[n] /\ buffer'[n] = With(NoMessages, e)[n]
      BY <2>3, <1>1
    <3>2. CASE n = e.to
      <4>1. Append(buffer[n], e.msg) = buffer[n] \o <<e.msg>>
        BY <1>0, <1>2, AppendIsConcat
      <4>2. Append(<< >>, e.msg) = <<e.msg>>
        OBVIOUS
      <4> QED
        BY <3>1, <3>2, <4>1, <4>2, <1>3, <1>4
    <3>3. CASE n # e.to
      <4>1. With(buffer, e)[n] = buffer[n] /\ With(NoMessages, e)[n] = << >>
        BY <3>3, <1>3, <1>4
      <4> QED
        BY <3>1, <4>1, <1>2, ConcatEmptySeq
    <3> QED
      BY <3>2, <3>3
  <2> QED
    BY <2>1, <2>2, <2>3
<1>8. OnTheWay(n)' = owed[n] \o Types(With(buffer, e)[n])
  <2>1. gone[n] \in Seq(Message) /\ buffer'[n] \in Seq(Message)
    BY <1>5
  <2>2. OnTheWay(n)' = (owed[n] \o Types(gone[n])) \o Types(buffer'[n])
    BY <1>6 DEF OnTheWay, Types
  <2>3. PICK x \in Seq(Type), p \in Seq(Message), b \in Seq(Message) :
          x = owed[n] /\ p = gone[n] /\ b = buffer'[n]
    BY <1>2, <2>1
  <2>4. (x \o Types(p)) \o Types(b) = x \o Types(p \o b)
    BY WriteOnTheWay
  <2> QED
    BY <1>7, <2>2, <2>3, <2>4
<1> HIDE DEF gone
<1>9. CASE n = e.to
  <2>1. With(buffer, e)[n] = Append(buffer[n], e.msg)
    BY <1>3, <1>9
  <2>2. Types(buffer[n]) \in Seq(Type)
        /\ Types(Append(buffer[n], e.msg)) = Append(Types(buffer[n]), e.msg.type)
    BY <1>0, <1>2, TypesAre, TypesAppend
  <2>3. PICK x \in Seq(Type), y \in Seq(Type) : x = owed[n] /\ y = Types(buffer[n])
    BY <1>2, <2>2
  <2>4. x \o Append(y, e.msg.type) = Append(x \o y, e.msg.type)
    <3>1. /\ Append(y, e.msg.type) = y \o <<e.msg.type>> /\ x \o y \in Seq(Type)
          /\ <<e.msg.type>> \in Seq(Type)
      BY <1>0, AppendIsConcat, ConcatProperties
    <3>2. Append(x \o y, e.msg.type) = (x \o y) \o <<e.msg.type>>
      BY <1>0, <3>1, AppendIsConcat
    <3> QED
      BY <3>1, <3>2, ConcatAssociative
  <2> QED
    BY <1>8, <1>9, <2>1, <2>2, <2>3, <2>4 DEF OnTheWay
<1>10. CASE n # e.to
  BY <1>3, <1>8, <1>10 DEF OnTheWay
<1> QED
  BY <1>9, <1>10

----------------------------------------------------------------------------
(* What the account rests on beside the table: the message the receiver     *)
(* sends of its own accord asks for no answer, and no message that callers  *)
(* send is answered by one that a node also sends without being asked.      *)
ReplyUnanswered == MaxResponse[ReplyType] = 0

EventsAnswerNothing ==
  \A y \in CallType : \A i \in 1..Len(Answers[y]) : Answers[y][i] \notin {Occupancy, Stall}

\* The nodes that at most one of the callers sends to.
OneCaller == {n \in Address : \A t, u \in Caller : n \in SendTo[t] /\ n \in SendTo[u] => t = u}

\* n has answered, and the table has not taken the answer into account.
AnswerHeard(n) == Updating /\ node = n /\ got \notin {Occupancy, Stall}

\* t has let the table book a request to n, which is not in the buffer.
HasRequest(t, n) == pc[t] = "accepted" /\ job[t].to = n /\ Asks(job[t].msg.type)

Answered(n) == IF AnswerHeard(n) THEN 1 ELSE 0
Unsent(n) == IF \E t \in Thread : HasRequest(t, n) THEN 1 ELSE 0

(* The requests on the way to n are those booked, without the one that has  *)
(* been answered and the one that is in the hand of its caller.             *)
OnAccount(n) ==
  Books(response_queue[n], OnTheWay(n), Answered(n), Len(response_queue[n]) - Unsent(n))

\* Nothing is stored that could overtake the latter.
InHandIsLast(n) ==
  \A t \in Thread : HasRequest(t, n) =>
    /\ response_queue[n] # << >>
    /\ response_queue[n][Len(response_queue[n])].type = job[t].msg.type
    /\ \A i \in 1..Len(message_queue[n]) : ~Asks(message_queue[n][i].type)

\* The table will find that the request at the head is the one answered.
FindsRequest(n) ==
  AnswerHeard(n) => \E i \in 1..Len(HeadAnswers) : i >= at /\ HeadAnswers[i] = got

Balanced(n) == OnAccount(n) /\ InHandIsLast(n) /\ FindsRequest(n)

\* What is sent, stored and booked is of the types that are sent.
SentTypes ==
  /\ \A t \in Thread : pc[t] \in {"numbered", "accepted"} =>
       job[t].msg.type \in (IF t = Receiver THEN {ReplyType} ELSE CallType)
  /\ \A n \in Address : \A i \in 1..Len(message_queue[n]) :
       message_queue[n][i].type \in CallType \cup {ReplyType}
  /\ \A n \in Address : \A i \in 1..Len(response_queue[n]) :
       response_queue[n][i].type \in CallType

BookInv == SentTypes /\ \A n \in OneCaller : Balanced(n)

\* The queues of the table after a step of it on them.
LEMMA QueueTypes ==
  ASSUME NEW S, NEW R, NEW q \in Seq(S), \A i \in 1..Len(q) : q[i].type \in R
  PROVE  /\ \A e \in S : e.type \in R =>
              \A i \in 1..Len(Append(q, e)) : Append(q, e)[i].type \in R
         /\ q # << >> => /\ Head(q).type \in R
                         /\ \A i \in 1..Len(Tail(q)) : Tail(q)[i].type \in R
<1>1. Len(q) \in Nat
  OBVIOUS
<1>2. ASSUME NEW e \in S, e.type \in R, NEW i \in 1..Len(Append(q, e))
      PROVE  Append(q, e)[i].type \in R
  <2>1. i \in 1..(Len(q) + 1)
    BY <1>2
  <2>2. CASE i = Len(q) + 1
    <3>1. Append(q, e)[i] = e
      BY <2>2, <1>1
    <3> QED
      BY <3>1, <1>2
  <2>3. CASE i # Len(q) + 1
    <3>1. i \in 1..Len(q)
      BY <1>1, <2>1, <2>3
    <3>2. Append(q, e)[i] = q[i]
      BY <3>1
    <3> QED
      BY <3>1, <3>2
  <2> QED
    BY <2>2, <2>3
<1>3. ASSUME q # << >>
      PROVE  /\ Head(q).type \in R
             /\ \A i \in 1..Len(Tail(q)) : Tail(q)[i].type \in R
  <2>1. Len(q) >= 1 /\ Head(q) = q[1] /\ 1 \in 1..Len(q) /\ Len(Tail(q)) = Len(q) - 1
    BY <1>1, <1>3
  <2>2. \A i \in 1..(Len(q) - 1) : Tail(q)[i] = q[i + 1] /\ i + 1 \in 1..Len(q)
    BY <1>1, <1>3
  <2> QED
    BY <2>1, <2>2
<1> QED
  BY <1>2, <1>3

\* Booking a message of a type that is sent.
LEMMA AddResponseSent ==
  ASSUME TypeOK, SentTypes, ReplyUnanswered, NEW n \in Address,
         NEW y \in CallType \cup {ReplyType}, AddResponse(n, y)
  PROVE  /\ \A m \in Address : \A i \in 1..Len(response_queue'[m]) :
              response_queue'[m][i].type \in CallType
         /\ \A m \in Address \ {n} : response_queue'[m] = response_queue[m]
         /\ Asks(y) => response_queue'[n] = Append(response_queue[n], [type |-> y, old |-> FALSE])
         /\ ~Asks(y) => response_queue'[n] = response_queue[n]
<1> DEFINE r == [type |-> y, old |-> FALSE]
<1>1. response_queue \in [Address -> Seq(Response)] /\ y \in Type
  BY TransmissionAssumption DEF TypeOK, TableTypeOK
<1>2. \A m \in Address : \A i \in 1..Len(response_queue[m]) :
        response_queue[m][i].type \in CallType
  BY DEF SentTypes
<1>3. CASE Asks(y)
  <2>1. response_queue' = [response_queue EXCEPT ![n] = Append(@, r)] /\ y \in CallType
    BY <1>3, TypeAssumption DEF Asks, AddResponse, ReplyUnanswered
  <2>2. r \in Response /\ r.type \in CallType
    BY <1>1, <2>1 DEF Response
  <2>3. /\ response_queue'[n] = Append(response_queue[n], r)
        /\ \A m \in Address \ {n} : response_queue'[m] = response_queue[m]
    BY <1>1, <2>1
  <2>4. \A i \in 1..Len(Append(response_queue[n], r)) :
          Append(response_queue[n], r)[i].type \in CallType
    <3>1. response_queue[n] \in Seq(Response)
      BY <1>1
    <3> HIDE DEF r
    <3> QED
      BY <1>2, <2>2, <3>1, QueueTypes
  <2> HIDE DEF r
  <2>5. \A m \in Address : \A i \in 1..Len(response_queue'[m]) :
          response_queue'[m][i].type \in CallType
    <3> TAKE m \in Address
    <3>1. CASE m = n
      BY <3>1, <2>3, <2>4
    <3>2. CASE m # n
      BY <3>2, <2>3, <1>2
    <3> QED
      BY <3>1, <3>2
  <2> QED
    BY <1>3, <2>3, <2>5 DEF r
<1>4. CASE ~Asks(y)
  <2>1. response_queue' = response_queue
    BY <1>4 DEF Asks, AddResponse
  <2> QED
    BY <1>2, <1>4, <2>1
<1> QED
  BY <1>3, <1>4

LEMMA SentInit == Init => SentTypes
<1> SUFFICES ASSUME Init PROVE SentTypes
  OBVIOUS
<1>1. \A t \in Thread : pc[t] = "idle"
  BY DEF Init
<1>2. \A n \in Address : message_queue[n] = << >> /\ response_queue[n] = << >>
  BY DEF Init, TableInit
<1>3. 1..Len(<< >>) = {}
  OBVIOUS
<1> QED
  BY <1>1, <1>2, <1>3 DEF SentTypes

LEMMA TakeNumberSent ==
  ASSUME TypeOK, SentTypes, NEW t \in Thread, NEW n \in Address, NEW y,
         TakeNumber(t, n, y), y \in (IF t = Receiver THEN {ReplyType} ELSE CallType)
  PROVE  SentTypes'
<1>1. /\ pc' = [pc EXCEPT ![t] = "numbered"]
      /\ job' = [job EXCEPT ![t] = [to |-> n, msg |-> [type |-> y, seq |-> send_seqnum[n]]]]
      /\ UNCHANGED <<message_queue, response_queue>>
  BY DEF TakeNumber, GoTo
<1>2. /\ \A u \in Thread \ {t} : pc'[u] = pc[u] /\ job'[u] = job[u]
      /\ job'[t].msg.type = y
  BY <1>1 DEF TypeOK
<1>3. ASSUME NEW u \in Thread, pc'[u] \in {"numbered", "accepted"}
      PROVE  job'[u].msg.type \in (IF u = Receiver THEN {ReplyType} ELSE CallType)
  <2>1. CASE u = t
    BY <1>2, <2>1
  <2>2. CASE u # t
    <3>1. pc'[u] = pc[u] /\ job'[u] = job[u]
      BY <1>2, <2>2
    <3> QED
      BY <1>3, <3>1 DEF SentTypes
  <2> QED
    BY <2>1, <2>2
<1> QED
  BY <1>1, <1>3 DEF SentTypes

LEMMA TrySendSent ==
  ASSUME TypeOK, SentTypes, ReplyUnanswered, NEW t \in Thread, TrySend(t)
  PROVE  SentTypes'
<1> DEFINE k == job[t].to
           m == job[t].msg
<1>1. /\ pc[t] = "numbered" /\ k \in Address /\ m \in Message
      /\ SendNow(k, m) \/ Store(k, m)
      /\ \E l \in {"accepted", "flush", "idle"} : pc' = [pc EXCEPT ![t] = l]
      /\ UNCHANGED job
  BY HasSender DEF TrySend, GoTo, AfterSend
<1>2. m.type \in CallType \cup {ReplyType}
  BY <1>1 DEF SentTypes
<1>3. message_queue \in [Address -> Seq(Message)]
  BY DEF TypeOK, TableTypeOK
<1>4. ASSUME NEW u \in Thread, pc'[u] \in {"numbered", "accepted"}
      PROVE  job'[u].msg.type \in (IF u = Receiver THEN {ReplyType} ELSE CallType)
  <2>1. pc[u] \in {"numbered", "accepted"}
    BY <1>1, <1>4 DEF TypeOK
  <2> QED
    BY <1>1, <2>1 DEF SentTypes
<1> HIDE DEF k, m
<1>5. CASE SendNow(k, m)
  <2>1. AddResponse(k, m.type) /\ UNCHANGED message_queue
    BY <1>5 DEF SendNow
  <2>2. \A n \in Address : \A i \in 1..Len(response_queue'[n]) :
          response_queue'[n][i].type \in CallType
    BY <1>1, <1>2, <2>1, AddResponseSent
  <2> QED
    BY <1>4, <2>1, <2>2 DEF SentTypes
<1>6. CASE Store(k, m)
  <2>1. /\ message_queue' = [message_queue EXCEPT ![k] = Append(@, m)]
        /\ UNCHANGED response_queue
    BY <1>6 DEF Store
  <2>2. ASSUME NEW n \in Address
        PROVE  \A i \in 1..Len(message_queue'[n]) :
                 message_queue'[n][i].type \in CallType \cup {ReplyType}
    <3>1. \A i \in 1..Len(message_queue[n]) :
            message_queue[n][i].type \in CallType \cup {ReplyType}
      BY DEF SentTypes
    <3>2. CASE n = k
      <4>1. message_queue'[n] = Append(message_queue[n], m) /\ message_queue[n] \in Seq(Message)
        BY <1>3, <2>1, <3>2
      <4> QED
        BY <1>1, <1>2, <3>1, <4>1, QueueTypes
    <3>3. CASE n # k
      <4>1. message_queue'[n] = message_queue[n]
        BY <1>3, <2>1, <3>3
      <4> QED
        BY <3>1, <4>1
    <3> QED
      BY <3>2, <3>3
  <2> QED
    BY <1>4, <2>1, <2>2 DEF SentTypes
<1> QED
  BY <1>1, <1>5, <1>6

LEMMA SendStoredSent ==
  ASSUME TypeInv, SentTypes, ReplyUnanswered, SendStored
  PROVE  SentTypes'
<1> DEFINE m == Head(message_queue[serving])
<1>1. /\ serving \in Address /\ message_queue[serving] # << >>
      /\ AddResponse(serving, m.type)
      /\ message_queue' = [message_queue EXCEPT ![serving] = Tail(@)]
      /\ UNCHANGED <<pc, job>>
  BY SendStoredType DEF SendStored, Dequeue, sending
<1>2. message_queue \in [Address -> Seq(Message)]
  BY DEF TypeInv, TypeOK, TableTypeOK
<1>3. ASSUME NEW n \in Address
      PROVE  \A i \in 1..Len(message_queue[n]) :
               message_queue[n][i].type \in CallType \cup {ReplyType}
  BY DEF SentTypes
<1>4. m.type \in CallType \cup {ReplyType}
  BY <1>1, <1>2, <1>3, QueueTypes
<1> HIDE DEF m
<1>5. \A n \in Address : \A i \in 1..Len(response_queue'[n]) :
        response_queue'[n][i].type \in CallType
  BY <1>1, <1>4, AddResponseSent DEF TypeInv
<1>6. ASSUME NEW n \in Address
      PROVE  \A i \in 1..Len(message_queue'[n]) :
               message_queue'[n][i].type \in CallType \cup {ReplyType}
  <2>1. CASE n = serving
    <3>1. /\ message_queue'[n] = Tail(message_queue[n]) /\ message_queue[n] \in Seq(Message)
          /\ message_queue[n] # << >>
      BY <1>1, <1>2, <2>1
    <3> QED
      BY <1>3, <3>1, QueueTypes
  <2>2. CASE n # serving
    BY <1>1, <1>2, <1>3, <2>2
  <2> QED
    BY <2>1, <2>2
<1> QED
  BY <1>1, <1>5, <1>6 DEF SentTypes

LEMMA MatchSent ==
  ASSUME TypeInv, SentTypes, Match, UNCHANGED <<pc, job>>
  PROVE  SentTypes'
<1>1. /\ node \in Address /\ response_queue[node] # << >>
      /\ response_queue' = [response_queue EXCEPT ![node] = Tail(@)]
      /\ UNCHANGED message_queue
  BY DEF Match, PopResponse, TypeInv, TableInv, LocalsOK, Updating
<1>2. response_queue \in [Address -> Seq(Response)]
  BY DEF TypeInv, TypeOK, TableTypeOK
<1>3. ASSUME NEW n \in Address
      PROVE  \A i \in 1..Len(response_queue'[n]) : response_queue'[n][i].type \in CallType
  <2>0. \A i \in 1..Len(response_queue[n]) : response_queue[n][i].type \in CallType
    BY DEF SentTypes
  <2>1. CASE n = node
    <3>1. /\ response_queue'[n] = Tail(response_queue[n]) /\ response_queue[n] \in Seq(Response)
          /\ response_queue[n] # << >>
      BY <1>1, <1>2, <2>1
    <3> QED
      BY <2>0, <3>1, QueueTypes
  <2>2. CASE n # node
    BY <1>1, <1>2, <2>0, <2>2
  <2> QED
    BY <2>1, <2>2
<1> QED
  BY <1>1, <1>3 DEF SentTypes

\* The other steps leave both queues alone, and no thread takes up a message.
LEMMA SentSame ==
  ASSUME SentTypes, UNCHANGED <<message_queue, response_queue, job>>,
         \A t \in Thread : pc'[t] \in {"numbered", "accepted"} => pc[t] \in {"numbered", "accepted"}
  PROVE  SentTypes'
BY DEF SentTypes

LEMMA SentStep ==
  ASSUME TypeInv, SentTypes, ReplyUnanswered, [Next]_vars
  PROVE  SentTypes'
<1>0. TypeOK
  BY DEF TypeInv
<1>1. ASSUME NEW t \in Caller, NEW n \in Address, NEW y \in CallType, Call(t, n, y)
      PROVE  SentTypes'
  <2>1. t \in Thread /\ t # Receiver /\ TakeNumber(t, n, y)
    BY <1>1, TransmissionAssumption DEF Call, Thread
  <2> QED
    BY <1>0, <2>1, TakeNumberSent
<1>2. CASE Reply
  <2>1. /\ Receiver \in Thread /\ heard[1] \in Address
        /\ TakeNumber(Receiver, heard[1], ReplyType)
    BY <1>2 DEF Reply, Updated, Thread
  <2> QED
    BY <1>0, <2>1, TakeNumberSent
<1>3. ASSUME NEW t \in Thread, PutIntoBuffer(t)
      PROVE  SentTypes'
  <2>1. /\ UNCHANGED <<message_queue, response_queue, job>>
        /\ \E l \in {"idle", "flush"} : pc' = [pc EXCEPT ![t] = l]
    BY <1>3 DEF PutIntoBuffer, table, GoTo, AfterSend
  <2>2. \A u \in Thread : pc'[u] \in {"numbered", "accepted"} => pc[u] \in {"numbered", "accepted"}
    BY <1>0, <2>1 DEF TypeOK
  <2> QED
    BY <2>1, <2>2, SentSame
<1>4. CASE UpdateStep
  <2>1. UNCHANGED <<pc, job>>
    BY <1>4 DEF UpdateStep, sending
  <2>2. CASE Match
    BY <2>1, <2>2, MatchSent
  <2>3. CASE ~Match
    <3>1. UNCHANGED <<message_queue, response_queue>>
      BY <1>4, <2>3 DEF UpdateStep, Skip, EndUpdate, ServeNextAffected, EndStallOff, table
    <3> QED
      BY <2>1, <3>1, SentSame
  <2> QED
    BY <2>2, <2>3
<1>5. ASSUME \/ EndSendStored \/ HandleStall \/ HandleOther
             \/ AutoFlush \/ FlushReply
             \/ \E n \in Address : \/ HearAnswer(n) \/ HearOccupancy(n)
                                   \/ HearStall(n) \/ HearReady(n)
             \/ UNCHANGED vars
      PROVE  SentTypes'
  <2>1. /\ UNCHANGED job
        /\ \A t \in Thread : \/ pc'[t] = pc[t]
                             \/ {pc[t], pc'[t]} \subseteq {"flush", "idle"}
    BY <1>0, <1>5, OtherSteps
  <2>2. UNCHANGED <<message_queue, response_queue>>
    <3>1. CASE EndSendStored \/ HandleStall \/ HandleOther \/ AutoFlush \/ FlushReply
      BY <3>1 DEF EndSendStored, EndServing, HandleStall, HandleOther, StallOn, StallOff,
                  AutoFlush, FlushReply, table
    <3>2. ASSUME NEW n \in Address,
                 HearAnswer(n) \/ HearOccupancy(n) \/ HearStall(n) \/ HearReady(n)
          PROVE  UNCHANGED <<message_queue, response_queue>>
      BY <3>2 DEF HearAnswer, HearOccupancy, HearStall, HearReady, HearEvent, Hear, BeginUpdate,
                  table
    <3>3. CASE UNCHANGED vars
      BY <3>3 DEF vars, table
    <3> QED
      BY <1>5, <3>1, <3>2, <3>3
  <2> QED
    BY <2>1, <2>2, SentSame
<1> QED
  BY <1>0, <1>1, <1>2, <1>3, <1>4, <1>5, TrySendSent, SendStoredSent DEF Next, Handle

----------------------------------------------------------------------------
\* Requests are in the hands of callers only, for a node of one caller of one.
LEMMA RequestIsCallers ==
  ASSUME TypeOK, SentTypes, ReplyUnanswered, NEW n \in OneCaller, NEW t \in Thread,
         NEW u \in Thread, pc[t] \in {"numbered", "accepted"}, job[t].to = n,
         Asks(job[t].msg.type), HasRequest(u, n)
  PROVE  u = t
<1>1. ASSUME NEW v \in Thread, pc[v] \in {"numbered", "accepted"}, job[v].to = n,
             Asks(job[v].msg.type)
      PROVE  v \in Caller /\ n \in SendTo[v]
  <2>1. ~Asks(ReplyType)
    BY DEF Asks, ReplyUnanswered
  <2>2. v # Receiver
    BY <1>1, <2>1 DEF SentTypes
  <2> QED
    BY <1>1, <2>2, HasSender DEF Thread
<1>2. t \in Caller /\ n \in SendTo[t]
  BY <1>1
<1>3. u \in Caller /\ n \in SendTo[u]
  BY <1>1 DEF HasRequest
<1> QED
  BY <1>2, <1>3 DEF OneCaller

\* No request is in the hand of a thread that books another one for n, or
\* stores one.
LEMMA NoneInHand ==
  ASSUME TypeOK, SentTypes, ReplyUnanswered, NEW n \in OneCaller, NEW t \in Thread,
         pc[t] = "numbered", job[t].to = n, Asks(job[t].msg.type)
  PROVE  \A u \in Thread : ~HasRequest(u, n)
<1> SUFFICES ASSUME NEW u \in Thread, HasRequest(u, n) PROVE FALSE
  OBVIOUS
<1>1. u = t
  BY RequestIsCallers
<1> QED
  BY <1>1 DEF HasRequest

LEMMA UnsentIs ==
  ASSUME NEW n \in Address
  PROVE  /\ Unsent(n) \in {0, 1} /\ (Unsent(n) = 1 <=> \E t \in Thread : HasRequest(t, n))
         /\ Unsent(n)' \in {0, 1} /\ (Unsent(n)' = 1 <=> \E t \in Thread : HasRequest(t, n)')
BY DEF Unsent

LEMMA AnsweredIs ==
  ASSUME NEW n \in Address
  PROVE  /\ Answered(n) = IF AnswerHeard(n) THEN 1 ELSE 0
         /\ Answered(n)' = IF AnswerHeard(n)' THEN 1 ELSE 0
BY DEF Answered

\* Who has a request, when no thread but t has moved.
LEMMA StillHas ==
  ASSUME NEW n \in Address, NEW t \in Thread,
         \A u \in Thread \ {t} : pc'[u] = pc[u] /\ job'[u] = job[u],
         HasRequest(t, n)' <=> HasRequest(t, n), HasRequest(t, n) => job'[t] = job[t]
  PROVE  \A u \in Thread : /\ HasRequest(u, n)' <=> HasRequest(u, n)
                           /\ HasRequest(u, n) => job'[u] = job[u]
<1> TAKE u \in Thread
<1>1. CASE u = t
  BY <1>1
<1>2. CASE u # t
  <2>1. pc'[u] = pc[u] /\ job'[u] = job[u]
    BY <1>2
  <2> QED
    BY <2>1 DEF HasRequest, Asks
<1> QED
  BY <1>1, <1>2

\* A step that books nothing for n and puts none of its messages on the way.
LEMMA BalancedSame ==
  ASSUME TypeOK, NEW n \in Address, Balanced(n),
         response_queue'[n] = response_queue[n], OnTheWay(n)' = OnTheWay(n),
         \A t \in Thread : /\ HasRequest(t, n)' <=> HasRequest(t, n)
                           /\ HasRequest(t, n) => job'[t] = job[t],
         \A t \in Thread : HasRequest(t, n) =>
           \A i \in 1..Len(message_queue'[n]) : ~Asks(message_queue'[n][i].type),
         AnswerHeard(n)' <=> AnswerHeard(n), FindsRequest(n)'
  PROVE  Balanced(n)'
<1>1. Unsent(n)' = Unsent(n)
  BY UnsentIs
<1>2. Answered(n)' = Answered(n)
  BY AnsweredIs
<1>3. OnAccount(n)'
  <2>1. Books(response_queue'[n], OnTheWay(n)', Answered(n)', Len(response_queue'[n]) - Unsent(n)')
    BY <1>1, <1>2 DEF Balanced, OnAccount
  <2> QED
    BY <2>1 DEF OnAccount, Books, Asks
<1>4. ASSUME NEW t \in Thread, HasRequest(t, n)'
      PROVE  /\ response_queue'[n] # << >>
             /\ response_queue'[n][Len(response_queue'[n])].type = job'[t].msg.type
             /\ \A i \in 1..Len(message_queue'[n]) : ~Asks(message_queue'[n][i].type)
  BY <1>4 DEF Balanced, InHandIsLast
<1>5. InHandIsLast(n)'
  BY <1>4 DEF InHandIsLast, Asks
<1> QED
  BY <1>3, <1>5 DEF Balanced

\* ... and leaves the stored messages alone too.
LEMMA BalancedStill ==
  ASSUME TypeOK, NEW n \in Address, Balanced(n),
         UNCHANGED <<response_queue, message_queue>>, OnTheWay(n)' = OnTheWay(n),
         \A t \in Thread : /\ HasRequest(t, n)' <=> HasRequest(t, n)
                           /\ HasRequest(t, n) => job'[t] = job[t],
         AnswerHeard(n)' <=> AnswerHeard(n), FindsRequest(n)'
  PROVE  Balanced(n)'
<1>1. \A t \in Thread : HasRequest(t, n) =>
        \A i \in 1..Len(message_queue'[n]) : ~Asks(message_queue'[n][i].type)
  BY DEF Balanced, InHandIsLast
<1> QED
  BY <1>1, BalancedSame

\* The table is not in an update, or stands where it stood.
LEMMA SearchStill ==
  ASSUME NEW n \in Address, FindsRequest(n), UNCHANGED <<locals, response_queue>>
  PROVE  (AnswerHeard(n)' <=> AnswerHeard(n)) /\ FindsRequest(n)'
BY DEF FindsRequest, AnswerHeard, Updating, HeadAnswers, HeadResponse, locals

LEMMA TakeNumberBalanced ==
  ASSUME TypeOK, NEW t \in Thread, NEW k \in Address, NEW y, TakeNumber(t, k, y),
         NEW n \in Address, Balanced(n)
  PROVE  Balanced(n)'
<1>1. /\ pc[t] = "idle" /\ pc' = [pc EXCEPT ![t] = "numbered"]
      /\ \A u \in Thread \ {t} : pc'[u] = pc[u] /\ job'[u] = job[u]
      /\ UNCHANGED <<response_queue, message_queue, locals, buffer, owed>>
  BY DEF TakeNumber, GoTo, line, TypeOK
<1>2. OnTheWay(n)' = OnTheWay(n)
  BY <1>1 DEF OnTheWay
<1>3. ~HasRequest(t, n) /\ ~HasRequest(t, n)'
  BY <1>1 DEF HasRequest, TypeOK
<1> QED
  BY <1>1, <1>2, <1>3, StillHas, SearchStill, BalancedStill DEF Balanced

LEMMA SendNowBalanced ==
  ASSUME TypeInv, SentTypes, ReplyUnanswered, NEW t \in Thread,
         pc[t] = "numbered", SendNow(job[t].to, job[t].msg), GoTo(t, "accepted"),
         UNCHANGED <<job, line>>, NEW n \in OneCaller, Balanced(n)
  PROVE  Balanced(n)'
<1> DEFINE y == job[t].msg.type
           k == job[t].to
           q == response_queue[n]
           r == [type |-> y, old |-> FALSE]
<1>0. TypeOK /\ n \in Address
  BY DEF TypeInv, OneCaller
<1>1. /\ k \in Address /\ y \in CallType \cup {ReplyType} /\ y \in Type
      /\ AddResponse(k, y) /\ MutexFree /\ message_queue[k] = << >>
      /\ UNCHANGED <<message_queue, locals, buffer, owed>>
  BY <1>0, HasSender DEF SendNow, SentTypes, line, Message
<1>2. /\ pc'[t] = "accepted" /\ job'[t] = job[t]
      /\ \A u \in Thread \ {t} : pc'[u] = pc[u] /\ job'[u] = job[u]
  BY <1>0 DEF GoTo, TypeOK
<1>3. OnTheWay(n)' = OnTheWay(n)
  BY <1>1 DEF OnTheWay
<1>4. ~AnswerHeard(n) /\ ~AnswerHeard(n)'
  BY <1>1 DEF AnswerHeard, Updating, MutexFree, locals
<1>5. FindsRequest(n)'
  BY <1>4 DEF FindsRequest
<1>6. /\ \A m \in Address \ {k} : response_queue'[m] = response_queue[m]
      /\ Asks(y) => response_queue'[k] = Append(response_queue[k], r)
      /\ ~Asks(y) => response_queue'[k] = response_queue[k]
  BY <1>0, <1>1, AddResponseSent
<1>7. HasRequest(t, n)' <=> k = n /\ Asks(y)
  BY <1>2 DEF HasRequest, Asks
<1>8. ~HasRequest(t, n)
  BY DEF HasRequest
<1>9. CASE k # n \/ ~Asks(y)
  <2>1. response_queue'[n] = response_queue[n] /\ (HasRequest(t, n)' <=> HasRequest(t, n))
    BY <1>0, <1>6, <1>7, <1>8, <1>9
  <2>2. \A u \in Thread : HasRequest(u, n) =>
          \A i \in 1..Len(message_queue'[n]) : ~Asks(message_queue'[n][i].type)
    BY <1>1 DEF Balanced, InHandIsLast
  <2> QED
    BY <1>0, <1>2, <1>3, <1>4, <1>5, <1>8, <2>1, <2>2, StillHas, BalancedSame
<1>10. CASE k = n /\ Asks(y)
  <2>1. \A u \in Thread : ~HasRequest(u, n)
    BY <1>0, <1>10, NoneInHand
  <2>2. Unsent(n) = 0 /\ Answered(n) = 0
    BY <1>0, <1>4, <2>1, UnsentIs, AnsweredIs
  <2>3. HasRequest(t, n)'
    BY <1>7, <1>10
  <2>4. Unsent(n)' = 1 /\ Answered(n)' = 0
    BY <1>0, <1>4, <2>3, UnsentIs, AnsweredIs
  <2>5. q \in Seq(Response) /\ r \in Response /\ r.type = y /\ Len(q) \in Nat
    <3>1. q \in Seq(Response)
      BY <1>0 DEF TypeOK, TableTypeOK
    <3>2. Len(q) \in Nat
      BY <3>1
    <3> HIDE DEF y, q
    <3>3. r \in Response /\ r.type = y
      BY <1>1 DEF Response
    <3> QED
      BY <3>1, <3>2, <3>3
  <2>6. OnTheWay(n) \in Seq(Type)
    BY <1>0, OnTheWayType
  <2>7. Books(q, OnTheWay(n), 0, Len(q))
    BY <2>2, <2>5 DEF Balanced, OnAccount
  <2> HIDE DEF r, q, y
  <2>8. /\ Append(q, r) \in Seq(Response) /\ Len(Append(q, r)) = Len(q) + 1
        /\ Append(q, r)[Len(q) + 1] = r /\ Append(q, r) # << >>
        /\ \A i \in 1..Len(q) : Append(q, r)[i] = q[i]
    BY <2>5
  <2>9. Books(Append(q, r), OnTheWay(n), 0, Len(q))
    <3>1. /\ Len(q) <= Len(Append(q, r))
          /\ \A i \in 1..Len(q) : Append(q, r)[i].type = q[i].type
      BY <2>5, <2>8
    <3> QED
      BY <2>5, <2>6, <2>7, <2>8, <3>1, BooksOther
  <2>10. response_queue'[n] = Append(q, r)
    BY <1>6, <1>10 DEF q
  <2>11. OnAccount(n)'
    <3>1. Len(response_queue'[n]) - Unsent(n)' = Len(q)
      BY <2>4, <2>5, <2>8, <2>10
    <3>2. Books(response_queue'[n], OnTheWay(n)', Answered(n)',
                Len(response_queue'[n]) - Unsent(n)')
      BY <1>3, <2>4, <2>9, <2>10, <3>1
    <3> QED
      BY <3>2 DEF OnAccount, Books, Asks
  <2>12. ASSUME NEW u \in Thread, HasRequest(u, n)'
         PROVE  /\ response_queue'[n] # << >>
                /\ response_queue'[n][Len(response_queue'[n])].type = job'[u].msg.type
                /\ \A i \in 1..Len(message_queue'[n]) : ~Asks(message_queue'[n][i].type)
    <3>1. u = t
      <4>1. SUFFICES ASSUME u # t PROVE FALSE
        OBVIOUS
      <4>2. pc'[u] = pc[u] /\ job'[u] = job[u]
        BY <1>2, <4>1
      <4>3. HasRequest(u, n)
        BY <2>12, <4>2 DEF HasRequest, Asks
      <4> QED
        BY <2>1, <4>3
    <3>2. response_queue'[n][Len(response_queue'[n])] = r
      BY <2>5, <2>8, <2>10
    <3>3. message_queue'[n] = << >> /\ 1..Len(<< >>) = {}
      BY <1>1, <1>10
    <3>4. job'[u].msg.type = y
      BY <1>2, <3>1 DEF y
    <3> QED
      BY <2>5, <2>8, <2>10, <3>2, <3>3, <3>4
  <2>13. InHandIsLast(n)'
    BY <2>12 DEF InHandIsLast, Asks
  <2> QED
    BY <1>5, <2>11, <2>13 DEF Balanced
<1> QED
  BY <1>9, <1>10

LEMMA StoreBalanced ==
  ASSUME TypeInv, SentTypes, ReplyUnanswered, NEW t \in Thread,
         pc[t] = "numbered", Store(job[t].to, job[t].msg), GoTo(t, AfterSend(t)),
         UNCHANGED <<job, line>>, NEW n \in OneCaller, Balanced(n)
  PROVE  Balanced(n)'
<1> DEFINE k == job[t].to
           m == job[t].msg
<1>0. TypeOK /\ n \in Address
  BY DEF TypeInv, OneCaller
<1>1. /\ k \in Address /\ m \in Message
      /\ message_queue' = [message_queue EXCEPT ![k] = Append(@, m)]
      /\ UNCHANGED <<response_queue, locals, buffer, owed>>
  BY <1>0, HasSender DEF Store, line
<1>2. /\ pc'[t] \in {"flush", "idle"}
      /\ \A u \in Thread \ {t} : pc'[u] = pc[u] /\ job'[u] = job[u]
  BY <1>0 DEF GoTo, AfterSend, TypeOK
<1>3. OnTheWay(n)' = OnTheWay(n)
  BY <1>1 DEF OnTheWay
<1>4. ~HasRequest(t, n) /\ ~HasRequest(t, n)'
  BY <1>2 DEF HasRequest
<1>5. message_queue \in [Address -> Seq(Message)]
  BY <1>0 DEF TypeOK, TableTypeOK
<1>6. ASSUME NEW u \in Thread, HasRequest(u, n)
      PROVE  \A i \in 1..Len(message_queue'[n]) : ~Asks(message_queue'[n][i].type)
  <2>1. \A i \in 1..Len(message_queue[n]) : ~Asks(message_queue[n][i].type)
    BY <1>6 DEF Balanced, InHandIsLast
  <2>2. CASE k # n
    <3>1. message_queue'[n] = message_queue[n]
      BY <1>0, <1>1, <1>5, <2>2
    <3> QED
      BY <2>1, <3>1
  <2>3. CASE k = n
    <3>1. ~Asks(m.type)
      BY <1>0, <1>6, <2>3, NoneInHand
    <3>2. message_queue'[n] = Append(message_queue[n], m) /\ message_queue[n] \in Seq(Message)
      BY <1>0, <1>1, <1>5, <2>3
    <3> DEFINE R == {y \in Type : ~Asks(y)}
    <3>3. \A i \in 1..Len(message_queue[n]) : message_queue[n][i].type \in R
      <4>1. \A i \in 1..Len(message_queue[n]) : message_queue[n][i] \in Message
        BY <3>2
      <4> QED
        BY <2>1, <4>1 DEF Message
    <3>4. m.type \in R
      BY <1>1, <3>1 DEF Message
    <3> HIDE DEF R, m
    <3>5. \A i \in 1..Len(message_queue'[n]) : message_queue'[n][i].type \in R
      BY <1>1, <3>2, <3>3, <3>4, QueueTypes
    <3> QED
      BY <3>5 DEF R
  <2> QED
    BY <2>2, <2>3
<1> QED
  BY <1>0, <1>1, <1>2, <1>3, <1>4, <1>6, StillHas, SearchStill, BalancedSame DEF Balanced

LEMMA PutIntoBufferBalanced ==
  ASSUME TypeInv, SentTypes, ReplyUnanswered, NEW t \in Thread, PutIntoBuffer(t),
         NEW n \in OneCaller, Balanced(n)
  PROVE  Balanced(n)'
<1> DEFINE y == job[t].msg.type
           k == job[t].to
           q == response_queue[n]
           w == OnTheWay(n)
<1>0. TypeOK /\ n \in Address
  BY DEF TypeInv, OneCaller
<1>1. /\ pc[t] = "accepted" /\ job[t] \in Job /\ k \in Address /\ y \in Type
      /\ AddToBuffer(job[t]) /\ GoTo(t, AfterSend(t))
      /\ UNCHANGED <<response_queue, message_queue, locals, job>>
  BY <1>0, HasSender DEF PutIntoBuffer, table, Message
<1>2. /\ pc'[t] \in {"flush", "idle"} /\ ~HasRequest(t, n)'
      /\ \A u \in Thread \ {t} : pc'[u] = pc[u] /\ job'[u] = job[u]
  BY <1>0, <1>1 DEF GoTo, AfterSend, TypeOK, HasRequest
<1>3. OnTheWay(n)' = IF n = k THEN Append(w, y) ELSE w
  BY <1>0, <1>1, AddToBufferOnTheWay
<1>4. HasRequest(t, n) <=> n = k /\ Asks(y)
  BY <1>1 DEF HasRequest
<1>5. (AnswerHeard(n)' <=> AnswerHeard(n)) /\ FindsRequest(n)'
  BY <1>0, <1>1, SearchStill DEF Balanced
<1>6. CASE n # k
  BY <1>0, <1>1, <1>2, <1>3, <1>4, <1>5, <1>6, StillHas, BalancedStill
<1>7. CASE n = k
  <2>1. q \in Seq(Response) /\ w \in Seq(Type) /\ Len(q) \in Nat
    <3>1. q \in Seq(Response)
      BY <1>0 DEF TypeOK, TableTypeOK
    <3>2. w \in Seq(Type)
      BY <1>0, OnTheWayType
    <3> QED
      BY <3>1, <3>2
  <2>2. Answered(n)' = Answered(n)
    BY <1>0, <1>5, AnsweredIs
  <2>3. Books(q, w, Answered(n), Len(q) - Unsent(n))
    BY DEF Balanced, OnAccount
  <2>4. CASE Asks(y)
    <3>1. \A u \in Thread : HasRequest(u, n) => u = t
      BY <1>0, <1>1, <1>7, <2>4, RequestIsCallers
    <3>2. \A u \in Thread : ~HasRequest(u, n)'
      <4> TAKE u \in Thread
      <4>1. CASE u = t
        BY <4>1, <1>2
      <4>2. CASE u # t
        <5>1. pc'[u] = pc[u] /\ job'[u] = job[u] /\ ~HasRequest(u, n)
          BY <1>2, <3>1, <4>2
        <5> QED
          BY <5>1 DEF HasRequest, Asks
      <4> QED
        BY <4>1, <4>2
    <3>3. Unsent(n) = 1 /\ Unsent(n)' = 0
      BY <1>0, <1>4, <1>7, <2>4, <3>2, UnsentIs
    <3>4. q # << >> /\ q[Len(q)].type = y
      BY <1>4, <1>7, <2>4 DEF Balanced, InHandIsLast
    <3> HIDE DEF q, w, y
    <3>5. (Len(q) - 1) + 1 = Len(q) /\ (Len(q) - 1) + 1 <= Len(q)
      BY <2>1
    <3>6. Books(q, Append(w, y), Answered(n), (Len(q) - 1) + 1)
      <4>1. Books(q, w, Answered(n), Len(q) - 1)
        BY <2>3, <3>3
      <4>2. q[(Len(q) - 1) + 1].type = y
        BY <3>4, <3>5
      <4> QED
        BY <1>1, <2>1, <2>4, <3>5, <4>1, <4>2, BooksAsk
    <3>7. Len(q) - 0 = Len(q)
      BY <2>1
    <3>8. Books(response_queue'[n], OnTheWay(n)', Answered(n)',
                Len(response_queue'[n]) - Unsent(n)')
      BY <1>1, <1>3, <1>7, <2>2, <3>3, <3>5, <3>6, <3>7 DEF q
    <3>9. OnAccount(n)'
      BY <3>8 DEF OnAccount, Books, Asks
    <3>10. InHandIsLast(n)'
      BY <3>2 DEF InHandIsLast
    <3> QED
      BY <1>5, <3>9, <3>10 DEF Balanced
  <2>5. CASE ~Asks(y)
    <3>1. \A u \in Thread : /\ HasRequest(u, n)' <=> HasRequest(u, n)
                            /\ HasRequest(u, n) => job'[u] = job[u]
      BY <1>0, <1>2, <1>4, <2>5, StillHas
    <3>2. Unsent(n)' = Unsent(n)
      BY <1>0, <3>1, UnsentIs
    <3>3. Books(q, Append(w, y), Answered(n), Len(q) - Unsent(n))
      BY <1>1, <2>1, <2>3, <2>5, BooksSilent
    <3>4. Books(response_queue'[n], OnTheWay(n)', Answered(n)',
                Len(response_queue'[n]) - Unsent(n)')
      BY <1>1, <1>3, <1>7, <2>2, <3>2, <3>3
    <3>5. OnAccount(n)'
      BY <3>4 DEF OnAccount, Books, Asks
    <3>6. InHandIsLast(n)'
      BY <1>1, <3>1 DEF InHandIsLast, Balanced, Asks
    <3> QED
      BY <1>5, <3>5, <3>6 DEF Balanced
  <2> QED
    BY <2>4, <2>5
<1> QED
  BY <1>6, <1>7

LEMMA SendStoredBalanced ==
  ASSUME TypeInv, SentTypes, ReplyUnanswered, SendStored, NEW n \in OneCaller, Balanced(n)
  PROVE  Balanced(n)'
<1> DEFINE m == Head(message_queue[serving])
           y == m.type
           q == response_queue[n]
           w == OnTheWay(n)
           r == [type |-> y, old |-> FALSE]
<1>0. TypeOK /\ n \in Address
  BY DEF TypeInv, OneCaller
<1>1. /\ serving \in Address /\ message_queue[serving] # << >>
      /\ [to |-> serving, msg |-> m] \in Job
      /\ AddResponse(serving, y) /\ AddToBuffer([to |-> serving, msg |-> m])
      /\ message_queue' = [message_queue EXCEPT ![serving] = Tail(@)]
      /\ serving # NoNode /\ UNCHANGED <<locals, pc, job>>
  BY SendStoredType DEF SendStored, Dequeue, sending
<1>2. message_queue \in [Address -> Seq(Message)]
  BY <1>0 DEF TypeOK, TableTypeOK
<1>3. y \in CallType \cup {ReplyType}
  <2>1. \A i \in 1..Len(message_queue[serving]) :
          message_queue[serving][i].type \in CallType \cup {ReplyType}
    BY <1>1 DEF SentTypes
  <2>2. message_queue[serving] \in Seq(Message)
    BY <1>1, <1>2
  <2> QED
    BY <1>1, <2>1, <2>2, QueueTypes
<1>4. y \in Type
  BY <1>3, TransmissionAssumption
<1>5. ~AnswerHeard(n) /\ ~AnswerHeard(n)' /\ FindsRequest(n)'
  BY <1>1 DEF AnswerHeard, Updating, FindsRequest, locals
<1>6. \A u \in Thread : /\ HasRequest(u, n)' <=> HasRequest(u, n)
                        /\ HasRequest(u, n) => job'[u] = job[u]
  BY <1>1 DEF HasRequest, Asks
<1>7. OnTheWay(n)' = IF n = serving THEN Append(w, y) ELSE w
  <2>1. [to |-> serving, msg |-> m].to = serving /\ [to |-> serving, msg |-> m].msg.type = y
    OBVIOUS
  <2> QED
    BY <1>0, <1>1, <2>1, AddToBufferOnTheWay
<1>8. /\ \A k \in Address \ {serving} : response_queue'[k] = response_queue[k]
      /\ Asks(y) => response_queue'[serving] = Append(response_queue[serving], r)
      /\ ~Asks(y) => response_queue'[serving] = response_queue[serving]
  <2> HIDE DEF y
  <2> QED
    BY <1>0, <1>1, <1>3, AddResponseSent
<1>9. ASSUME NEW u \in Thread, HasRequest(u, n)
      PROVE  /\ \A i \in 1..Len(message_queue'[n]) : ~Asks(message_queue'[n][i].type)
             /\ n = serving => ~Asks(y)
  <2>1. \A i \in 1..Len(message_queue[n]) : ~Asks(message_queue[n][i].type)
    BY <1>9 DEF Balanced, InHandIsLast
  <2>2. CASE n # serving
    BY <1>0, <1>1, <1>2, <2>1, <2>2
  <2>3. CASE n = serving
    <3>1. /\ message_queue'[n] = Tail(message_queue[n]) /\ message_queue[n] \in Seq(Message)
          /\ message_queue[n] # << >>
      BY <1>1, <1>2, <2>3
    <3> DEFINE R == {z \in Type : ~Asks(z)}
    <3>2. \A i \in 1..Len(message_queue[n]) : message_queue[n][i].type \in R
      <4>1. \A i \in 1..Len(message_queue[n]) : message_queue[n][i] \in Message
        BY <3>1
      <4> QED
        BY <2>1, <4>1 DEF Message
    <3> HIDE DEF R
    <3>3. Head(message_queue[n]).type \in R
          /\ \A i \in 1..Len(message_queue'[n]) : message_queue'[n][i].type \in R
      BY <3>1, <3>2, QueueTypes
    <3> QED
      BY <2>3, <3>3 DEF R
  <2> QED
    BY <2>2, <2>3
<1> HIDE DEF m
<1>10. CASE n # serving
  BY <1>0, <1>5, <1>6, <1>7, <1>8, <1>9, <1>10, BalancedSame
<1>11. CASE n = serving
  <2>1. q \in Seq(Response) /\ w \in Seq(Type) /\ Len(q) \in Nat
    <3>1. q \in Seq(Response)
      BY <1>0 DEF TypeOK, TableTypeOK
    <3>2. w \in Seq(Type)
      BY <1>0, OnTheWayType
    <3> QED
      BY <3>1, <3>2
  <2>2. Answered(n) = 0 /\ Answered(n)' = 0 /\ Unsent(n)' = Unsent(n)
    BY <1>0, <1>5, <1>6, AnsweredIs, UnsentIs
  <2>3. Books(q, w, 0, Len(q) - Unsent(n))
    BY <2>2 DEF Balanced, OnAccount
  <2>4. CASE Asks(y)
    <3>1. \A u \in Thread : ~HasRequest(u, n)
      BY <1>9, <1>11, <2>4
    <3>2. Unsent(n) = 0 /\ Unsent(n)' = 0
      BY <1>0, <2>2, <3>1, UnsentIs
    <3>3. response_queue'[n] = Append(q, r) /\ OnTheWay(n)' = Append(w, y)
      BY <1>7, <1>8, <1>11, <2>4
    <3> HIDE DEF q, w, y
    <3>4. r \in Response /\ r.type = y
      BY <1>4 DEF Response
    <3> HIDE DEF r
    <3>5. /\ Append(q, r) \in Seq(Response) /\ Len(Append(q, r)) = Len(q) + 1
          /\ Append(q, r)[Len(q) + 1] = r /\ Len(q) - 0 = Len(q)
          /\ \A i \in 1..Len(q) : Append(q, r)[i] = q[i]
      BY <2>1, <3>4
    <3>6. Books(Append(q, r), w, 0, Len(q))
      <4>1. /\ Len(q) <= Len(Append(q, r))
            /\ \A i \in 1..Len(q) : Append(q, r)[i].type = q[i].type
        BY <2>1, <3>5
      <4>2. Books(q, w, 0, Len(q))
        BY <2>3, <3>2, <3>5
      <4> QED
        BY <2>1, <3>5, <4>1, <4>2, BooksOther
    <3>7. Books(Append(q, r), Append(w, y), 0, Len(q) + 1)
      <4>1. Len(q) + 1 <= Len(Append(q, r)) /\ Append(q, r)[Len(q) + 1].type = y
        BY <2>1, <3>4, <3>5
      <4> QED
        BY <1>4, <2>1, <2>4, <3>5, <3>6, <4>1, BooksAsk
    <3>8. Books(response_queue'[n], OnTheWay(n)', Answered(n)',
                Len(response_queue'[n]) - Unsent(n)')
      <4>1. Len(response_queue'[n]) - Unsent(n)' = Len(q) + 1
        BY <2>1, <3>2, <3>3, <3>5
      <4> QED
        BY <2>2, <3>3, <3>7, <4>1
    <3>9. OnAccount(n)'
      BY <3>8 DEF OnAccount, Books, Asks
    <3>10. InHandIsLast(n)'
      BY <1>6, <3>1 DEF InHandIsLast
    <3> QED
      BY <1>5, <3>9, <3>10 DEF Balanced
  <2>5. CASE ~Asks(y)
    <3>1. response_queue'[n] = q /\ OnTheWay(n)' = Append(w, y)
      BY <1>7, <1>8, <1>11, <2>5
    <3> HIDE DEF y
    <3>2. Books(q, Append(w, y), 0, Len(q) - Unsent(n))
      BY <1>4, <2>1, <2>3, <2>5, BooksSilent
    <3>3. Books(response_queue'[n], OnTheWay(n)', Answered(n)',
                Len(response_queue'[n]) - Unsent(n)')
      BY <2>2, <3>1, <3>2
    <3>4. OnAccount(n)'
      BY <3>3 DEF OnAccount, Books, Asks
    <3>5. ASSUME NEW u \in Thread, HasRequest(u, n)'
          PROVE  /\ response_queue'[n] # << >>
                 /\ response_queue'[n][Len(response_queue'[n])].type = job'[u].msg.type
                 /\ \A i \in 1..Len(message_queue'[n]) : ~Asks(message_queue'[n][i].type)
      BY <1>6, <1>9, <3>1, <3>5 DEF Balanced, InHandIsLast
    <3>6. InHandIsLast(n)'
      BY <3>5 DEF InHandIsLast, Asks
    <3> QED
      BY <1>5, <3>4, <3>6 DEF Balanced
  <2> QED
    BY <2>4, <2>5
<1> QED
  BY <1>10, <1>11

\* The request at the head is the one answered, and the next is looked at.
LEMMA MatchBalanced ==
  ASSUME TypeInv, SentTypes, EventsAnswerNothing, Match, UNCHANGED <<pc, job, line>>,
         NEW n \in OneCaller, Balanced(n)
  PROVE  Balanced(n)'
<1> DEFINE q == response_queue[n]
           w == OnTheWay(n)
<1>0. TypeOK /\ n \in Address
  BY DEF TypeInv, OneCaller
<1>1. /\ node \in Address /\ response_queue[node] # << >>
      /\ response_queue' = [response_queue EXCEPT ![node] = Tail(@)]
      /\ at \in Nat \ {0} /\ at <= Len(HeadAnswers) /\ HeadAnswers[at] = got
      /\ serving' = node /\ Updating /\ UNCHANGED <<message_queue, node>>
  BY DEF Match, Matches, PopResponse, TypeInv, TableInv, LocalsOK, Updating
<1>2. OnTheWay(n)' = w
  BY DEF OnTheWay, line
<1>3. \A u \in Thread : /\ HasRequest(u, n)' <=> HasRequest(u, n)
                        /\ HasRequest(u, n) => job'[u] = job[u]
  BY DEF HasRequest, Asks
<1>4. ~AnswerHeard(n)' /\ FindsRequest(n)'
  <2>1. serving' # NoNode
    BY <1>1, AddressAssumption
  <2> QED
    BY <2>1 DEF AnswerHeard, Updating, FindsRequest
<1>5. q \in Seq(Response) /\ Len(q) \in Nat /\ response_queue \in [Address -> Seq(Response)]
  <2>1. response_queue \in [Address -> Seq(Response)]
    BY <1>0 DEF TypeOK, TableTypeOK
  <2>2. q \in Seq(Response)
    BY <1>0, <2>1
  <2> QED
    BY <2>1, <2>2
<1>6. w \in Seq(Type)
  BY <1>0, OnTheWayType
<1>7. CASE n # node
  <2>1. response_queue'[n] = response_queue[n]
    BY <1>0, <1>1, <1>5, <1>7
  <2>2. ~AnswerHeard(n)
    BY <1>7 DEF AnswerHeard
  <2>3. \A t \in Thread : HasRequest(t, n) =>
          \A i \in 1..Len(message_queue'[n]) : ~Asks(message_queue'[n][i].type)
    BY <1>1 DEF Balanced, InHandIsLast
  <2> QED
    BY <1>0, <1>2, <1>3, <1>4, <2>1, <2>2, <2>3, BalancedSame
<1>8. CASE n = node
  <2>1. got \notin {Occupancy, Stall}
    <3>1. Head(q).type \in CallType
      <4>1. \A i \in 1..Len(q) : q[i].type \in CallType
        BY <1>0 DEF SentTypes
      <4> QED
        BY <1>1, <1>5, <1>8, <4>1, QueueTypes
    <3>2. HeadAnswers = Answers[Head(q).type]
      BY <1>8 DEF HeadAnswers, HeadResponse
    <3>3. at \in 1..Len(HeadAnswers)
      <4>1. Answers[Head(q).type] \in Seq(Uplink)
        BY <3>1, TypeAssumption, TransmissionAssumption
      <4>2. Len(HeadAnswers) \in Nat
        BY <3>2, <4>1
      <4> QED
        BY <1>1, <4>2
    <3> QED
      BY <1>1, <3>1, <3>2, <3>3 DEF EventsAnswerNothing
  <2>2. AnswerHeard(n)
    BY <1>1, <1>8, <2>1 DEF AnswerHeard
  <2>3. Answered(n) = 1 /\ Answered(n)' = 0 /\ Unsent(n)' = Unsent(n)
    BY <1>0, <1>3, <1>4, <2>2, AnsweredIs, UnsentIs
  <2>4. Books(q, w, 1, Len(q) - Unsent(n))
    BY <2>3 DEF Balanced, OnAccount
  <2>5. response_queue'[n] = Tail(q) /\ q # << >>
    BY <1>0, <1>1, <1>5, <1>8
  <2>6. Unsent(n) \in {0, 1}
    BY <1>0, UnsentIs
  <2>7. 1 <= Len(q) - Unsent(n)
    BY <1>5, <1>6, <2>4, BooksOrder
  <2> HIDE DEF q, w
  <2>8. Len(Tail(q)) = Len(q) - 1 /\ \A i \in 1..(Len(q) - 1) : Tail(q)[i] = q[i + 1]
    BY <1>5, <2>5
  <2>9. Books(Tail(q), w, 0, (Len(q) - Unsent(n)) - 1)
    BY <1>5, <1>6, <2>4, BooksShift
  <2>10. OnAccount(n)'
    <3>1. Len(response_queue'[n]) - Unsent(n)' = (Len(q) - Unsent(n)) - 1
      BY <1>5, <2>3, <2>5, <2>6, <2>8
    <3>2. Books(response_queue'[n], OnTheWay(n)', Answered(n)',
                Len(response_queue'[n]) - Unsent(n)')
      BY <1>2, <2>3, <2>5, <2>9, <3>1
    <3> QED
      BY <3>2 DEF OnAccount, Books, Asks
  <2>11. ASSUME NEW u \in Thread, HasRequest(u, n)'
         PROVE  /\ response_queue'[n] # << >>
                /\ response_queue'[n][Len(response_queue'[n])].type = job'[u].msg.type
                /\ \A i \in 1..Len(message_queue'[n]) : ~Asks(message_queue'[n][i].type)
    <3>1. HasRequest(u, n) /\ Unsent(n) = 1 /\ job'[u] = job[u]
      BY <1>0, <1>3, <2>11, UnsentIs
    <3>2. /\ q[Len(q)].type = job[u].msg.type
          /\ \A i \in 1..Len(message_queue[n]) : ~Asks(message_queue[n][i].type)
      BY <3>1 DEF Balanced, InHandIsLast, q
    <3>3. Len(q) >= 2 /\ Len(q) - 1 \in 1..(Len(q) - 1) /\ (Len(q) - 1) + 1 = Len(q)
      BY <1>5, <2>7, <3>1
    <3>4. Tail(q)[Len(Tail(q))] = q[Len(q)] /\ Tail(q) # << >>
      <4>1. Tail(q)[Len(q) - 1] = q[(Len(q) - 1) + 1]
        BY <2>8, <3>3
      <4>2. Len(Tail(q)) # 0 /\ Len(<< >>) = 0
        BY <2>8, <3>3
      <4> QED
        BY <2>8, <3>3, <4>1, <4>2
    <3> QED
      BY <1>1, <2>5, <3>1, <3>2, <3>4
  <2>12. InHandIsLast(n)'
    BY <2>11 DEF InHandIsLast, Asks
  <2> QED
    BY <1>4, <2>10, <2>12 DEF Balanced
<1> QED
  BY <1>7, <1>8

\* The other turns of the loops of the table.
LEMMA SearchBalanced ==
  ASSUME TypeInv, UpdateStep, ~Match, NEW n \in OneCaller, Balanced(n)
  PROVE  Balanced(n)'
<1>0. TypeOK /\ n \in Address
  BY DEF TypeInv, OneCaller
<1>1. UNCHANGED <<response_queue, message_queue, pc, job, owed, buffer>>
  BY DEF UpdateStep, Skip, EndUpdate, ServeNextAffected, EndStallOff, table, sending, line
<1>2. OnTheWay(n)' = OnTheWay(n)
  BY <1>1 DEF OnTheWay
<1>3. \A u \in Thread : /\ HasRequest(u, n)' <=> HasRequest(u, n)
                        /\ HasRequest(u, n) => job'[u] = job[u]
  BY <1>1 DEF HasRequest, Asks
<1>4. (AnswerHeard(n)' <=> AnswerHeard(n)) /\ FindsRequest(n)'
  <2>1. CASE Skip
    <3>1. /\ at' = at + 1 /\ HeadAnswers[at] # got /\ UNCHANGED <<fn, node, got, serving>>
          /\ HeadAnswers' = HeadAnswers
      BY <1>1, <2>1 DEF Skip, Matches, HeadAnswers, HeadResponse
    <3>2. AnswerHeard(n)' <=> AnswerHeard(n)
      BY <3>1 DEF AnswerHeard, Updating
    <3>3. ASSUME AnswerHeard(n)
          PROVE  \E i \in 1..Len(HeadAnswers) : i >= at' /\ HeadAnswers[i] = got
      <4>1. PICK i \in 1..Len(HeadAnswers) : i >= at /\ HeadAnswers[i] = got
        BY <3>3 DEF Balanced, FindsRequest
      <4>2. i # at /\ at \in Nat
        BY <1>0, <3>1, <4>1 DEF TypeOK, TableTypeOK
      <4>3. i >= at'
        BY <3>1, <4>1, <4>2
      <4> QED
        BY <4>1, <4>3
    <3> QED
      BY <3>1, <3>2, <3>3 DEF FindsRequest
  <2>2. CASE EndUpdate
    <3>1. at > Len(HeadAnswers) /\ Updating /\ fn' = "none" /\ node \in Address
      BY <2>2 DEF EndUpdate, Return, TypeInv, TableInv, LocalsOK, Updating
    <3>2. ~AnswerHeard(n)
      <4>1. SUFFICES ASSUME AnswerHeard(n) PROVE FALSE
        OBVIOUS
      <4>2. PICK i \in 1..Len(HeadAnswers) : i >= at
        BY <4>1 DEF Balanced, FindsRequest
      <4>3. at \in Nat /\ i \in Int /\ i <= Len(HeadAnswers) /\ Len(HeadAnswers) \in Nat
        <5>1. Head(response_queue[n]).type \in Type
          <6>1. node = n /\ response_queue[n] # << >> /\ response_queue[n] \in Seq(Response)
            BY <1>0, <3>1, <4>1 DEF AnswerHeard, TypeInv, TableInv, LocalsOK, TypeOK, TableTypeOK
          <6>2. Head(response_queue[n]) \in Response
            BY <6>1
          <6> QED
            BY <6>2 DEF Response
        <5>2. HeadAnswers \in Seq(Uplink)
          BY <4>1, <5>1, TypeAssumption DEF HeadAnswers, HeadResponse, AnswerHeard
        <5>3. Len(HeadAnswers) \in Nat
          BY <5>2
        <5> QED
          BY <1>0, <4>2, <5>3 DEF TypeOK, TableTypeOK
      <4> QED
        BY <3>1, <4>2, <4>3
    <3> QED
      BY <3>1, <3>2 DEF AnswerHeard, Updating, FindsRequest
  <2>3. CASE ServeNextAffected \/ EndStallOff
    <3>1. fn = "update_stall" /\ fn' # "state_update"
      BY <2>3 DEF ServeNextAffected, EndStallOff, Releasing, Return
    <3> QED
      BY <3>1 DEF AnswerHeard, Updating, FindsRequest
  <2> QED
    BY <2>1, <2>2, <2>3 DEF UpdateStep
<1> QED
  BY <1>0, <1>1, <1>2, <1>3, <1>4, BalancedStill

LEMMA DropConcat ==
  ASSUME NEW S, NEW a \in Seq(S), NEW b \in Seq(S), NEW i \in 0..Len(a)
  PROVE  SubSeq(a, i + 1, Len(a)) \o b = SubSeq(a \o b, i + 1, Len(a \o b))
<1> DEFINE x == SubSeq(a, i + 1, Len(a))
           w == a \o b
           z == SubSeq(w, i + 1, Len(w))
<1>1. Len(a) \in Nat /\ Len(b) \in Nat /\ i \in 0..Len(a)
  OBVIOUS
<1>2. /\ w \in Seq(S) /\ Len(w) = Len(a) + Len(b)
      /\ \A l \in 1..(Len(a) + Len(b)) : w[l] = IF l <= Len(a) THEN a[l] ELSE b[l - Len(a)]
  BY ConcatProperties
<1>3. x \in Seq(S) /\ Len(x) = Len(a) - i /\ \A l \in 1..(Len(a) - i) : x[l] = a[l + i]
  <2>1. i + 1 \in 1..(Len(a) + 1) /\ Len(a) \in 0..Len(a)
    BY <1>1
  <2>2. /\ x \in Seq(S) /\ Len(x) = Len(a) - i
        /\ \A l \in 1..(Len(a) - i) : x[l] = a[i + 1 + l - 1]
    BY <1>1, <2>1
  <2>3. \A l \in 1..(Len(a) - i) : i + 1 + l - 1 = l + i
    BY <1>1
  <2> QED
    BY <2>2, <2>3
<1> HIDE DEF w
<1>4. z \in Seq(S) /\ Len(z) = Len(w) - i /\ \A l \in 1..(Len(w) - i) : z[l] = w[l + i]
  <2>1. i + 1 \in 1..(Len(w) + 1) /\ Len(w) \in 0..Len(w) /\ Len(w) \in Nat
    BY <1>1, <1>2
  <2>2. /\ z \in Seq(S) /\ Len(z) = Len(w) - i
        /\ \A l \in 1..(Len(w) - i) : z[l] = w[i + 1 + l - 1]
    BY <1>1, <1>2, <2>1
  <2>3. \A l \in 1..(Len(w) - i) : i + 1 + l - 1 = l + i
    BY <1>1, <2>1
  <2> QED
    BY <2>2, <2>3
<1> HIDE DEF x, z
<1>5. /\ x \o b \in Seq(S) /\ Len(x \o b) = Len(w) - i
      /\ \A l \in 1..(Len(w) - i) :
           (x \o b)[l] = IF l <= Len(a) - i THEN x[l] ELSE b[l - (Len(a) - i)]
  <2>1. /\ x \o b \in Seq(S) /\ Len(x \o b) = Len(x) + Len(b)
        /\ \A l \in 1..(Len(x) + Len(b)) :
             (x \o b)[l] = IF l <= Len(x) THEN x[l] ELSE b[l - Len(x)]
    BY <1>3, ConcatProperties
  <2>2. Len(x) + Len(b) = Len(w) - i
    BY <1>1, <1>2, <1>3
  <2> QED
    BY <1>3, <2>1, <2>2
<1>6. ASSUME NEW l \in 1..(Len(w) - i)
      PROVE  (x \o b)[l] = z[l]
  <2>1. l + i \in 1..(Len(a) + Len(b)) /\ Len(w) - i = Len(a) + Len(b) - i
    BY <1>1, <1>2
  <2>2. z[l] = IF l + i <= Len(a) THEN a[l + i] ELSE b[(l + i) - Len(a)]
    BY <1>2, <1>4, <2>1
  <2>3. CASE l <= Len(a) - i
    <3>1. l \in 1..(Len(a) - i) /\ l + i <= Len(a)
      BY <1>1, <2>1, <2>3
    <3> QED
      BY <1>3, <1>5, <2>2, <2>3, <3>1
  <2>4. CASE ~(l <= Len(a) - i)
    <3>1. ~(l + i <= Len(a)) /\ (l + i) - Len(a) = l - (Len(a) - i)
      BY <1>1, <2>1, <2>4
    <3> QED
      BY <1>5, <2>2, <2>4, <3>1
  <2> QED
    BY <2>3, <2>4
<1>7. x \o b = z
  BY <1>4, <1>5, <1>6, SeqEqual
<1> QED
  BY <1>7 DEF x, w, z

\* The answer of a node is an answer to the request at the head of its queue.
LEMMA HearAnswerBalanced ==
  ASSUME TypeInv, SentTypes, EventsAnswerNothing, NEW k \in Address, HearAnswer(k),
         NEW n \in OneCaller, Balanced(n)
  PROVE  Balanced(n)'
<1> DEFINE q == response_queue[n]
           w == OnTheWay(n)
<1>0. TypeOK /\ n \in Address
  BY DEF TypeInv, OneCaller
<1>1. PICK i \in 1..Len(owed[k]) :
        /\ MaxResponse[owed[k][i]] > 0
        /\ \A j \in 1..(i - 1) : MaxResponse[owed[k][j]] = 0
        /\ \E l \in 1..Len(Answers[owed[k][i]]) : Hear(k, Answers[owed[k][i]][l])
        /\ owed' = [owed EXCEPT ![k] = SubSeq(@, i + 1, Len(@))]
  BY DEF HearAnswer
<1>2. PICK l \in 1..Len(Answers[owed[k][i]]) : Hear(k, Answers[owed[k][i]][l])
  BY <1>1
<1> DEFINE u == Answers[owed[k][i]][l]
<1>3. /\ MutexFree
      /\ \/ BeginUpdate(k, u)
         \/ response_queue[k] = << >> /\ UNCHANGED locals
      /\ UNCHANGED <<response_queue, message_queue, pc, job, buffer>>
  BY <1>2 DEF Hear, Listening, BeginUpdate, sending, table
<1>4. ~AnswerHeard(n)
  BY <1>3 DEF AnswerHeard, Updating, MutexFree
<1>5. \A t \in Thread : /\ HasRequest(t, n)' <=> HasRequest(t, n)
                        /\ HasRequest(t, n) => job'[t] = job[t]
  BY <1>3 DEF HasRequest, Asks
<1>6. owed \in [Address -> Seq(Type)] /\ owed[n] \in Seq(Type)
  BY <1>0 DEF TypeOK
<1>7. CASE n # k
  <2>1. OnTheWay(n)' = OnTheWay(n)
    BY <1>0, <1>1, <1>3, <1>6, <1>7 DEF OnTheWay
  <2>2. ~AnswerHeard(n)'
    BY <1>3, <1>7 DEF AnswerHeard, Updating, MutexFree, BeginUpdate, locals
  <2>3. FindsRequest(n)'
    BY <2>2 DEF FindsRequest
  <2> QED
    BY <1>0, <1>3, <1>4, <1>5, <2>1, <2>2, <2>3, BalancedStill
<1>8. CASE n = k
  <2>1. q \in Seq(Response) /\ w \in Seq(Type) /\ Types(buffer[n]) \in Seq(Type) /\ Len(q) \in Nat
    <3>1. q \in Seq(Response)
      BY <1>0 DEF TypeOK, TableTypeOK
    <3>2. w \in Seq(Type) /\ Types(buffer[n]) \in Seq(Type)
      BY <1>0, OnTheWayType
    <3> QED
      BY <3>1, <3>2
  <2>2. Answered(n) = 0 /\ Unsent(n)' = Unsent(n) /\ Unsent(n) \in {0, 1}
    BY <1>0, <1>4, <1>5, AnsweredIs, UnsentIs
  <2>3. Books(q, w, 0, Len(q) - Unsent(n))
    BY <2>2 DEF Balanced, OnAccount
  <2>4. /\ Len(owed[n]) \in Nat /\ Len(owed[n]) <= Len(w) /\ Len(w) \in Nat
        /\ \A j \in 1..Len(owed[n]) : w[j] = owed[n][j]
    <3>1. PICK a \in Seq(Type), b \in Seq(Type) : a = owed[n] /\ b = Types(buffer[n])
      BY <1>6, <2>1
    <3>2. /\ Len(a \o b) = Len(a) + Len(b) /\ Len(a) \in Nat /\ Len(b) \in Nat
          /\ \A j \in 1..Len(a) : (a \o b)[j] = a[j]
      BY ConcatProperties
    <3>3. w = a \o b
      BY <3>1 DEF OnTheWay
    <3> HIDE DEF w
    <3>4. Len(w) = Len(a) + Len(b) /\ \A j \in 1..Len(a) : w[j] = a[j]
      BY <3>2, <3>3
    <3>5. Len(a) <= Len(w) /\ Len(w) \in Nat
      BY <3>2, <3>4
    <3> QED
      BY <3>1, <3>2, <3>4, <3>5
  <2>5. i \in 1..Len(w) /\ w[i] = owed[n][i] /\ Asks(w[i]) /\ \A j \in 1..(i - 1) : ~Asks(w[j])
    <3>1. i \in 1..Len(owed[n]) /\ i \in 1..Len(w)
      BY <1>1, <1>8, <2>4
    <3>2. \A j \in 1..(i - 1) : j \in 1..Len(owed[n])
      BY <2>4, <3>1
    <3>3. w[i] = owed[n][i]
      BY <2>4, <3>1
    <3>4. Asks(w[i])
      BY <1>1, <1>8, <3>3 DEF Asks
    <3>5. ASSUME NEW j \in 1..(i - 1)
          PROVE  ~Asks(w[j])
      <4>1. w[j] = owed[n][j] /\ MaxResponse[owed[n][j]] = 0
        BY <1>1, <1>8, <2>4, <3>2
      <4> QED
        BY <4>1 DEF Asks
    <3> QED
      BY <3>1, <3>3, <3>4, <3>5
  <2>6. OnTheWay(n)' = SubSeq(w, i + 1, Len(w))
    <3>1. owed'[n] = SubSeq(owed[n], i + 1, Len(owed[n])) /\ buffer'[n] = buffer[n]
      BY <1>0, <1>1, <1>3, <1>6, <1>8
    <3>2. i \in 0..Len(owed[n])
      BY <1>1, <1>8, <2>4
    <3>3. PICK a \in Seq(Type), b \in Seq(Type) : a = owed[n] /\ b = Types(buffer[n])
      BY <1>6, <2>1
    <3>4. SubSeq(a, i + 1, Len(a)) \o b = SubSeq(a \o b, i + 1, Len(a \o b))
      BY <3>2, <3>3, DropConcat
    <3>5. OnTheWay(n)' = SubSeq(a, i + 1, Len(a)) \o b
      BY <3>1, <3>3 DEF OnTheWay, Types
    <3> QED
      BY <3>3, <3>4, <3>5 DEF OnTheWay
  <2> HIDE DEF q, w, u
  <2>7. /\ Len(q) - Unsent(n) >= 1 /\ q[1].type = w[i]
        /\ Books(q, SubSeq(w, i + 1, Len(w)), 1, Len(q) - Unsent(n))
    BY <2>1, <2>3, <2>5, BooksTake
  <2>8. q # << >> /\ Head(q) = q[1] /\ 1 \in 1..Len(q)
    <3>1. Len(q) >= 1
      BY <2>1, <2>2, <2>7
    <3> QED
      BY <2>1, <3>1
  <2>9. u \notin {Occupancy, Stall}
    <3>1. w[i] \in CallType
      BY <1>0, <2>7, <2>8 DEF SentTypes, q
    <3>2. u = Answers[w[i]][l] /\ l \in 1..Len(Answers[w[i]])
      BY <1>2, <1>8, <2>5 DEF u
    <3> QED
      BY <3>1, <3>2 DEF EventsAnswerNothing
  <2>10. /\ fn' = "state_update" /\ node' = n /\ got' = u /\ at' = 1 /\ serving' = NoNode
         /\ response_queue' = response_queue
    <3>1. BeginUpdate(k, u)
      BY <1>3, <1>8, <2>8 DEF q
    <3>2. serving = NoNode
      BY <1>3 DEF TypeInv, TableInv, LocalsOK, MutexFree
    <3> QED
      BY <1>3, <1>8, <3>1, <3>2 DEF BeginUpdate
  <2>11. AnswerHeard(n)'
    BY <2>9, <2>10 DEF AnswerHeard, Updating
  <2>12. FindsRequest(n)'
    <3>1. HeadAnswers' = Answers[Head(q).type]
      BY <2>10 DEF HeadAnswers, HeadResponse, q
    <3>2. HeadAnswers' = Answers[w[i]]
      BY <2>7, <2>8, <3>1
    <3>3. u = Answers[w[i]][l] /\ l \in 1..Len(Answers[w[i]])
      BY <1>2, <1>8, <2>5 DEF u
    <3>4. l >= at'
      <4>1. l \in 1..Len(Answers[w[i]]) /\ at' = 1
        BY <2>10, <3>3
      <4>2. Len(Answers[w[i]]) \in Nat
        BY <2>1, <2>5, TypeAssumption, SMTT(20)
      <4> QED
        BY <4>1, <4>2
    <3> QED
      BY <2>10, <3>2, <3>3, <3>4 DEF FindsRequest
  <2>13. OnAccount(n)'
    <3>1. Answered(n)' = 1
      BY <1>0, <2>11, AnsweredIs
    <3>2. Books(response_queue'[n], OnTheWay(n)', Answered(n)',
                Len(response_queue'[n]) - Unsent(n)')
      BY <2>2, <2>6, <2>7, <2>10, <3>1 DEF q
    <3> QED
      BY <3>2 DEF OnAccount, Books, Asks
  <2>14. InHandIsLast(n)'
    BY <1>3, <1>5 DEF Balanced, InHandIsLast, Asks
  <2> QED
    BY <2>12, <2>13, <2>14 DEF Balanced
<1> QED
  BY <1>7, <1>8

\* What a node sends of its own accord is not taken for an answer.
LEMMA HearEventBalanced ==
  ASSUME TypeInv, NEW k \in Address, HearOccupancy(k) \/ HearStall(k) \/ HearReady(k),
         NEW n \in OneCaller, Balanced(n)
  PROVE  Balanced(n)'
<1>0. TypeOK /\ n \in Address
  BY DEF TypeInv, OneCaller
<1>1. PICK u \in {Occupancy, Stall} : Hear(k, u) /\ UNCHANGED owed
  BY DEF HearOccupancy, HearStall, HearReady, HearEvent
<1>2. /\ MutexFree
      /\ \/ BeginUpdate(k, u)
         \/ UNCHANGED locals
      /\ UNCHANGED <<response_queue, message_queue, pc, job, buffer>>
  BY <1>1 DEF Hear, Listening, BeginUpdate, sending, table
<1>3. ~AnswerHeard(n)
  BY <1>2 DEF AnswerHeard, Updating, MutexFree
<1>4. ~AnswerHeard(n)'
  <2>1. CASE BeginUpdate(k, u)
    BY <2>1 DEF BeginUpdate, AnswerHeard
  <2>2. CASE UNCHANGED locals
    BY <1>3, <2>2 DEF AnswerHeard, Updating, locals
  <2> QED
    BY <1>2, <2>1, <2>2
<1>5. FindsRequest(n)'
  BY <1>4 DEF FindsRequest
<1>6. \A t \in Thread : /\ HasRequest(t, n)' <=> HasRequest(t, n)
                        /\ HasRequest(t, n) => job'[t] = job[t]
  BY <1>2 DEF HasRequest, Asks
<1>7. OnTheWay(n)' = OnTheWay(n)
  BY <1>1, <1>2 DEF OnTheWay
<1> QED
  BY <1>0, <1>2, <1>3, <1>4, <1>5, <1>6, <1>7, BalancedStill

LEMMA OtherBalanced ==
  ASSUME TypeInv,
         \/ EndSendStored \/ HandleStall \/ HandleOther \/ AutoFlush \/ FlushReply
         \/ UNCHANGED vars,
         NEW n \in OneCaller, Balanced(n)
  PROVE  Balanced(n)'
<1>0. TypeOK /\ n \in Address
  BY DEF TypeInv, OneCaller
<1>1. UNCHANGED job /\ \A t \in Thread : \/ pc'[t] = pc[t]
                                          \/ {pc[t], pc'[t]} \subseteq {"flush", "idle"}
  BY <1>0, OtherSteps
<1>2. UNCHANGED <<response_queue, message_queue>>
  BY DEF EndSendStored, EndServing, HandleStall, HandleOther, StallOn, StallOff,
         AutoFlush, FlushReply, table, vars
<1>3. OnTheWay(n)' = OnTheWay(n)
  <2>1. Flush \/ UNCHANGED line
    BY DEF EndSendStored, HandleStall, HandleOther, AutoFlush, FlushReply, vars
  <2>2. CASE UNCHANGED line
    BY <2>2 DEF OnTheWay, line
  <2> QED
    BY <1>0, <2>1, <2>2, FlushOnTheWay
<1>4. \A t \in Thread : /\ HasRequest(t, n)' <=> HasRequest(t, n)
                        /\ HasRequest(t, n) => job'[t] = job[t]
  <2> TAKE t \in Thread
  <2>1. pc'[t] = "accepted" <=> pc[t] = "accepted"
    <3>1. CASE pc'[t] = pc[t]
      BY <3>1
    <3>2. CASE {pc[t], pc'[t]} \subseteq {"flush", "idle"}
      BY <3>2
    <3> QED
      BY <1>1, <3>1, <3>2
  <2> QED
    BY <1>1, <2>1 DEF HasRequest, Asks
<1>5. (AnswerHeard(n)' <=> AnswerHeard(n)) /\ FindsRequest(n)'
  <2>1. CASE EndSendStored
    <3>1. serving # NoNode /\ fn' \in {"none", fn} /\ (fn = "state_update" => fn' = "none")
      BY <2>1 DEF EndSendStored, EndServing, Return
    <3> QED
      BY <3>1 DEF AnswerHeard, Updating, FindsRequest
  <2>2. CASE HandleStall
    <3>1. MutexFree /\ fn' # "state_update"
      BY <2>2 DEF HandleStall, StallOn, StallOff, MutexFree, locals
    <3> QED
      BY <3>1 DEF AnswerHeard, Updating, FindsRequest, MutexFree
  <2>3. CASE HandleOther \/ AutoFlush \/ FlushReply \/ UNCHANGED vars
    <3>1. UNCHANGED locals
      BY <2>3 DEF HandleOther, AutoFlush, FlushReply, vars
    <3> QED
      BY <1>0, <1>2, <3>1, SearchStill DEF Balanced
  <2> QED
    BY <2>1, <2>2, <2>3
<1> QED
  BY <1>0, <1>1, <1>2, <1>3, <1>4, <1>5, BalancedStill

LEMMA InitBalanced ==
  ASSUME Init, NEW n \in Address
  PROVE  Balanced(n)
<1>1. /\ response_queue[n] = << >> /\ owed[n] = << >> /\ buffer[n] = << >>
      /\ \A t \in Thread : pc[t] = "idle"
      /\ fn = "none"
  BY DEF Init, TableInit, LocalsInit, NoMessages
<1>2. ~AnswerHeard(n) /\ \A t \in Thread : ~HasRequest(t, n)
  BY <1>1 DEF AnswerHeard, Updating, HasRequest
<1>3. Answered(n) = 0 /\ Unsent(n) = 0
  BY <1>2 DEF Answered, Unsent
<1>4. OnTheWay(n) = << >>
  <2>1. << >> \in Seq(Message) /\ Len(<< >>) = 0 /\ << >> \in Seq(Type)
    OBVIOUS
  <2>2. Types(<< >>) \in Seq(Type) /\ Len(Types(<< >>)) = 0
    BY <2>1, TypesAre
  <2>3. Types(<< >>) = << >>
    BY <2>2
  <2>4. << >> \o << >> = << >>
    BY <2>1, ConcatEmptySeq
  <2> QED
    BY <1>1, <2>3, <2>4 DEF OnTheWay
<1>5. Len(response_queue[n]) - Unsent(n) = 0
  BY <1>1, <1>3
<1>6. Books(response_queue[n], OnTheWay(n), Answered(n), Len(response_queue[n]) - Unsent(n))
  BY <1>1, <1>3, <1>4, <1>5, BooksNothing
<1> QED
  BY <1>2, <1>6 DEF Balanced, OnAccount, InHandIsLast, FindsRequest

LEMMA BalancedStep ==
  ASSUME TypeInv, SentTypes, ReplyUnanswered, EventsAnswerNothing, [Next]_vars,
         NEW n \in OneCaller, Balanced(n)
  PROVE  Balanced(n)'
<1>0. TypeOK /\ n \in Address
  BY DEF TypeInv, OneCaller
<1>1. ASSUME NEW t \in Caller, NEW k \in Address, NEW y \in CallType, Call(t, k, y)
      PROVE  Balanced(n)'
  <2>1. t \in Thread /\ TakeNumber(t, k, y)
    BY <1>1 DEF Call, Thread
  <2> QED
    BY <1>0, <2>1, TakeNumberBalanced
<1>2. CASE Reply
  <2>1. /\ Receiver \in Thread /\ heard[1] \in Address
        /\ TakeNumber(Receiver, heard[1], ReplyType)
    BY <1>2 DEF Reply, Updated, Thread
  <2> QED
    BY <1>0, <2>1, TakeNumberBalanced
<1>3. ASSUME NEW t \in Thread, TrySend(t)
      PROVE  Balanced(n)'
  <2>1. /\ pc[t] = "numbered" /\ UNCHANGED <<job, line>>
        /\ \/ SendNow(job[t].to, job[t].msg) /\ GoTo(t, "accepted")
           \/ Store(job[t].to, job[t].msg) /\ GoTo(t, AfterSend(t))
    BY <1>3 DEF TrySend
  <2> QED
    BY <2>1, SendNowBalanced, StoreBalanced
<1>4. CASE UpdateStep
  <2>1. UNCHANGED <<pc, job, line>>
    BY <1>4 DEF UpdateStep, sending
  <2> QED
    BY <1>4, <2>1, MatchBalanced, SearchBalanced
<1> QED
  BY <1>1, <1>2, <1>3, <1>4, PutIntoBufferBalanced, SendStoredBalanced, HearAnswerBalanced,
     HearEventBalanced, OtherBalanced DEF Next, Handle

\* What n has to give is a part of what the table has booked for it.
LEMMA BalancedBound ==
  ASSUME TypeInv, NEW n \in Address, Balanced(n)
  PROVE  \E due \in [0..Len(owed[n]) -> 0..response_bytes[n]] :
           /\ due[0] = 0
           /\ \A i \in 1..Len(owed[n]) : due[i] = due[i - 1] + MaxResponse[owed[n][i]]
<1>1. response_queue[n] \in Seq(Response) /\ response_bytes[n] \in 0..response_limit
  BY DEF TypeInv, TypeOK, TableTypeOK
<1>2. response_bytes[n] \in Nat
  BY <1>1, TypeAssumption
<1>3. Totals(response_queue[n], response_bytes[n])
  BY DEF TypeInv, TableInv, BudgetExact
<1>4. owed[n] \in Seq(Type) /\ Types(buffer[n]) \in Seq(Type)
  BY OnTheWayType DEF TypeInv
<1>5. Books(response_queue[n], owed[n] \o Types(buffer[n]), Answered(n),
            Len(response_queue[n]) - Unsent(n))
  BY DEF Balanced, OnAccount, OnTheWay
<1> QED
  BY <1>1, <1>2, <1>3, <1>4, <1>5, BooksBound

\* The answers the nodes of N have to give are within their accounts.
WithinAccount(N) ==
  \A n \in N :
    \E due \in [0..Len(owed[n]) -> 0..response_bytes[n]] :
      /\ due[0] = 0
      /\ \A i \in 1..Len(owed[n]) : due[i] = due[i - 1] + MaxResponse[owed[n][i]]

(* Of a node that one caller at most sends to, never more is asked than the *)
(* table has booked: the answers it has to give for what it has got are     *)
(* within response_bytes, and so within response_limit.  It takes that what *)
(* the node sends unasked is not taken for an answer, and that the mirror   *)
(* of the receiver, the second sender to it, has none.                      *)
THEOREM AccountCovers ==
  ASSUME ReplyUnanswered, EventsAnswerNothing
  PROVE  Spec => []WithinAccount(OneCaller)
<1>0. OneCaller \subseteq Address
  BY DEF OneCaller
<1>1. Init => TypeInv /\ BookInv
  BY <1>0, InitType, SentInit, InitBalanced DEF BookInv
<1>2. TypeInv /\ BookInv /\ [Next]_vars => (TypeInv /\ BookInv)'
  <2> SUFFICES ASSUME TypeInv, BookInv, [Next]_vars PROVE (TypeInv /\ BookInv)'
    OBVIOUS
  <2>1. TypeInv' /\ SentTypes'
    BY TypeStep, SentStep DEF BookInv
  <2>2. ASSUME NEW n \in OneCaller
        PROVE  Balanced(n)'
    BY BalancedStep DEF BookInv
  <2>3. (\A n \in OneCaller : Balanced(n))'
    BY <2>2
  <2> QED
    BY <2>1, <2>3 DEF BookInv
<1>3. TypeInv /\ BookInv => WithinAccount(OneCaller)
  <2> SUFFICES ASSUME TypeInv, BookInv PROVE WithinAccount(OneCaller)
    OBVIOUS
  <2>1. ASSUME NEW n \in OneCaller
        PROVE  \E due \in [0..Len(owed[n]) -> 0..response_bytes[n]] :
                 /\ due[0] = 0
                 /\ \A i \in 1..Len(owed[n]) : due[i] = due[i - 1] + MaxResponse[owed[n][i]]
    <3>1. n \in Address /\ Balanced(n)
      BY <1>0 DEF BookInv
    <3> QED
      BY <3>1, BalancedBound
  <2> QED
    BY <2>1 DEF WithinAccount
<1> QED
  BY <1>1, <1>2, <1>3, PTL DEF Spec

(* If every node has one caller at most, NotOverloaded holds throughout.    *)
THEOREM NodesAreNotOverloaded ==
  ASSUME ReplyUnanswered, EventsAnswerNothing, OneCaller = Address
  PROVE  Spec => []NotOverloaded
<1>1. WithinAccount(OneCaller) => NotOverloaded
  BY DEF WithinAccount, NotOverloaded
<1> QED
  BY <1>1, AccountCovers, PTL
=============================================================================

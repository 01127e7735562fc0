--------------------------- MODULE NodeStatesProofs --------------------------
(****************************************************************************)
(* Proofs about NodeStates, for every set of addresses, every table of      *)
(* answers and every response_limit: the types and numbers, then the        *)
(* messages the table holds back: what a stall stops, how a stored message  *)
(* can be left without an event that tries it, and what holds as long as    *)
(* the nodes answer in time.                                                *)
(****************************************************************************)
EXTENDS NodeStates, NodeTableProofs

(* The strengthening that makes TypeOK inductive: the table keeps its own   *)
(* invariant.                                                               *)
Inv == TypeOK /\ LocalsOK /\ BudgetExact

LEMMA InvIsTable ==
  Inv <=> /\ TableInv
          /\ expects \in [Address -> Seqnum] /\ owed \in [Address -> Seq(Type)]
BY DEF Inv, TypeOK, TableInv, LocalsOK, MutexFree

----------------------------------------------------------------------------
LEMMA ArriveType ==
  ASSUME TypeOK, NEW n \in Address, NEW m \in Message, Arrive(n, m)
  PROVE  expects' \in [Address -> Seqnum] /\ owed' \in [Address -> Seq(Type)]
<1>1. m.type \in Type /\ NextSeqnum(m.seq) \in Seqnum
  BY NextSeqnumType DEF Message
<1> QED
  BY <1>1 DEF TypeOK, Arrive

LEMMA NumberedType ==
  ASSUME TypeOK, NEW n \in Address, NEW t \in Type
  PROVE  Numbered(n, t) \in Message /\ Numbered(n, t).type = t
BY DEF TypeOK, TableTypeOK, Numbered, Message

(* Init establishes the invariant.                                          *)
LEMMA InitInv == Init => Inv
<1> SUFFICES ASSUME Init PROVE Inv
  OBVIOUS
<1>1. TableInv
  BY InitTable DEF Init
<1>2. expects \in [Address -> Seqnum] /\ owed \in [Address -> Seq(Type)]
  BY SeqnumAssumption DEF Init, Seqnum
<1> QED
  BY <1>1, <1>2, InvIsTable

\* A step keeps the invariant if the table and the bus keep theirs.
LEMMA InvAfter ==
  ASSUME TableInv', expects' \in [Address -> Seqnum], owed' \in [Address -> Seq(Type)]
  PROVE  Inv'
BY DEF Inv, TypeOK, TableInv, LocalsOK, MutexFree

LEMMA SendInv ==
  ASSUME Inv, NEW n \in Address, NEW t \in Type, SendAtOnce(n, t) \/ SendLater(n, t)
  PROVE  Inv'
<1> DEFINE m == Numbered(n, t)
<1>0. TypeOK /\ TableInv
  BY InvIsTable DEF Inv
<1>1. m \in Message
  BY <1>0, NumberedType
<1>2. send_seqnum' \in [Address -> Seqnum]
  BY <1>0, TakeSeqnumType DEF SendAtOnce, SendLater, TypeOK
<1>3. expects' \in [Address -> Seqnum] /\ owed' \in [Address -> Seq(Type)]
  BY <1>0, <1>1, ArriveType DEF SendAtOnce, SendLater, TypeOK, bus
<1>4. TableInv'
  BY <1>0, <1>1, <1>2, SendNowTable, StoreTable DEF SendAtOnce, SendLater
<1> QED
  BY <1>3, <1>4, InvAfter

LEMMA SendStoredInv ==
  ASSUME Inv, SendStored
  PROVE  Inv'
<1>0. TypeOK /\ TableInv
  BY InvIsTable DEF Inv
<1>1. /\ TableInv'
      /\ serving \in Address /\ Head(message_queue[serving]) \in Message
  BY <1>0, DequeueTable DEF SendStored
<1>2. expects' \in [Address -> Seqnum] /\ owed' \in [Address -> Seq(Type)]
  BY <1>0, <1>1, ArriveType DEF SendStored
<1> QED
  BY <1>1, <1>2, InvAfter

LEMMA StepInv ==
  ASSUME Inv, Step
  PROVE  Inv'
<1>0. TypeOK /\ TableInv /\ UNCHANGED bus
  BY InvIsTable DEF Inv, Step
<1>1. TableInv'
  BY <1>0, MatchTable, ExpireTable, EndServingTable, ServeNextAffectedTable, StillTable
     DEF Step
<1> QED
  BY <1>0, <1>1, InvAfter DEF TypeOK, bus

(* What the bus does: answers, faults and stalls, and the reset.            *)
LEMMA HearTable ==
  ASSUME TableInv, NEW n \in Address, NEW u \in Uplink, Hear(n, u)
  PROVE  TableInv'
BY StillTable DEF Hear

LEMMA AnswerInv ==
  ASSUME Inv, NEW n \in Address, Answer(n) \/ LoseAnswer(n)
  PROVE  Inv'
<1>0. TypeOK /\ TableInv
  BY InvIsTable DEF Inv
<1>1. /\ owed[n] # << >> /\ owed' = [owed EXCEPT ![n] = Tail(@)]
      /\ expects' = expects
  BY DEF Answer, LoseAnswer
<1>2. owed[n] \in Seq(Type)
  BY <1>0 DEF TypeOK
<1>3. Head(owed[n]) \in Type /\ Tail(owed[n]) \in Seq(Type)
  BY <1>1, <1>2
<1>4. expects' \in [Address -> Seqnum] /\ owed' \in [Address -> Seq(Type)]
  BY <1>0, <1>1, <1>3 DEF TypeOK
<1>5. TableInv'
  <2>1. CASE Answer(n)
    <3>1. PICK i \in 1..Len(Answers[Head(owed[n])]) : Hear(n, Answers[Head(owed[n])][i])
      BY <2>1 DEF Answer
    <3>2. Answers[Head(owed[n])] \in Seq(Uplink)
      BY <1>3, TypeAssumption
    <3>3. Answers[Head(owed[n])][i] \in Uplink
      BY <3>2
    <3> QED
      BY <1>0, <3>1, <3>3, HearTable
  <2>2. CASE LoseAnswer(n)
    BY <1>0, <2>2, StillTable DEF LoseAnswer
  <2> QED
    BY <2>1, <2>2
<1> QED
  BY <1>4, <1>5, InvAfter

LEMMA BusInv ==
  ASSUME Inv, NEW n \in Address,
         \/ Busy(n) \/ Ready(n) \/ TimePasses(n)
         \/ \E u \in Uplink : Unasked(n, u)
  PROVE  Inv'
<1>0. TypeOK /\ TableInv
  BY InvIsTable DEF Inv
<1>1. TableInv' /\ UNCHANGED bus
  <2>1. ASSUME NEW u \in Uplink, Unasked(n, u)
        PROVE  TableInv' /\ UNCHANGED bus
    BY <1>0, <2>1, StillTable DEF Unasked
  <2>2. CASE TimePasses(n)
    BY <1>0, <2>2, AgeTable DEF TimePasses
  <2>3. CASE Busy(n) \/ Ready(n)
    BY <1>0, <2>3, StillTable DEF Busy, Ready
  <2> QED
    BY <2>1, <2>2, <2>3
<1> QED
  BY <1>0, <1>1, InvAfter DEF TypeOK, bus

LEMMA SysResetInv ==
  ASSUME Inv, SysReset
  PROVE  Inv'
<1>1. TableInv'
  BY InvIsTable, ResetTable DEF SysReset
<1>2. expects' \in [Address -> Seqnum] /\ owed' \in [Address -> Seq(Type)]
  BY SeqnumAssumption DEF SysReset, Seqnum
<1> QED
  BY <1>1, <1>2, InvAfter

LEMMA NextInv == Inv /\ [Next]_vars => Inv'
<1> SUFFICES ASSUME Inv, [Next]_vars
             PROVE  Inv'
  OBVIOUS
<1>1. CASE UNCHANGED vars
  <2>1. TableInv /\ TypeOK /\ UNCHANGED <<table, locals>> /\ UNCHANGED bus
    BY <1>1, InvIsTable DEF vars, Inv
  <2>2. TableInv'
    BY <2>1, StillTable
  <2> QED
    BY <2>1, <2>2, InvAfter DEF TypeOK, bus
<1> QED
  BY <1>1, SendInv, SendStoredInv, StepInv, AnswerInv, BusInv, SysResetInv DEF Next, Send

(* Every variable keeps its type: in particular no sequence of answers,     *)
(* expiries and dequeued messages drives current_response_bytes below 0 or  *)
(* above response_limit.                                                    *)
THEOREM TypeCorrect == Spec => []TypeOK
<1>1. Inv => TypeOK
  BY DEF Inv
<1> QED
  BY InitInv, NextInv, <1>1, PTL DEF Spec

(* current_response_bytes is the sum of the awaited answers.                *)
THEOREM BudgetIsExact == Spec => []BudgetExact
<1>1. Inv => BudgetExact
  BY DEF Inv
<1> QED
  BY InitInv, NextInv, <1>1, PTL DEF Spec

----------------------------------------------------------------------------
LEMMA ContinuesAppend ==
  ASSUME NEW q \in Seq(Message), NEW first, NEW m \in Message,
         Continues(q, first, m.seq)
  PROVE  Continues(Append(q, m), first, NextSeqnum(m.seq))
<1> DEFINE Q == Append(q, m)
           l == Len(q)
<1>1. l \in Nat /\ Len(Q) = l + 1 /\ Q[l + 1] = m /\ Q # << >>
  OBVIOUS
<1>2. \A i \in 1..l : Q[i] = q[i]
  OBVIOUS
<1>3. q = << >> <=> l = 0
  OBVIOUS
<1>4. ASSUME NEW i \in 2..(l + 1)
      PROVE  Q[i].seq = NextSeqnum(Q[i - 1].seq)
  <2>1. CASE i = l + 1
    <3>1. Q[i] = m /\ Q[i - 1] = q[l] /\ q # << >>
      BY <2>1, <1>1, <1>2, <1>3
    <3> QED
      BY <3>1 DEF Continues
  <2>2. CASE i # l + 1
    <3>1. i \in 2..l /\ i - 1 \in 1..l /\ i \in 1..l
      BY <2>2, <1>1
    <3> QED
      BY <3>1, <1>2 DEF Continues
  <2> QED
    BY <2>1, <2>2
<1>5. Q[1].seq = first
  <2>1. CASE l = 0
    BY <2>1, <1>1, <1>3 DEF Continues
  <2>2. CASE l # 0
    <3>1. 1 \in 1..l /\ q # << >>
      BY <2>2, <1>1, <1>3
    <3> QED
      BY <3>1, <1>2 DEF Continues
  <2> QED
    BY <2>1, <2>2
<1> HIDE DEF Q, l
<1> QED
  BY <1>1, <1>4, <1>5 DEF Continues, Q

LEMMA ContinuesTail ==
  ASSUME NEW q \in Seq(Message), NEW first, NEW next, Continues(q, first, next),
         q # << >>
  PROVE  Continues(Tail(q), NextSeqnum(Head(q).seq), next)
<1> DEFINE Q == Tail(q)
           l == Len(q)
<1>1. l \in Nat \ {0} /\ Len(Q) = l - 1 /\ Head(q) = q[1]
  OBVIOUS
<1>2. \A i \in 1..(l - 1) : Q[i] = q[i + 1]
  OBVIOUS
<1>3. Q = << >> <=> l = 1
  <2>1. Q \in Seq(Message)
    OBVIOUS
  <2>2. Q = << >> <=> Len(Q) = 0
    BY <2>1, EmptyIsLenZero
  <2> QED
    BY <2>2, <1>1
<1>4. /\ \A i \in 2..l : q[i].seq = NextSeqnum(q[i - 1].seq)
      /\ next = NextSeqnum(q[l].seq)
  BY DEF Continues
<1> HIDE DEF Q, l
<1>5. ASSUME NEW i \in 2..(l - 1)
      PROVE  Q[i].seq = NextSeqnum(Q[i - 1].seq)
  <2>1. /\ i \in 1..(l - 1) /\ i - 1 \in 1..(l - 1) /\ i + 1 \in 2..l
        /\ (i - 1) + 1 = i /\ (i + 1) - 1 = i
    BY <1>1
  <2>2. Q[i] = q[i + 1] /\ Q[i - 1] = q[i]
    BY <2>1, <1>2
  <2>3. q[i + 1].seq = NextSeqnum(q[i].seq)
    BY <2>1, <1>4
  <2> QED
    BY <2>2, <2>3
<1>6. Q # << >> => Q[1].seq = NextSeqnum(q[1].seq)
  <2> SUFFICES ASSUME Q # << >>
               PROVE  Q[1].seq = NextSeqnum(q[1].seq)
    OBVIOUS
  <2>1. 1 \in 1..(l - 1) /\ 2 \in 2..l
    BY <1>1, <1>3
  <2>2. Q[1] = q[2] /\ q[2].seq = NextSeqnum(q[1].seq)
    BY <2>1, <1>2, <1>4
  <2> QED
    BY <2>2
<1>7. next = IF Q = << >> THEN NextSeqnum(q[1].seq) ELSE NextSeqnum(Q[Len(Q)].seq)
  <2>1. CASE l = 1
    BY <2>1, <1>3, <1>4
  <2>2. CASE l # 1
    <3>1. l - 1 \in 1..(l - 1) /\ (l - 1) + 1 = l
      BY <2>2, <1>1
    <3>2. Q[Len(Q)] = q[l]
      BY <3>1, <1>1, <1>2
    <3> QED
      BY <2>2, <3>2, <1>3, <1>4
  <2> QED
    BY <2>1, <2>2
<1> QED
  BY <1>1, <1>5, <1>6, <1>7 DEF Continues, Q

LEMMA ConsecutiveStep ==
  ASSUME Inv, Consecutive, [Next]_vars
  PROVE  Consecutive'
<1>0. TypeOK
  BY DEF Inv
<1>q. \A n \in Address : message_queue[n] \in Seq(Message)
  BY <1>0 DEF TypeOK, TableTypeOK
<1>1. ASSUME NEW n \in Address, NEW t \in Type, SendAtOnce(n, t)
      PROVE  Consecutive'
  <2>1. /\ message_queue' = message_queue /\ message_queue[n] = << >>
        /\ send_seqnum' = [send_seqnum EXCEPT ![n] = NextSeqnum(send_seqnum[n])]
        /\ expects' = [expects EXCEPT ![n] = NextSeqnum(send_seqnum[n])]
    BY <1>1 DEF SendAtOnce, SendNow, TakeSeqnum, Arrive, Numbered
  <2>2. Continues(message_queue'[n], expects'[n], send_seqnum'[n])
    <3>1. Len(<< >>) = 0 /\ 2..0 = {}
      OBVIOUS
    <3>2. expects'[n] = send_seqnum'[n]
      BY <1>0, <2>1 DEF TypeOK, TableTypeOK
    <3> QED
      BY <2>1, <3>1, <3>2 DEF Continues
  <2>3. \A k \in Address : k # n => /\ expects'[k] = expects[k]
                                  /\ send_seqnum'[k] = send_seqnum[k]
    BY <1>0, <2>1 DEF TypeOK, TableTypeOK
  <2> QED
    BY <2>1, <2>2, <2>3 DEF Consecutive
<1>2. ASSUME NEW n \in Address, NEW t \in Type, SendLater(n, t)
      PROVE  Consecutive'
  <2> DEFINE m == Numbered(n, t)
  <2>1. /\ message_queue' = [message_queue EXCEPT ![n] = Append(@, m)]
        /\ send_seqnum' = [send_seqnum EXCEPT ![n] = NextSeqnum(@)]
        /\ expects' = expects
    BY <1>2 DEF SendLater, Store, TakeSeqnum, bus
  <2>2. m \in Message /\ m.seq = send_seqnum[n]
    BY <1>0, NumberedType DEF Numbered
  <2>3. Continues(Append(message_queue[n], m), expects[n], NextSeqnum(m.seq))
    BY <1>q, <2>2, ContinuesAppend DEF Consecutive
  <2>4. Continues(message_queue'[n], expects'[n], send_seqnum'[n])
    BY <1>0, <2>1, <2>2, <2>3 DEF TypeOK, TableTypeOK
  <2>5. \A k \in Address : k # n => /\ message_queue'[k] = message_queue[k]
                                  /\ send_seqnum'[k] = send_seqnum[k]
    BY <1>0, <2>1 DEF TypeOK, TableTypeOK
  <2> QED
    BY <2>1, <2>4, <2>5 DEF Consecutive
<1>3. CASE SendStored
  <2> DEFINE q == message_queue[serving]
  <2>1. /\ serving \in Address /\ q # << >>
        /\ message_queue' = [message_queue EXCEPT ![serving] = Tail(@)]
        /\ expects' = [expects EXCEPT ![serving] = NextSeqnum(Head(q).seq)]
        /\ send_seqnum' = send_seqnum
    BY <1>0, <1>3 DEF SendStored, Dequeue, CanDequeue, Arrive, TypeOK, TableTypeOK
  <2>2. Continues(Tail(q), NextSeqnum(Head(q).seq), send_seqnum[serving])
    BY <1>q, <2>1, ContinuesTail DEF Consecutive
  <2>3. Continues(message_queue'[serving], expects'[serving], send_seqnum'[serving])
    BY <1>0, <2>1, <2>2 DEF TypeOK, TableTypeOK
  <2>4. \A k \in Address : k # serving => /\ message_queue'[k] = message_queue[k]
                                        /\ expects'[k] = expects[k]
    BY <1>0, <2>1 DEF TypeOK, TableTypeOK
  <2> QED
    BY <2>1, <2>3, <2>4 DEF Consecutive
<1>4. CASE SysReset
  <2>1. \A n \in Address : /\ message_queue'[n] = << >>
                          /\ expects'[n] = 1 /\ send_seqnum'[n] = 1
    BY <1>4 DEF SysReset, Reset
  <2>2. Len(<< >>) = 0 /\ 2..0 = {}
    OBVIOUS
  <2> QED
    BY <2>1, <2>2 DEF Consecutive, Continues
<1>5. CASE UNCHANGED <<message_queue, expects, send_seqnum>>
  BY <1>5 DEF Consecutive
<1>6. [Next]_vars => \/ \E n \in Address, t \in Type : SendAtOnce(n, t) \/ SendLater(n, t)
                    \/ SendStored
                    \/ SysReset
                    \/ UNCHANGED <<message_queue, expects, send_seqnum>>
  BY DEF Next, Send, Step, Answer, LoseAnswer, Unasked, TimePasses, Busy, Ready, Hear,
         Match, Expire, Skip, EndUpdate, EndServing, ServeNextAffected, EndStallOff,
         BeginUpdate, Age, StallOn, StallOff, vars, table, locals, bus
<1> QED
  BY <1>1, <1>2, <1>3, <1>4, <1>5, <1>6

(* Every node gets the messages to it with consecutive numbers: stored or   *)
(* not, none is lost, sent twice or overtaken by a later one.               *)
THEOREM NumbersAreConsecutive == Spec => []Consecutive
<1>1. Init => Consecutive
  <2>1. Len(<< >>) = 0 /\ 2..0 = {}
    OBVIOUS
  <2> QED
    BY <2>1 DEF Init, TableInit, Consecutive, Continues
<1> QED
  BY InitInv, NextInv, ConsecutiveStep, <1>1, PTL DEF Spec

----------------------------------------------------------------------------
(* The part of AffectedOK about one queue: who is in it.                    *)
WaitersOK(s, q) ==
  /\ \A i \in 1..Len(q) : s \in Supernodes(q[i])
  /\ \A i, j \in 1..Len(q) : q[i] = q[j] => i = j

LEMMA WaitersTail ==
  ASSUME NEW s, NEW q \in Seq(Address), q # << >>, WaitersOK(s, q)
  PROVE  WaitersOK(s, Tail(q))
<1> DEFINE Q == Tail(q)
           l == Len(q)
<1>1. l \in Nat \ {0} /\ Len(Q) = l - 1 /\ \A i \in 1..(l - 1) : Q[i] = q[i + 1]
  OBVIOUS
<1>2. \A i \in 1..(l - 1) : i + 1 \in 1..l
  BY <1>1
<1> HIDE DEF Q
<1>3. \A i \in 1..Len(Q) : s \in Supernodes(Q[i])
  BY <1>1, <1>2 DEF WaitersOK
<1>4. ASSUME NEW i \in 1..Len(Q), NEW j \in 1..Len(Q), Q[i] = Q[j]
      PROVE  i = j
  <2>1. /\ q[i + 1] = q[j + 1] /\ i + 1 \in 1..l /\ j + 1 \in 1..l
        /\ i \in Nat /\ j \in Nat
    BY <1>1, <1>2, <1>4
  <2>2. i + 1 = j + 1
    BY <2>1 DEF WaitersOK
  <2> QED
    BY <2>1, <2>2
<1> QED
  BY <1>3, <1>4 DEF WaitersOK, Q

LEMMA WaitersAppend ==
  ASSUME NEW s, NEW q \in Seq(Address), WaitersOK(s, q), NEW n \in Address,
         s \in Supernodes(n), n \notin Members(q)
  PROVE  WaitersOK(s, Append(q, n))
<1> DEFINE Q == Append(q, n)
           l == Len(q)
<1>1. /\ l \in Nat /\ Len(Q) = l + 1 /\ Q[l + 1] = n
      /\ \A i \in 1..l : Q[i] = q[i] /\ q[i] # n
  BY DEF Members
<1> HIDE DEF Q
<1>2. ASSUME NEW i \in 1..(l + 1)
      PROVE  s \in Supernodes(Q[i])
  <2>1. CASE i = l + 1
    BY <2>1, <1>1
  <2>2. CASE i \in 1..l
    BY <2>2, <1>1 DEF WaitersOK
  <2> QED
    BY <1>1, <2>1, <2>2
<1>3. ASSUME NEW i \in 1..(l + 1), NEW j \in 1..(l + 1), Q[i] = Q[j]
      PROVE  i = j
  <2>1. CASE i \in 1..l /\ j \in 1..l
    BY <2>1, <1>1, <1>3 DEF WaitersOK
  <2>2. CASE i = l + 1 /\ j \in 1..l
    BY <2>2, <1>1, <1>3
  <2>3. CASE i \in 1..l /\ j = l + 1
    BY <2>3, <1>1, <1>3
  <2> QED
    BY <1>1, <2>1, <2>2, <2>3
<1> QED
  BY <1>1, <1>2, <1>3 DEF WaitersOK, Q

(* Registering a node touches one queue, that of a stalled supernode.       *)
LEMMA AwaitReleaseKeeps ==
  ASSUME TypeOK, NEW n \in Address, AwaitRelease(n),
         \A s \in Address : WaitersOK(s, stall_affected[s])
  PROVE  /\ \A s \in Address : WaitersOK(s, stall_affected'[s])
         /\ \A s \in Address : stall_affected'[s] = stall_affected[s] \/ stall[s]
         /\ \A s \in Address : Members(stall_affected[s]) \subseteq Members(stall_affected'[s])
         /\ ~StallReady(n) => \E s \in Address : n \in Members(stall_affected'[s])
<1>0. \A s \in Address : stall_affected[s] \in Seq(Address)
  BY DEF TypeOK, TableTypeOK
<1> DEFINE Added(s) == ~StallReady(n) /\ s = NearestStalled(n)
                         /\ n \notin Members(stall_affected[s])
<1>1. \A s \in Address : stall_affected'[s] = IF Added(s) THEN Append(stall_affected[s], n)
                                                       ELSE stall_affected[s]
  BY DEF AwaitRelease
<1>2. \A s \in Address : Added(s) => stall[s] /\ s \in Supernodes(n)
  BY NearestStalledIsStalled DEF StalledAbove
<1>3. \A s \in Address : /\ Members(stall_affected[s]) \subseteq Members(Append(stall_affected[s], n))
                        /\ n \in Members(Append(stall_affected[s], n))
  <2> SUFFICES ASSUME NEW s \in Address, NEW q \in Seq(Address), q = stall_affected[s]
               PROVE  /\ Members(q) \subseteq Members(Append(q, n))
                      /\ n \in Members(Append(q, n))
    BY <1>0
  <2>1. /\ Len(q) \in Nat /\ DOMAIN q = 1..Len(q)
        /\ DOMAIN Append(q, n) = 1..(Len(q) + 1)
        /\ Append(q, n)[Len(q) + 1] = n
        /\ \A i \in 1..Len(q) : Append(q, n)[i] = q[i]
    OBVIOUS
  <2> QED
    BY <2>1 DEF Members
<1>4. \A s \in Address : WaitersOK(s, stall_affected'[s])
  BY <1>0, <1>1, <1>2, WaitersAppend
<1>5. ~StallReady(n) => \E s \in Address : n \in Members(stall_affected'[s])
  <2> SUFFICES ASSUME ~StallReady(n)
               PROVE  \E s \in Address : n \in Members(stall_affected'[s])
    OBVIOUS
  <2>1. NearestStalled(n) \in Address
    BY NearestStalledIsStalled DEF StalledAbove, Supernodes
  <2> QED
    BY <2>1, <1>1, <1>3
<1> HIDE DEF Added
<1> QED
  BY <1>1, <1>2, <1>3, <1>4, <1>5

LEMMA InitAffected == Init => AffectedOK
<1>1. 1..Len(<< >>) = {}
  OBVIOUS
<1> QED
  BY <1>1 DEF Init, TableInit, AffectedOK

LEMMA AffectedStep ==
  ASSUME Inv, AffectedOK, [Next]_vars
  PROVE  AffectedOK'
<1> DEFINE Owned(s) == stall_affected[s] # << >> => stall[s] \/ (fn = "update_stall" /\ node = s)
<1>0. /\ TypeOK /\ LocalsOK
      /\ \A s \in Address : WaitersOK(s, stall_affected[s])
      /\ \A s \in Address : Owned(s)
  BY DEF Inv, AffectedOK, WaitersOK
<1>g. ASSUME \A s \in Address : WaitersOK(s, stall_affected'[s]),
             \A s \in Address : Owned(s)'
      PROVE  AffectedOK'
  BY <1>g DEF AffectedOK, WaitersOK, Supernodes
<1>1. ASSUME NEW n \in Address, NEW t \in Type, SendLater(n, t)
      PROVE  AffectedOK'
  <2>1. AwaitRelease(n) /\ UNCHANGED <<stall, locals>>
    BY <1>1 DEF SendLater, Store
  <2>2. /\ \A s \in Address : WaitersOK(s, stall_affected'[s])
        /\ \A s \in Address : stall_affected'[s] = stall_affected[s] \/ stall[s]
    BY <1>0, <2>1, AwaitReleaseKeeps
  <2>3. \A s \in Address : Owned(s)'
    BY <1>0, <2>1, <2>2 DEF locals
  <2> QED
    BY <1>g, <2>2, <2>3
<1>2. CASE EndServing
  <2>1. /\ AwaitRelease(serving) /\ UNCHANGED stall /\ serving \in Address
        /\ fn = "state_update" \/ UNCHANGED <<fn, node>>
    BY <1>0, <1>2 DEF EndServing, TypeOK, TableTypeOK
  <2>2. /\ \A s \in Address : WaitersOK(s, stall_affected'[s])
        /\ \A s \in Address : stall_affected'[s] = stall_affected[s] \/ stall[s]
    BY <1>0, <2>1, AwaitReleaseKeeps
  <2>3. \A s \in Address : Owned(s)'
    BY <1>0, <2>1, <2>2
  <2> QED
    BY <1>g, <2>2, <2>3
<1>3. CASE ServeNextAffected
  <2>1. /\ stall_affected' = [stall_affected EXCEPT ![node] = Tail(@)]
        /\ stall_affected[node] # << >> /\ fn = "update_stall" /\ node \in Address
        /\ UNCHANGED <<stall, fn, node>>
    BY <1>0, <1>3 DEF ServeNextAffected, Releasing, LocalsOK
  <2>2. /\ stall_affected'[node] = Tail(stall_affected[node])
        /\ stall_affected[node] \in Seq(Address)
        /\ \A s \in Address : s # node => stall_affected'[s] = stall_affected[s]
    BY <1>0, <2>1 DEF TypeOK, TableTypeOK
  <2>3. \A s \in Address : WaitersOK(s, stall_affected'[s])
    BY <1>0, <2>1, <2>2, WaitersTail
  <2>4. \A s \in Address : Owned(s)'
    BY <1>0, <2>1, <2>2
  <2> QED
    BY <1>g, <2>3, <2>4
<1>4. CASE SysReset
  <2>1. \A s \in Address : stall_affected'[s] = << >>
    BY <1>4 DEF SysReset, Reset
  <2>2. 1..Len(<< >>) = {}
    OBVIOUS
  <2> QED
    BY <1>g, <2>1, <2>2 DEF WaitersOK
<1>5. ASSUME NEW n \in Address, Busy(n) \/ Ready(n)
      PROVE  AffectedOK'
  <2>1. /\ UNCHANGED stall_affected /\ fn = "none"
        /\ \/ stall' = [stall EXCEPT ![n] = TRUE] /\ UNCHANGED <<fn, node>>
           \/ stall' = [stall EXCEPT ![n] = FALSE] /\ fn' = "update_stall" /\ node' = n
    BY <1>5 DEF Busy, Ready, StallOn, StallOff, MutexFree, locals
  <2>2. \A s \in Address : Owned(s)'
    BY <1>0, <2>1 DEF TypeOK, TableTypeOK
  <2> QED
    BY <1>0, <1>g, <2>1, <2>2
<1>6. CASE EndStallOff
  <2>1. /\ UNCHANGED <<stall_affected, stall>> /\ stall_affected[node] = << >>
    BY <1>6 DEF EndStallOff, table
  <2>2. \A s \in Address : Owned(s)'
    BY <1>0, <2>1
  <2> QED
    BY <1>0, <1>g, <2>1, <2>2
<1>7. CASE /\ UNCHANGED <<stall_affected, stall>>
           /\ fn # "update_stall" \/ UNCHANGED <<fn, node>>
  <2>1. \A s \in Address : Owned(s)'
    BY <1>0, <1>7
  <2> QED
    BY <1>0, <1>g, <1>7, <2>1
<1>8. [Next]_vars =>
        \/ \E n \in Address, t \in Type : SendLater(n, t)
        \/ EndServing \/ ServeNextAffected \/ EndStallOff \/ SysReset
        \/ \E n \in Address : Busy(n) \/ Ready(n)
        \/ /\ UNCHANGED <<stall_affected, stall>>
           /\ fn # "update_stall" \/ UNCHANGED <<fn, node>>
  BY DEF Next, Send, Step, Answer, LoseAnswer, Unasked, TimePasses, Hear,
         Match, Expire, Skip, EndUpdate, SendAtOnce, SendNow, SendStored, Dequeue,
         BeginUpdate, Age, Updating, vars, table, locals, MutexFree
<1> QED
  BY <1>1, <1>2, <1>3, <1>4, <1>5, <1>6, <1>7, <1>8

(* Only nodes below a stalled node wait in its queue, each of them once, so *)
(* that a release tries every stored message it may free and no other.      *)
THEOREM OnlyAffectedWait == Spec => []AffectedOK
BY InitInv, NextInv, InitAffected, AffectedStep, PTL DEF Spec

----------------------------------------------------------------------------
(* What an operation leaves behind in the queues of waiting nodes.          *)

Waiting(n) == \E s \in Address : n \in Members(stall_affected[s])

LEMMA MembersTail ==
  ASSUME NEW S, NEW q \in Seq(S), q # << >>
  PROVE  Members(q) = {Head(q)} \cup Members(Tail(q))
<1> DEFINE l == Len(q)
           Q == Tail(q)
<1>1. /\ l \in Nat \ {0} /\ DOMAIN q = 1..l /\ DOMAIN Q = 1..(l - 1)
      /\ Head(q) = q[1]
      /\ \A i \in 1..(l - 1) : Q[i] = q[i + 1]
  OBVIOUS
<1> HIDE DEF l, Q
<1>2. ASSUME NEW i \in 1..l
      PROVE  q[i] \in {Head(q)} \cup Members(Q)
  <2>1. CASE i = 1
    BY <2>1, <1>1
  <2>2. CASE i # 1
    <3>1. i - 1 \in 1..(l - 1) /\ (i - 1) + 1 = i
      BY <2>2, <1>1
    <3> QED
      BY <3>1, <1>1 DEF Members
  <2> QED
    BY <2>1, <2>2
<1>3. \A i \in 1..(l - 1) : Q[i] \in Members(q)
  <2> SUFFICES ASSUME NEW i \in 1..(l - 1)
               PROVE  Q[i] \in Members(q)
    OBVIOUS
  <2>1. i + 1 \in 1..l
    BY <1>1
  <2> QED
    BY <2>1, <1>1 DEF Members
<1>4. Head(q) \in Members(q)
  BY <1>1 DEF Members
<1> QED
  BY <1>1, <1>2, <1>3, <1>4 DEF Members, Q

LEMMA MembersAppend ==
  ASSUME NEW S, NEW q \in Seq(S), NEW e \in S
  PROVE  Members(Append(q, e)) = Members(q) \cup {e}
<1> DEFINE l == Len(q)
           Q == Append(q, e)
<1>1. /\ l \in Nat /\ DOMAIN q = 1..l /\ DOMAIN Q = 1..(l + 1)
      /\ Q[l + 1] = e /\ \A i \in 1..l : Q[i] = q[i]
  OBVIOUS
<1> HIDE DEF l, Q
<1>2. \A i \in 1..(l + 1) : i \in 1..l \/ i = l + 1
  BY <1>1
<1>3. l + 1 \in 1..(l + 1) /\ \A i \in 1..l : i \in 1..(l + 1)
  BY <1>1
<1> QED
  BY <1>1, <1>2, <1>3 DEF Members, Q

(* Registering n adds n to the queue of one stalled supernode of n, unless  *)
(* it is there already, and changes nothing when there is none.             *)
LEMMA AwaitReleaseAdds ==
  ASSUME TypeOK, NEW n \in Address, AwaitRelease(n)
  PROVE  /\ \A s \in Address :
              /\ Members(stall_affected[s]) \subseteq Members(stall_affected'[s])
              /\ Members(stall_affected'[s]) \subseteq Members(stall_affected[s]) \cup {n}
         /\ StallReady(n) => \A s \in Address : stall_affected'[s] = stall_affected[s]
         /\ ~StallReady(n) => Waiting(n)'
<1>0. \A s \in Address : stall_affected[s] \in Seq(Address)
  BY DEF TypeOK, TableTypeOK
<1> DEFINE Added(s) == ~StallReady(n) /\ s = NearestStalled(n)
                         /\ n \notin Members(stall_affected[s])
<1>1. \A s \in Address : stall_affected'[s] = IF Added(s) THEN Append(stall_affected[s], n)
                                                       ELSE stall_affected[s]
  BY DEF AwaitRelease
<1>2. \A s \in Address : Members(Append(stall_affected[s], n))
                           = Members(stall_affected[s]) \cup {n}
  BY <1>0, MembersAppend
<1>3. ~StallReady(n) => Waiting(n)'
  <2> SUFFICES ASSUME ~StallReady(n)
               PROVE  Waiting(n)'
    OBVIOUS
  <2>1. NearestStalled(n) \in Address
    BY NearestStalledIsStalled DEF StalledAbove, Supernodes
  <2>2. n \in Members(stall_affected'[NearestStalled(n)])
    BY <2>1, <1>1, <1>2
  <2> QED
    BY <2>1, <2>2 DEF Waiting
<1> QED
  BY <1>1, <1>2, <1>3

(* A node that owes nothing can be asked anything.                          *)
LEMMA NothingOwedFits ==
  ASSUME Inv, NEW n \in Address, NEW t \in Type, response_queue[n] = << >>
  PROVE  HasCapacity(n, t)
<1>1. Totals(<< >>, response_bytes[n]) /\ Len(<< >>) = 0
  BY DEF Inv, BudgetExact
<1>2. response_bytes[n] = 0
  BY <1>1 DEF Totals
<1>3. MaxResponse[t] \in Nat /\ MaxResponse[t] <= response_limit /\ response_limit \in Nat
  BY TypeAssumption
<1> QED
  BY <1>2, <1>3 DEF HasCapacity

LEMMA HeadTyped ==
  ASSUME TypeOK, NEW n \in Address, message_queue[n] # << >>
  PROVE  Head(message_queue[n]) \in Message /\ Head(message_queue[n]).type \in Type
<1>1. message_queue[n] \in Seq(Message)
  BY DEF TypeOK, TableTypeOK
<1>2. Head(message_queue[n]) \in Message
  BY <1>1
<1> QED
  BY <1>2 DEF Message

(* Ageing keeps the length of the response queues.                          *)
LEMMA AgeKeepsLength ==
  ASSUME TypeOK, NEW n \in Address, Age(n)
  PROVE  \A k \in Address : response_queue'[k] = << >> <=> response_queue[k] = << >>
<1>1. PICK i \in 1..Len(response_queue[n]) :
        response_queue' = [response_queue EXCEPT ![n][i].old = TRUE]
  BY DEF Age
<1>2. \A k \in Address : response_queue[k] \in Seq(Response)
  BY DEF TypeOK, TableTypeOK
<1>3. /\ response_queue'[n] = [response_queue[n] EXCEPT ![i].old = TRUE]
      /\ \A k \in Address : k # n => response_queue'[k] = response_queue[k]
  BY <1>1 DEF TypeOK, TableTypeOK
<1>4. DOMAIN response_queue'[n] = DOMAIN response_queue[n]
  BY <1>3
<1>5. 1 \in DOMAIN response_queue[n] /\ DOMAIN << >> = {}
  BY <1>2
<1>6. response_queue'[n] # << >> /\ response_queue[n] # << >>
  BY <1>4, <1>5
<1> QED
  BY <1>3, <1>6

----------------------------------------------------------------------------
LEMMA StallObeyedStep ==
  ASSUME Inv, [Next]_vars, NEW n \in Address, ~StallReady(n)
  PROVE  expects'[n] = expects[n] \/ SysReset
<1>0. TypeOK
  BY DEF Inv
<1>1. ASSUME NEW k \in Address, NEW t \in Type, SendAtOnce(k, t)
      PROVE  expects'[n] = expects[n]
  <2>1. StallReady(k) /\ expects' = [expects EXCEPT ![k] = NextSeqnum(send_seqnum[k])]
    BY <1>1 DEF SendAtOnce, SendNow, Arrive, Numbered
  <2> QED
    BY <1>0, <2>1 DEF TypeOK
<1>2. ASSUME SendStored
      PROVE  expects'[n] = expects[n]
  <2>1. /\ StallReady(serving)
        /\ expects' = [expects EXCEPT ![serving] = NextSeqnum(Head(message_queue[serving]).seq)]
    BY <1>2 DEF SendStored, Dequeue, CanDequeue, Arrive
  <2> QED
    BY <1>0, <2>1 DEF TypeOK
<1>3. [Next]_vars => \/ \E k \in Address, t \in Type : SendAtOnce(k, t)
                    \/ SendStored
                    \/ SysReset
                    \/ UNCHANGED expects
  BY DEF Next, Send, SendLater, Step, Answer, LoseAnswer, Unasked, TimePasses, Busy, Ready,
         vars, bus
<1> QED
  BY <1>1, <1>2, <1>3

(* Whatever the callers, the answers and the releases do, no message        *)
(* reaches a node while the node or a supernode of it is stalled.           *)
THEOREM StallIsObeyed == Spec => StallObeyed
<1> DEFINE Obeyed == \A n \in Address :
                       (\E s \in Supernodes(n) : stall[s])
                         => expects'[n] = expects[n] \/ SysReset
<1>1. Inv /\ [Next]_vars => Obeyed
  BY StallObeyedStep DEF StallReady, StalledAbove
<1>2. Inv /\ [Next]_vars => [Obeyed]_vars
  BY <1>1
<1> QED
  BY InitInv, NextInv, <1>2, PTL DEF Spec, StallObeyed
----------------------------------------------------------------------------
(* What a step may do to n as long as it is none of those that send to n,   *)
(* store for n, or take n up as `serving' or drop it: nothing.              *)
Untouched(n) ==
  /\ message_queue'[n] = message_queue[n]
  /\ response_queue'[n] = << >> <=> response_queue[n] = << >>
  /\ response_bytes'[n] = response_bytes[n]
  /\ serving' = n <=> serving = n
  /\ Waiting(n)' <=> Waiting(n)

LEMMA QueueSteps ==
  ASSUME Inv, [Next]_vars, NEW n \in Address
  PROVE  \/ \E t \in Type : SendAtOnce(n, t) \/ SendLater(n, t)
         \/ serving = n /\ (SendStored \/ EndServing)
         \/ node = n /\ (Match \/ Expire)
         \/ Releasing /\ ServeNextAffected /\ n = Head(stall_affected[node])
         \/ SysReset
         \/ Untouched(n)
<1>0. TypeOK /\ LocalsOK
  BY DEF Inv
<1>a. \A s \in Address : stall_affected[s] \in Seq(Address)
  BY <1>0 DEF TypeOK, TableTypeOK
<1>1. ASSUME NEW k \in Address, NEW t \in Type, SendAtOnce(k, t), k # n
      PROVE  Untouched(n)
  <2>1. /\ UNCHANGED <<message_queue, serving, stall_affected>>
        /\ AddResponse(k, Numbered(k, t).type)
    BY <1>1 DEF SendAtOnce, SendNow, locals
  <2>2. response_queue'[n] = response_queue[n] /\ response_bytes'[n] = response_bytes[n]
    BY <1>0, <1>1, <2>1 DEF AddResponse, TypeOK, TableTypeOK
  <2> QED
    BY <2>1, <2>2 DEF Untouched, Waiting
<1>2. ASSUME NEW k \in Address, NEW t \in Type, SendLater(k, t), k # n
      PROVE  Untouched(n)
  <2>1. /\ message_queue' = [message_queue EXCEPT ![k] = Append(@, Numbered(k, t))]
        /\ AwaitRelease(k) /\ UNCHANGED <<response_queue, response_bytes, serving>>
    BY <1>2 DEF SendLater, Store, locals
  <2>2. message_queue'[n] = message_queue[n]
    BY <1>0, <1>2, <2>1 DEF TypeOK, TableTypeOK
  <2>3. \A s \in Address : n \in Members(stall_affected'[s]) <=> n \in Members(stall_affected[s])
    BY <1>0, <1>2, <2>1, AwaitReleaseAdds
  <2> QED
    BY <2>1, <2>2, <2>3 DEF Untouched, Waiting
<1>3. ASSUME SendStored, serving # n
      PROVE  Untouched(n)
  <2>1. /\ serving \in Address
        /\ message_queue' = [message_queue EXCEPT ![serving] = Tail(@)]
        /\ AddResponse(serving, Head(message_queue[serving]).type)
        /\ UNCHANGED <<serving, stall_affected>>
    BY <1>0, <1>3 DEF SendStored, Dequeue, locals, TypeOK, TableTypeOK
  <2>2. message_queue'[n] = message_queue[n]
    BY <1>0, <1>3, <2>1 DEF TypeOK, TableTypeOK
  <2>3. response_queue'[n] = response_queue[n] /\ response_bytes'[n] = response_bytes[n]
    BY <1>0, <1>3, <2>1 DEF AddResponse, TypeOK, TableTypeOK
  <2> QED
    BY <2>1, <2>2, <2>3 DEF Untouched, Waiting
<1>4. ASSUME Match \/ Expire, node # n
      PROVE  Untouched(n)
  <2>1. /\ node \in Address /\ PopResponse(node)
        /\ UNCHANGED <<message_queue, stall_affected>>
        /\ serving = NoNode /\ serving' \in {node, NoNode}
    BY <1>0, <1>4 DEF Match, Expire, Updating, LocalsOK
  <2>2. response_queue'[n] = response_queue[n] /\ response_bytes'[n] = response_bytes[n]
    BY <1>0, <1>4, <2>1 DEF PopResponse, TypeOK, TableTypeOK
  <2>3. NoNode # n
    BY AddressAssumption
  <2> QED
    BY <1>4, <2>1, <2>2, <2>3 DEF Untouched, Waiting
<1>5. ASSUME EndServing, serving # n
      PROVE  Untouched(n)
  <2>1. /\ serving \in Address /\ AwaitRelease(serving) /\ serving' = NoNode
        /\ UNCHANGED <<message_queue, response_queue, response_bytes>>
    BY <1>0, <1>5 DEF EndServing, TypeOK, TableTypeOK
  <2>2. \A s \in Address : n \in Members(stall_affected'[s]) <=> n \in Members(stall_affected[s])
    BY <1>0, <1>5, <2>1, AwaitReleaseAdds
  <2> QED
    BY <1>5, <2>1, <2>2, AddressAssumption DEF Untouched, Waiting
<1>6. ASSUME ServeNextAffected, n # Head(stall_affected[node])
      PROVE  Untouched(n)
  <2>1. /\ node \in Address /\ stall_affected[node] # << >> /\ serving = NoNode
        /\ serving' = Head(stall_affected[node])
        /\ stall_affected' = [stall_affected EXCEPT ![node] = Tail(@)]
        /\ UNCHANGED <<message_queue, response_queue, response_bytes>>
    BY <1>0, <1>6 DEF ServeNextAffected, Releasing, LocalsOK
  <2>2. /\ stall_affected'[node] = Tail(stall_affected[node])
        /\ \A s \in Address : s # node => stall_affected'[s] = stall_affected[s]
    BY <1>0, <2>1 DEF TypeOK, TableTypeOK
  <2>3. \A s \in Address : n \in Members(stall_affected'[s]) <=> n \in Members(stall_affected[s])
    BY <1>6, <1>a, <2>1, <2>2, MembersTail
  <2> QED
    BY <1>6, <2>1, <2>3, AddressAssumption DEF Untouched, Waiting
<1>7. ASSUME NEW k \in Address, TimePasses(k)
      PROVE  Untouched(n)
  <2>1. UNCHANGED <<message_queue, response_bytes, serving, stall_affected>> /\ Age(k)
    BY <1>7 DEF TimePasses, Age, locals
  <2> QED
    BY <1>0, <2>1, AgeKeepsLength DEF Untouched, Waiting
<1>8. ASSUME UNCHANGED <<message_queue, response_queue, response_bytes, serving, stall_affected>>
      PROVE  Untouched(n)
  BY <1>8 DEF Untouched, Waiting
<1>9. [Next]_vars =>
        \/ \E k \in Address, t \in Type : SendAtOnce(k, t) \/ SendLater(k, t)
        \/ SendStored \/ EndServing \/ Match \/ Expire \/ ServeNextAffected \/ SysReset
        \/ \E k \in Address : TimePasses(k)
        \/ UNCHANGED <<message_queue, response_queue, response_bytes, serving, stall_affected>>
  BY DEF Next, Send, Step, Answer, LoseAnswer, Unasked, Busy, Ready, Hear, BeginUpdate,
         Skip, EndUpdate, EndStallOff, StallOn, StallOff, vars, table, locals
<1>10. ServeNextAffected => Releasing
  BY DEF ServeNextAffected
<1> QED
  BY <1>1, <1>2, <1>3, <1>4, <1>5, <1>6, <1>7, <1>8, <1>9, <1>10

(* A message is stored, and one that is stored stays so, for a stall, which *)
(* registers the node, or for capacity, which needs an open request.        *)
LEMMA StrandedStep ==
  ASSUME Inv, [Next]_vars, NEW n \in Address, Stranded(n)'
  PROVE  Stranded(n) \/ (Expire /\ node = n)
<1>0. TypeOK /\ LocalsOK
  BY DEF Inv
<1>1. /\ message_queue'[n] # << >> /\ response_queue'[n] = << >>
      /\ serving' # n /\ ~Waiting(n)'
  BY DEF Stranded, Waiting
<1>2. ASSUME NEW t \in Type, SendAtOnce(n, t)
      PROVE  FALSE
  BY <1>1, <1>2 DEF SendAtOnce, SendNow
<1>3. ASSUME NEW t \in Type, SendLater(n, t)
      PROVE  Stranded(n)
  <2>1. /\ ~(StallReady(n) /\ message_queue[n] = << >> /\ HasCapacity(n, Numbered(n, t).type))
        /\ AwaitRelease(n) /\ UNCHANGED <<response_queue, serving>>
    BY <1>3 DEF SendLater, Store, locals
  <2>2. StallReady(n) /\ \A s \in Address : stall_affected'[s] = stall_affected[s]
    BY <1>0, <1>1, <2>1, AwaitReleaseAdds
  <2>3. HasCapacity(n, Numbered(n, t).type)
    BY <1>0, <1>1, <2>1, NothingOwedFits, NumberedType
  <2> QED
    BY <1>1, <2>1, <2>2, <2>3 DEF Stranded, Waiting
<1>4. ASSUME serving = n, SendStored
      PROVE  FALSE
  BY <1>1, <1>4 DEF SendStored, Dequeue, locals
<1>5. ASSUME serving = n, EndServing
      PROVE  FALSE
  <2>1. /\ ~CanDequeue(n) /\ AwaitRelease(n)
        /\ UNCHANGED <<response_queue, message_queue>>
    BY <1>5 DEF EndServing
  <2>2. StallReady(n)
    BY <1>0, <1>1, <2>1, AwaitReleaseAdds
  <2>3. HasCapacity(n, Head(message_queue[n]).type)
    BY <1>0, <1>1, <2>1, NothingOwedFits, HeadTyped
  <2> QED
    BY <1>1, <2>1, <2>2, <2>3 DEF CanDequeue
<1>6. ASSUME node = n, Match
      PROVE  FALSE
  BY <1>1, <1>6 DEF Match
<1>7. ASSUME ServeNextAffected, n = Head(stall_affected[node])
      PROVE  FALSE
  BY <1>1, <1>7 DEF ServeNextAffected
<1>8. ASSUME SysReset
      PROVE  FALSE
  BY <1>1, <1>8 DEF SysReset, Reset
<1>9. ASSUME Untouched(n)
      PROVE  Stranded(n)
  BY <1>1, <1>9 DEF Stranded, Untouched, Waiting
<1> QED
  BY <1>2, <1>3, <1>4, <1>5, <1>6, <1>7, <1>8, <1>9, QueueSteps

(* Only an expiry (RESPONSE_QUEUE_EXPIRATION_SECS) leaves stored messages   *)
(* behind that nothing is going to try: whatever the order of answers,      *)
(* stalls and releases, no other step does.                                 *)
THEOREM OnlyExpiryStrands == Spec => StrandedOnlyByExpiry
<1> DEFINE ByExpiry == \A n \in Address :
                         Stranded(n)' => Stranded(n) \/ (Expire /\ node = n)
<1>1. Inv /\ [Next]_vars => [ByExpiry]_vars
  BY StrandedStep
<1> QED
  BY InitInv, NextInv, <1>1, PTL DEF Spec, StrandedOnlyByExpiry

LEMMA StrandedStaysStep ==
  ASSUME Inv, [Next]_vars, NEW n \in Address, Stranded(n), StallReady(n)
  PROVE  Stranded(n)' \/ SysReset
<1>0. TypeOK /\ LocalsOK
  BY DEF Inv
<1>1. /\ message_queue[n] # << >> /\ response_queue[n] = << >>
      /\ serving # n /\ ~Waiting(n)
  BY DEF Stranded, Waiting
<1>2. ASSUME NEW t \in Type, SendAtOnce(n, t)
      PROVE  FALSE
  BY <1>1, <1>2 DEF SendAtOnce, SendNow
<1>3. ASSUME NEW t \in Type, SendLater(n, t)
      PROVE  Stranded(n)'
  <2> DEFINE m == Numbered(n, t)
  <2>1. /\ message_queue' = [message_queue EXCEPT ![n] = Append(@, m)]
        /\ AwaitRelease(n) /\ UNCHANGED <<response_queue, serving>>
    BY <1>3 DEF SendLater, Store, locals
  <2>2. message_queue'[n] = Append(message_queue[n], m) /\ message_queue[n] \in Seq(Message)
    BY <1>0, <2>1 DEF TypeOK, TableTypeOK
  <2>3. message_queue'[n] # << >>
    BY <2>2
  <2>4. \A s \in Address : stall_affected'[s] = stall_affected[s]
    BY <1>0, <2>1, AwaitReleaseAdds
  <2> QED
    BY <1>1, <2>1, <2>3, <2>4 DEF Stranded, Waiting
<1>4. ASSUME node = n, Match \/ Expire
      PROVE  FALSE
  BY <1>0, <1>1, <1>4 DEF Match, Expire, LocalsOK
<1>5. ASSUME ServeNextAffected, n = Head(stall_affected[node])
      PROVE  FALSE
  <2>1. node \in Address /\ stall_affected[node] # << >> /\ stall_affected[node] \in Seq(Address)
    BY <1>0, <1>5 DEF ServeNextAffected, Releasing, LocalsOK, TypeOK, TableTypeOK
  <2>2. n \in Members(stall_affected[node])
    BY <1>5, <2>1, MembersTail
  <2> QED
    BY <1>1, <2>1, <2>2 DEF Waiting
<1>6. ASSUME Untouched(n)
      PROVE  Stranded(n)'
  BY <1>1, <1>6 DEF Stranded, Untouched, Waiting
<1> QED
  BY <1>1, <1>2, <1>3, <1>4, <1>5, <1>6, QueueSteps

(* A stranded node stays stranded whatever is sent to it or heard from it,  *)
(* until it or a supernode of it stalls, or the table is reset.             *)
THEOREM OnlyStallFreesStranded == Spec => StrandedUntilStall
<1> DEFINE Stays == \A n \in Address :
                      Stranded(n) => \/ Stranded(n)'
                                     \/ \E s \in Supernodes(n) : stall[s]
                                     \/ SysReset
<1>1. Inv /\ [Next]_vars => [Stays]_vars
  BY StrandedStaysStep DEF StallReady, StalledAbove
<1> QED
  BY InitInv, NextInv, <1>1, PTL DEF Spec, StrandedUntilStall

----------------------------------------------------------------------------
(* As long as no request is answered late: none is ever old, and a stored   *)
(* message that fits is being tried or waits for a release.                 *)
Fresh == \A n \in Address : \A i \in 1..Len(response_queue[n]) : ~response_queue[n][i].old

FitsIsTried ==
  \A n \in Address :
    message_queue[n] # << >> /\ HasCapacity(n, Head(message_queue[n]).type)
      => serving = n \/ Waiting(n)

LEMMA FreshAppend ==
  ASSUME NEW q \in Seq(Response), NEW r \in Response, ~r.old,
         \A i \in 1..Len(q) : ~q[i].old
  PROVE  \A i \in 1..Len(Append(q, r)) : ~Append(q, r)[i].old
<1> DEFINE Q == Append(q, r)
           l == Len(q)
<1>1. l \in Nat /\ Len(Q) = l + 1 /\ Q[l + 1] = r /\ \A i \in 1..l : Q[i] = q[i]
  OBVIOUS
<1> HIDE DEF Q, l
<1>2. \A i \in 1..(l + 1) : i \in 1..l \/ i = l + 1
  BY <1>1
<1> QED
  BY <1>1, <1>2 DEF Q, l

LEMMA FreshTail ==
  ASSUME NEW q \in Seq(Response), q # << >>, \A i \in 1..Len(q) : ~q[i].old
  PROVE  \A i \in 1..Len(Tail(q)) : ~Tail(q)[i].old
<1>1. \A i \in 1..Len(Tail(q)) : Tail(q)[i] = q[i + 1] /\ i + 1 \in 1..Len(q)
  OBVIOUS
<1> QED
  BY <1>1

LEMMA AddResponseFresh ==
  ASSUME TypeOK, Fresh, NEW n \in Address, NEW t \in Type, AddResponse(n, t)
  PROVE  Fresh'
<1> DEFINE r == [type |-> t, old |-> FALSE]
<1>1. CASE MaxResponse[t] > 0
  <2>1. /\ response_queue[n] \in Seq(Response) /\ r \in Response /\ ~r.old
        /\ \A i \in 1..Len(response_queue[n]) : ~response_queue[n][i].old
    BY DEF TypeOK, TableTypeOK, Response, Fresh
  <2>2. /\ response_queue'[n] = Append(response_queue[n], r)
        /\ \A k \in Address : k # n => response_queue'[k] = response_queue[k]
    BY <1>1 DEF AddResponse, TypeOK, TableTypeOK
  <2>3. \A i \in 1..Len(response_queue'[n]) : ~response_queue'[n][i].old
    BY <2>1, <2>2, FreshAppend
  <2> QED
    BY <2>2, <2>3 DEF Fresh
<1>2. CASE ~(MaxResponse[t] > 0)
  BY <1>2 DEF AddResponse, Fresh
<1> QED
  BY <1>1, <1>2

LEMMA PopResponseFresh ==
  ASSUME TypeOK, Fresh, NEW n \in Address, response_queue[n] # << >>, PopResponse(n)
  PROVE  Fresh'
<1>1. /\ response_queue[n] \in Seq(Response)
      /\ \A i \in 1..Len(response_queue[n]) : ~response_queue[n][i].old
      /\ response_queue'[n] = Tail(response_queue[n])
      /\ \A k \in Address : k # n => response_queue'[k] = response_queue[k]
  BY DEF PopResponse, Fresh, TypeOK, TableTypeOK
<1>2. \A i \in 1..Len(response_queue'[n]) : ~response_queue'[n][i].old
  BY <1>1, FreshTail
<1> QED
  BY <1>1, <1>2 DEF Fresh

LEMMA FreshStep ==
  ASSUME "late" \notin Faults, Inv, Fresh, [Next]_vars
  PROVE  Fresh'
<1>0. TypeOK /\ LocalsOK
  BY DEF Inv
<1>1. ASSUME NEW n \in Address, NEW t \in Type, SendAtOnce(n, t)
      PROVE  Fresh'
  BY <1>0, <1>1, AddResponseFresh, NumberedType DEF SendAtOnce, SendNow
<1>2. CASE SendStored
  <2>1. /\ serving \in Address /\ message_queue[serving] # << >>
        /\ AddResponse(serving, Head(message_queue[serving]).type)
    BY <1>0, <1>2 DEF SendStored, Dequeue, CanDequeue, TypeOK, TableTypeOK
  <2> QED
    BY <1>0, <2>1, AddResponseFresh, HeadTyped
<1>3. CASE Match \/ Expire
  <2>1. node \in Address /\ response_queue[node] # << >> /\ PopResponse(node)
    BY <1>0, <1>3 DEF Match, Expire, Updating, LocalsOK
  <2> QED
    BY <1>0, <2>1, PopResponseFresh
<1>4. CASE SysReset
  <2>1. \A n \in Address : response_queue'[n] = << >>
    BY <1>4 DEF SysReset, Reset
  <2>2. 1..Len(<< >>) = {}
    OBVIOUS
  <2> QED
    BY <2>1, <2>2 DEF Fresh
<1>5. CASE UNCHANGED response_queue
  BY <1>5 DEF Fresh
<1>6. [Next]_vars =>
        \/ \E n \in Address, t \in Type : SendAtOnce(n, t)
        \/ SendStored \/ Match \/ Expire \/ SysReset
        \/ UNCHANGED response_queue
  BY DEF Next, Send, SendLater, Store, Step, Answer, LoseAnswer, Unasked, TimePasses, Busy,
         Ready, Hear, BeginUpdate, Skip, EndUpdate, EndServing, ServeNextAffected,
         EndStallOff, StallOn, StallOff, vars, table, locals
<1> QED
  BY <1>1, <1>2, <1>3, <1>4, <1>5, <1>6

(* Nothing expires while every request is fresh.                            *)
LEMMA FreshNoExpiry ==
  ASSUME Inv, Fresh
  PROVE  ~Expire
<1> SUFFICES ASSUME Expire
             PROVE  FALSE
  OBVIOUS
<1>1. /\ node \in Address /\ response_queue[node] # << >>
      /\ Head(response_queue[node]).old
      /\ response_queue[node] \in Seq(Response)
  BY DEF Expire, Updating, Inv, LocalsOK, TypeOK, TableTypeOK, HeadResponse
<1>2. 1 \in 1..Len(response_queue[node]) /\ Head(response_queue[node]) = response_queue[node][1]
  BY <1>1
<1> QED
  BY <1>1, <1>2 DEF Fresh

LEMMA FitsIsTriedStep ==
  ASSUME Inv, Fresh, FitsIsTried, [Next]_vars, NEW n \in Address,
         message_queue'[n] # << >>, HasCapacity(n, Head(message_queue[n]).type)'
  PROVE  serving' = n \/ Waiting(n)'
<1>0. TypeOK /\ LocalsOK
  BY DEF Inv
<1>1. ASSUME NEW t \in Type, SendAtOnce(n, t)
      PROVE  FALSE
  BY <1>1 DEF SendAtOnce, SendNow
<1>2. ASSUME NEW t \in Type, SendLater(n, t)
      PROVE  serving' = n \/ Waiting(n)'
  <2> DEFINE m == Numbered(n, t)
             q == message_queue[n]
  <2>1. /\ ~(StallReady(n) /\ q = << >> /\ HasCapacity(n, m.type))
        /\ message_queue' = [message_queue EXCEPT ![n] = Append(@, m)]
        /\ AwaitRelease(n) /\ UNCHANGED <<response_bytes, serving>>
    BY <1>2 DEF SendLater, Store, locals
  <2>2. q \in Seq(Message) /\ m \in Message /\ message_queue'[n] = Append(q, m)
    BY <1>0, <2>1, NumberedType DEF TypeOK, TableTypeOK
  <2>3. CASE q = << >>
    <3>1. Head(message_queue'[n]) = m
      BY <2>2, <2>3
    <3>2. HasCapacity(n, m.type)
      BY <2>1, <3>1 DEF HasCapacity
    <3> QED
      BY <1>0, <2>1, <2>3, <3>2, AwaitReleaseAdds
  <2>4. CASE q # << >>
    <3>1. Head(message_queue'[n]) = Head(q)
      BY <2>2, <2>4
    <3>2. HasCapacity(n, Head(q).type)
      BY <2>1, <3>1 DEF HasCapacity
    <3>3. serving = n \/ Waiting(n)
      BY <2>4, <3>2 DEF FitsIsTried
    <3> QED
      BY <1>0, <2>1, <3>3, AwaitReleaseAdds DEF Waiting
  <2> QED
    BY <2>3, <2>4
<1>3. ASSUME serving = n, SendStored
      PROVE  serving' = n
  BY <1>3 DEF SendStored, Dequeue, locals
<1>4. ASSUME serving = n, EndServing
      PROVE  Waiting(n)'
  <2>1. ~CanDequeue(n) /\ AwaitRelease(n) /\ UNCHANGED <<message_queue, response_bytes>>
    BY <1>4 DEF EndServing
  <2>2. ~StallReady(n)
    BY <2>1 DEF CanDequeue, HasCapacity
  <2> QED
    BY <1>0, <2>1, <2>2, AwaitReleaseAdds
<1>5. ASSUME node = n, Match
      PROVE  serving' = n
  BY <1>5 DEF Match
<1>6. ASSUME ServeNextAffected, n = Head(stall_affected[node])
      PROVE  serving' = n
  BY <1>6 DEF ServeNextAffected
<1>7. ASSUME SysReset
      PROVE  FALSE
  BY <1>7 DEF SysReset, Reset
<1>8. ASSUME Untouched(n)
      PROVE  serving' = n \/ Waiting(n)'
  BY <1>8 DEF Untouched, FitsIsTried, HasCapacity
<1> QED
  BY <1>1, <1>2, <1>3, <1>4, <1>5, <1>6, <1>7, <1>8, FreshNoExpiry, QueueSteps

LEMMA FitsIsTriedNext ==
  ASSUME Inv, Fresh, FitsIsTried, [Next]_vars
  PROVE  FitsIsTried'
BY FitsIsTriedStep DEF FitsIsTried, HasCapacity

LEMMA InitFresh == Init => Fresh /\ FitsIsTried
<1>1. 1..Len(<< >>) = {}
  OBVIOUS
<1> QED
  BY <1>1 DEF Init, TableInit, Fresh, FitsIsTried

LEMMA TriedIsReason ==
  ASSUME Inv, AffectedOK, FitsIsTried
  PROVE  StoredForReason
<1> SUFFICES ASSUME MutexFree, NEW n \in Address, CanDequeue(n)
             PROVE  FALSE
  BY DEF StoredForReason
<1>1. serving # n
  BY AddressAssumption DEF Inv, TypeOK
<1>2. PICK s \in Address : n \in Members(stall_affected[s])
  BY <1>1 DEF FitsIsTried, CanDequeue, Waiting
<1>3. stall_affected[s] \in Seq(Address)
  BY DEF Inv, TypeOK, TableTypeOK
<1>4. PICK i \in 1..Len(stall_affected[s]) : stall_affected[s][i] = n
  BY <1>2, <1>3 DEF Members
<1>5. s \in Supernodes(n)
  BY <1>4 DEF AffectedOK
<1>6. stall_affected[s] # << >>
  BY <1>3, <1>4
<1>7. stall[s]
  BY <1>6 DEF AffectedOK, MutexFree
<1> QED
  BY <1>5, <1>7 DEF CanDequeue, StallReady, StalledAbove

(* When every request is answered in time, a message stays stored only      *)
(* while its node is stalled or owes too many bytes for it: every release   *)
(* and every answer tries what it may have freed.                           *)
THEOREM OnlyStoredForReason ==
  ASSUME "late" \notin Faults
  PROVE  Spec => []StoredForReason
<1> DEFINE SInv == Inv /\ AffectedOK /\ Fresh /\ FitsIsTried
<1>1. Init => SInv
  BY InitInv, InitAffected, InitFresh
<1>2. SInv /\ [Next]_vars => SInv'
  BY NextInv, AffectedStep, FreshStep, FitsIsTriedNext
<1>3. SInv => StoredForReason
  BY TriedIsReason
<1> HIDE DEF SInv
<1> QED
  BY <1>1, <1>2, <1>3, PTL DEF Spec

----------------------------------------------------------------------------
(* The response queue and what the node has still to answer, type by type;  *)
(* while state_update is looking at the queue the answer it has got is that *)
(* to the oldest request, and it stands before the place where it matches.  *)
SameTypes(q, ow) ==
  /\ Len(q) = Len(ow)
  /\ \A i \in 1..Len(ow) : q[i].type = ow[i]

Booked(n) ==
  IF Updating /\ node = n
  THEN /\ SameTypes(Tail(response_queue[n]), owed[n])
       /\ \E i \in 1..Len(HeadAnswers) : at <= i /\ HeadAnswers[i] = got
  ELSE SameTypes(response_queue[n], owed[n])

AllBooked == \A n \in Address : Booked(n)

LEMMA SameTypesAppend ==
  ASSUME NEW q \in Seq(Response), NEW ow \in Seq(Type), SameTypes(q, ow),
         NEW r \in Response
  PROVE  SameTypes(Append(q, r), Append(ow, r.type))
<1> DEFINE Q == Append(q, r)
           O == Append(ow, r.type)
           l == Len(q)
<1>1. r.type \in Type
  BY DEF Response
<1>2. /\ l \in Nat /\ Len(ow) = l /\ Len(Q) = l + 1 /\ Len(O) = l + 1
      /\ Q[l + 1] = r /\ O[l + 1] = r.type
      /\ \A i \in 1..l : Q[i] = q[i] /\ O[i] = ow[i] /\ q[i].type = ow[i]
  BY <1>1 DEF SameTypes
<1> HIDE DEF Q, O, l
<1>3. \A i \in 1..(l + 1) : i \in 1..l \/ i = l + 1
  BY <1>2
<1> QED
  BY <1>2, <1>3 DEF SameTypes, Q, O

LEMMA SameTypesTail ==
  ASSUME NEW q \in Seq(Response), NEW ow \in Seq(Type), SameTypes(q, ow), ow # << >>
  PROVE  /\ q # << >> /\ Head(q).type = Head(ow)
         /\ SameTypes(Tail(q), Tail(ow))
<1> DEFINE Q == Tail(q)
           O == Tail(ow)
           l == Len(q)
<1>1. /\ l \in Nat \ {0} /\ Len(ow) = l /\ Len(Q) = l - 1 /\ Len(O) = l - 1
      /\ Head(q) = q[1] /\ Head(ow) = ow[1] /\ q # << >>
  BY DEF SameTypes
<1>2. \A i \in 1..l : q[i].type = ow[i]
  BY <1>1 DEF SameTypes
<1>3. \A i \in 1..(l - 1) : Q[i] = q[i + 1] /\ O[i] = ow[i + 1] /\ i + 1 \in 1..l
  BY <1>1
<1>4. 1 \in 1..l
  BY <1>1
<1> HIDE DEF Q, O, l
<1> QED
  BY <1>1, <1>2, <1>3, <1>4 DEF SameTypes, Q, O

(* A message that reaches its node is booked when it has an answer.         *)
LEMMA ArriveBooked ==
  ASSUME TypeOK, NEW n \in Address, NEW m \in Message, SameTypes(response_queue[n], owed[n]),
         AddResponse(n, m.type), Arrive(n, m)
  PROVE  /\ SameTypes(response_queue'[n], owed'[n])
         /\ \A k \in Address : k # n => /\ response_queue'[k] = response_queue[k]
                                       /\ owed'[k] = owed[k]
<1>0. m.type \in Type /\ response_queue[n] \in Seq(Response) /\ owed[n] \in Seq(Type)
  BY DEF TypeOK, TableTypeOK, Message
<1>1. CASE MaxResponse[m.type] > 0
  <2> DEFINE r == [type |-> m.type, old |-> FALSE]
  <2>1. /\ response_queue' = [response_queue EXCEPT ![n] = Append(@, r)]
        /\ owed' = [owed EXCEPT ![n] = Append(@, m.type)]
    BY <1>1 DEF AddResponse, Arrive
  <2>2. r \in Response /\ r.type = m.type
    BY <1>0 DEF Response
  <2>3. SameTypes(Append(response_queue[n], r), Append(owed[n], m.type))
    BY <1>0, <2>2, SameTypesAppend
  <2> QED
    BY <2>1, <2>3 DEF TypeOK, TableTypeOK
<1>2. CASE ~(MaxResponse[m.type] > 0)
  BY <1>2 DEF AddResponse, Arrive
<1> QED
  BY <1>1, <1>2

LEMMA BookedStep ==
  ASSUME Faults = {}, Inv, Fresh, AllBooked, [Next]_vars
  PROVE  AllBooked'
<1>0. TypeOK /\ LocalsOK
  BY DEF Inv
<1>a. ~Updating => \A n \in Address : SameTypes(response_queue[n], owed[n])
  BY DEF AllBooked, Booked
<1>b. ASSUME ~Updating', \A n \in Address : SameTypes(response_queue'[n], owed'[n])
      PROVE  AllBooked'
  BY <1>b DEF AllBooked, Booked
<1>1. ASSUME NEW n \in Address, NEW t \in Type, SendAtOnce(n, t)
      PROVE  AllBooked'
  <2> DEFINE m == Numbered(n, t)
  <2>1. /\ AddResponse(n, m.type) /\ Arrive(n, m) /\ m \in Message
        /\ ~Updating /\ ~Updating'
    BY <1>0, <1>1, NumberedType DEF SendAtOnce, SendNow, MutexFree, Updating, locals
  <2>2. SameTypes(response_queue[n], owed[n])
    BY <1>a, <2>1
  <2> QED
    BY <1>0, <1>a, <1>b, <2>1, <2>2, ArriveBooked
<1>2. CASE SendStored
  <2> DEFINE m == Head(message_queue[serving])
  <2>1. /\ serving \in Address /\ message_queue[serving] # << >>
        /\ AddResponse(serving, m.type) /\ Arrive(serving, m)
        /\ ~Updating /\ ~Updating'
    BY <1>0, <1>2
    DEF SendStored, Dequeue, CanDequeue, Updating, locals, TypeOK, TableTypeOK
  <2>2. m \in Message
    BY <1>0, <2>1, HeadTyped
  <2>3. SameTypes(response_queue[serving], owed[serving])
    BY <1>a, <2>1
  <2> QED
    BY <1>0, <1>a, <1>b, <2>1, <2>2, <2>3, ArriveBooked
<1>3. CASE Match /\ UNCHANGED bus
  <2>1. /\ Updating /\ node \in Address /\ PopResponse(node) /\ ~Updating'
    BY <1>0, <1>3, AddressAssumption DEF Match, Updating, LocalsOK
  <2>2. /\ response_queue'[node] = Tail(response_queue[node])
        /\ \A k \in Address : k # node => response_queue'[k] = response_queue[k]
    BY <1>0, <2>1 DEF PopResponse, TypeOK, TableTypeOK
  <2>3. \A n \in Address : SameTypes(response_queue'[n], owed'[n])
    BY <1>3, <2>1, <2>2 DEF AllBooked, Booked, bus
  <2> QED
    BY <1>b, <2>1, <2>3
<1>4. CASE Skip /\ UNCHANGED bus
  <2>1. /\ Updating /\ node \in Address /\ at \in Nat /\ HeadAnswers[at] # got /\ at' = at + 1
        /\ UNCHANGED <<response_queue, owed, fn, node, got, serving>>
    BY <1>0, <1>4 DEF Skip, Updating, LocalsOK, Matches, table, bus
  <2>2. Updating' /\ HeadAnswers' = HeadAnswers
    BY <2>1 DEF Updating, HeadAnswers, HeadResponse
  <2>3. PICK i \in 1..Len(HeadAnswers) : at <= i /\ HeadAnswers[i] = got
    BY <2>1 DEF AllBooked, Booked
  <2>4. at + 1 <= i
    BY <2>1, <2>3
  <2>5. \E j \in 1..Len(HeadAnswers') : at' <= j /\ HeadAnswers'[j] = got'
    BY <2>1, <2>2, <2>3, <2>4
  <2> QED
    BY <2>1, <2>2, <2>5 DEF AllBooked, Booked
<1>5. ASSUME EndUpdate
      PROVE  FALSE
  <2>1. Updating /\ node \in Address /\ at > Len(HeadAnswers) /\ at \in Nat
    BY <1>0, <1>5 DEF EndUpdate, Updating, LocalsOK
  <2>2. PICK i \in 1..Len(HeadAnswers) : at <= i
    BY <2>1 DEF AllBooked, Booked
  <2>3. Head(response_queue[node]).type \in Type
    <3>1. response_queue[node] \in Seq(Response) /\ response_queue[node] # << >>
      BY <1>0, <2>1 DEF TypeOK, TableTypeOK, LocalsOK
    <3>2. Head(response_queue[node]) \in Response
      BY <3>1
    <3> QED
      BY <3>2 DEF Response
  <2>4. Len(HeadAnswers) \in Nat
    <3>1. HeadAnswers \in Seq(Uplink)
      BY <2>3, TypeAssumption DEF HeadAnswers, HeadResponse
    <3> QED
      BY <3>1
  <2> QED
    BY <2>1, <2>2, <2>4
<1>6. ASSUME NEW n \in Address, Answer(n)
      PROVE  AllBooked'
  <2> DEFINE q == response_queue[n]
             ow == owed[n]
  <2>1. PICK i \in 1..Len(Answers[Head(ow)]) : Hear(n, Answers[Head(ow)][i])
    BY <1>6 DEF Answer
  <2>2. /\ ow # << >> /\ owed' = [owed EXCEPT ![n] = Tail(@)]
        /\ MutexFree
    BY <1>6 DEF Answer, Hear, BeginUpdate
  <2>3. ~Updating /\ SameTypes(q, ow)
    BY <1>a, <2>2 DEF Updating, MutexFree
  <2>4. q # << >> /\ Head(q).type = Head(ow) /\ SameTypes(Tail(q), Tail(ow))
    <3>1. q \in Seq(Response) /\ ow \in Seq(Type)
      BY <1>0 DEF TypeOK, TableTypeOK
    <3> QED
      BY <3>1, <2>2, <2>3, SameTypesTail
  <2>5. /\ fn' = "state_update" /\ node' = n /\ at' = 1
        /\ got' = Answers[Head(ow)][i]
        /\ response_queue' = response_queue /\ serving' = serving
    BY <2>1, <2>4 DEF Hear, BeginUpdate, table
  <2>6. serving = NoNode
    BY <1>0, <2>2 DEF TypeOK
  <2>7. Updating' /\ HeadAnswers' = Answers[Head(ow)]
    BY <2>4, <2>5, <2>6 DEF Updating, HeadAnswers, HeadResponse
  <2>8. /\ owed'[n] = Tail(ow)
        /\ \A k \in Address : k # n => owed'[k] = owed[k]
    BY <1>0, <2>2 DEF TypeOK
  <2>9. Booked(n)'
    <3>1. 1 <= i
      OBVIOUS
    <3> QED
      BY <3>1, <2>4, <2>5, <2>7, <2>8 DEF Booked
  <2>10. \A k \in Address : k # n => Booked(k)'
    BY <1>a, <2>3, <2>5, <2>8 DEF Booked
  <2> QED
    BY <2>9, <2>10 DEF AllBooked
<1>7. CASE SysReset
  <2>1. /\ \A n \in Address : response_queue'[n] = << >> /\ owed'[n] = << >>
        /\ ~Updating'
    BY <1>7 DEF SysReset, Reset, MutexFree, Updating, locals
  <2>2. Len(<< >>) = 0 /\ 1..0 = {}
    OBVIOUS
  <2> QED
    BY <1>b, <2>1, <2>2 DEF SameTypes
<1>8. CASE ~Updating /\ ~Updating' /\ UNCHANGED <<response_queue, owed>>
  BY <1>a, <1>b, <1>8
<1>9. CASE UNCHANGED <<table, locals, bus>>
  BY <1>9 DEF AllBooked, Booked, Updating, HeadAnswers, HeadResponse, table, locals, bus
<1>10. CASE Step
  <2>1. CASE EndServing
    BY <1>8, <1>10, <2>1 DEF Step, EndServing, Return, Updating, bus
  <2>2. CASE ServeNextAffected
    <3>1. ~Updating /\ ~Updating'
      BY <2>2 DEF ServeNextAffected, Releasing, Updating
    <3> QED
      BY <1>8, <1>10, <2>2, <3>1 DEF Step, ServeNextAffected, bus
  <2>3. CASE EndStallOff
    <3>1. ~Updating /\ ~Updating'
      BY <2>3 DEF EndStallOff, Releasing, Updating, Return
    <3> QED
      BY <1>8, <1>10, <2>3, <3>1 DEF Step, EndStallOff, table, bus
  <2> QED
    BY <1>3, <1>4, <1>5, <1>10, <2>1, <2>2, <2>3, FreshNoExpiry DEF Step
<1>11. ASSUME NEW n \in Address, \/ Busy(n) \/ Ready(n)
                                 \/ \E t \in Type : SendLater(n, t)
       PROVE  AllBooked'
  <2>1. ~Updating /\ ~Updating' /\ UNCHANGED <<response_queue, owed>>
    BY <1>11 DEF Busy, Ready, StallOn, StallOff, SendLater, Store, MutexFree, Updating,
                 locals, bus
  <2> QED
    BY <1>8, <2>1
<1>12. [Next]_vars =>
         \/ \E n \in Address : \/ \E t \in Type : SendAtOnce(n, t) \/ SendLater(n, t)
                               \/ Answer(n) \/ Busy(n) \/ Ready(n)
         \/ SendStored \/ Step \/ SysReset \/ UNCHANGED <<table, locals, bus>>
  BY DEF Next, Send, LoseAnswer, Unasked, TimePasses, vars
<1> QED
  BY <1>1, <1>2, <1>6, <1>7, <1>9, <1>10, <1>11, <1>12

LEMMA InitBooked == Init => AllBooked
<1>1. Len(<< >>) = 0 /\ 1..0 = {}
  OBVIOUS
<1> QED
  BY <1>1 DEF Init, TableInit, LocalsInit, AllBooked, Booked, Updating, SameTypes

(* On a bus without faults the response queue lists, in order, what each    *)
(* node has still to answer: no answer is booked on another request.        *)
THEOREM QueueMirrorsNode ==
  ASSUME Faults = {}
  PROVE  Spec => []Mirror
<1> DEFINE MInv == Inv /\ Fresh /\ AllBooked
<1>1. Init => MInv
  BY InitInv, InitFresh, InitBooked
<1>2. MInv /\ [Next]_vars => MInv'
  BY NextInv, FreshStep, BookedStep
<1>3. MInv => Mirror
  BY DEF AllBooked, Booked, Mirror, SameTypes, Updating, MutexFree
<1> HIDE DEF MInv
<1> QED
  BY <1>1, <1>2, <1>3, PTL DEF Spec
=============================================================================

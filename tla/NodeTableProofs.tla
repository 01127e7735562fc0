--------------------------- MODULE NodeTableProofs ---------------------------
(****************************************************************************)
(* What the operations of the node state table keep, for every set of       *)
(* addresses, every table of answers and every response_limit, whoever      *)
(* calls them in whatever order.                                            *)
(****************************************************************************)
EXTENDS NodeTable, TLAPS

(* Where the loops of state_update and update_stall stand: the node they    *)
(* work on is a node of the table, and state_update only looks at a         *)
(* response queue that is not empty.                                        *)
LocalsOK ==
  /\ fn = "none" => node = NoNode /\ serving = NoNode
  /\ fn # "none" => node \in Address
  /\ Updating => response_queue[node] # << >> /\ at \in Nat \ {0}

(* The types are inductive only together with the account: response_bytes   *)
(* stays within 0..response_limit because it is the sum of the awaited      *)
(* answers.                                                                 *)
TableInv == TableTypeOK /\ LocalsOK /\ BudgetExact

----------------------------------------------------------------------------
LEMMA EmptyIsLenZero ==
  ASSUME NEW S, NEW q \in Seq(S)
  PROVE  q = << >> <=> Len(q) = 0
OBVIOUS

LEMMA TailNonEmpty ==
  ASSUME NEW S, NEW q \in Seq(S), q # << >>, Len(q) # 1
  PROVE  Tail(q) # << >>
<1>1. Len(q) \in Nat /\ Len(q) # 0 /\ Len(Tail(q)) = Len(q) - 1
  OBVIOUS
<1>2. Len(Tail(q)) # 0
  BY <1>1
<1>3. Len(<< >>) = 0
  OBVIOUS
<1> QED
  BY <1>2, <1>3

(* Nothing awaited is nothing booked.                                       *)
LEMMA TotalsEmpty == Totals(<< >>, 0)
<1> DEFINE sum == [i \in {0} |-> 0]
<1>1. Len(<< >>) = 0 /\ 0..0 = {0} /\ 1..0 = {}
  OBVIOUS
<1>2. sum \in [0..0 -> 0..0] /\ sum[0] = 0
  BY <1>1
<1>3. \A i \in 0..0 : \A j \in 0..i : sum[j] <= sum[i]
  BY <1>1, <1>2
<1> HIDE DEF sum
<1> QED
  BY <1>1, <1>2, <1>3 DEF Totals

(* Booking one more answer adds its size to the total.                      *)
LEMMA TotalsAppend ==
  ASSUME NEW q \in Seq(Response), NEW total \in Nat, Totals(q, total),
         NEW r \in Response
  PROVE  Totals(Append(q, r), total + MaxResponse[r.type])
<1> DEFINE m == MaxResponse[r.type]
           n == Len(q)
           Q == Append(q, r)
<1>1. m \in Nat /\ n \in Nat /\ Q \in Seq(Response) /\ Len(Q) = n + 1
  BY TypeAssumption DEF Response
<1>2. PICK sum \in [0..n -> 0..total] :
        /\ sum[0] = 0
        /\ sum[n] = total
        /\ \A i \in 1..n : sum[i] = sum[i - 1] + MaxResponse[q[i].type]
        /\ \A i \in 0..n : \A j \in 0..i : sum[j] <= sum[i]
  BY DEF Totals
<1> DEFINE new == [i \in 0..(n + 1) |-> IF i <= n THEN sum[i] ELSE total + m]
<1> HIDE DEF m
<1>3. \A i \in 0..n : sum[i] \in 0..total
  BY <1>2
<1>4. new \in [0..(n + 1) -> 0..(total + m)]
  BY <1>1, <1>3
<1>5. new[0] = 0 /\ new[n + 1] = total + m
  BY <1>1, <1>2
<1>6. ASSUME NEW i \in 1..(n + 1)
      PROVE  new[i] = new[i - 1] + MaxResponse[Q[i].type]
  <2>1. CASE i <= n
    <3>1. Q[i] = q[i] /\ i \in 1..n
      BY <1>1, <2>1
    <3>2. new[i] = sum[i] /\ new[i - 1] = sum[i - 1]
      BY <1>1, <2>1
    <3> QED
      BY <3>1, <3>2, <1>2
  <2>2. CASE i = n + 1
    <3>1. Q[i] = r
      BY <1>1, <2>2
    <3>2. new[i] = total + m /\ new[i - 1] = sum[n]
      BY <1>1, <2>2
    <3> QED
      BY <3>1, <3>2, <1>2 DEF m
  <2>3. i <= n \/ i = n + 1
    BY <1>1
  <2> HIDE DEF new, n, Q
  <2> QED
    BY <2>1, <2>2, <2>3
<1>7. ASSUME NEW i \in 0..(n + 1), NEW j \in 0..i
      PROVE  new[j] <= new[i]
  BY <1>1, <1>2, <1>3
<1> HIDE DEF new
<1> QED
  BY <1>1, <1>4, <1>5, <1>6, <1>7 DEF Totals, m

(* Taking the oldest answer off the queue takes its size off the total.     *)
LEMMA TotalsTail ==
  ASSUME NEW q \in Seq(Response), NEW total \in Nat, Totals(q, total), q # << >>
  PROVE  /\ total - MaxResponse[Head(q).type] \in 0..total
         /\ Totals(Tail(q), total - MaxResponse[Head(q).type])
<1> DEFINE m == MaxResponse[Head(q).type]
           n == Len(q)
           Q == Tail(q)
<1>1. n \in Nat \ {0} /\ q[1] = Head(q) /\ Q \in Seq(Response) /\ Len(Q) = n - 1
  OBVIOUS
<1>b. \A i \in 1..n : q[i] \in Response /\ MaxResponse[q[i].type] \in Nat
  <2> SUFFICES ASSUME NEW i \in 1..n
               PROVE  q[i] \in Response /\ MaxResponse[q[i].type] \in Nat
    OBVIOUS
  <2>1. q[i] \in Response
    OBVIOUS
  <2>2. q[i].type \in Type
    BY <2>1 DEF Response
  <2> QED
    BY <2>1, <2>2, TypeAssumption
<1>a. m \in Nat
  BY <1>1, <1>b
<1>2. PICK sum \in [0..n -> 0..total] :
        /\ sum[0] = 0
        /\ sum[n] = total
        /\ \A i \in 1..n : sum[i] = sum[i - 1] + MaxResponse[q[i].type]
        /\ \A i \in 0..n : \A j \in 0..i : sum[j] <= sum[i]
  BY DEF Totals
<1>3. \A i \in 0..n : sum[i] \in 0..total
  BY <1>2
<1>4. sum[1] = m
  BY <1>1, <1>2, <1>a
<1> HIDE DEF m
<1>5. \A i \in 1..n : sum[i] - m \in 0..(total - m)
  BY <1>1, <1>2, <1>3, <1>4
<1> DEFINE new == [i \in 0..(n - 1) |-> sum[i + 1] - m]
<1>6. total - m \in 0..total
  BY <1>1, <1>2, <1>3, <1>4, <1>a
<1>7. new \in [0..(n - 1) -> 0..(total - m)]
  BY <1>1, <1>5
<1>8. new[0] = 0 /\ new[n - 1] = total - m
  BY <1>1, <1>2, <1>4, <1>a
<1>9. ASSUME NEW i \in 1..(n - 1)
      PROVE  new[i] = new[i - 1] + MaxResponse[Q[i].type]
  <2>1. Q[i] = q[i + 1] /\ i + 1 \in 1..n
    BY <1>1
  <2>2. new[i] = sum[i + 1] - m /\ new[i - 1] = sum[i] - m
    BY <1>1
  <2>3. sum[i + 1] = sum[i] + MaxResponse[q[i + 1].type]
    BY <2>1, <1>2
  <2>4. sum[i] \in Nat /\ MaxResponse[q[i + 1].type] \in Nat
    BY <2>1, <1>3, <1>1, <1>b
  <2> QED
    BY <2>1, <2>2, <2>3, <2>4, <1>a
<1>10. ASSUME NEW i \in 0..(n - 1), NEW j \in 0..i
       PROVE  new[j] <= new[i]
  <2>1. new[i] = sum[i + 1] - m /\ new[j] = sum[j + 1] - m
    BY <1>1
  <2>2. i + 1 \in 0..n /\ j + 1 \in 0..(i + 1)
    BY <1>1
  <2>3. sum[j + 1] <= sum[i + 1] /\ sum[i + 1] \in Nat /\ sum[j + 1] \in Nat
    BY <2>2, <1>1, <1>2, <1>3
  <2> QED
    BY <2>1, <2>3, <1>a
<1> HIDE DEF new
<1> QED
  BY <1>1, <1>6, <1>7, <1>8, <1>9, <1>10 DEF Totals, m

----------------------------------------------------------------------------
(* A walk over at most three supernodes that meets a stalled one stops at   *)
(* one of them.                                                             *)
LEMMA NearestStalledIsStalled ==
  ASSUME NEW n \in Address, ~StallReady(n)
  PROVE  NearestStalled(n) \in StalledAbove(n)
<1> DEFINE Deepest(s) == \A t \in StalledAbove(n) : Len(t) <= Len(s)
<1>1. StalledAbove(n) # {}
  BY DEF StallReady
<1>2. \A s \in StalledAbove(n) : Len(s) \in Nat /\ Len(s) <= 3
  BY AddressAssumption DEF StalledAbove, Supernodes
<1>3. \E s \in StalledAbove(n) : Deepest(s)
  <2>1. CASE \E s \in StalledAbove(n) : Len(s) = 3
    BY <2>1, <1>2
  <2>2. CASE /\ ~\E s \in StalledAbove(n) : Len(s) = 3
             /\ \E s \in StalledAbove(n) : Len(s) = 2
    BY <2>2, <1>2
  <2>3. CASE /\ ~\E s \in StalledAbove(n) : Len(s) = 3
             /\ ~\E s \in StalledAbove(n) : Len(s) = 2
    <3>1. \A s \in StalledAbove(n) : Len(s) \in 1..Len(n)
      BY DEF StalledAbove, Supernodes
    <3>2. Len(n) \in Nat /\ Len(n) <= 3
      BY AddressAssumption
    <3>3. ASSUME NEW s \in StalledAbove(n)
          PROVE  Len(s) = 1
      <4>1. Len(s) # 3 /\ Len(s) # 2
        BY <2>3
      <4> DEFINE k == Len(s)
                 l == Len(n)
      <4>2. k # 3 /\ k # 2 /\ k \in 1..l /\ l \in Nat /\ l <= 3
        BY <4>1, <3>1, <3>2
      <4> HIDE DEF k, l
      <4>3. k = 1
        BY <4>2
      <4> QED
        BY <4>3 DEF k
    <3> QED
      BY <1>1, <3>3
  <2> QED
    BY <2>1, <2>2, <2>3
<1> QED
  BY <1>3 DEF NearestStalled

(* Registering a node keeps the queues of waiting nodes well typed.         *)
LEMMA AwaitReleaseType ==
  ASSUME TableTypeOK, NEW n \in Address, AwaitRelease(n)
  PROVE  stall_affected' \in [Address -> Seq(Address)]
BY DEF TableTypeOK, AwaitRelease

(* A message that fits keeps the account exact and within the limit.        *)
LEMMA AddResponseKeeps ==
  ASSUME TableTypeOK, BudgetExact, NEW n \in Address, NEW t \in Type,
         HasCapacity(n, t), AddResponse(n, t)
  PROVE  /\ response_queue' \in [Address -> Seq(Response)]
         /\ response_bytes' \in [Address -> 0..response_limit]
         /\ BudgetExact'
<1>0. MaxResponse[t] \in Nat
  BY TypeAssumption
<1>1. CASE MaxResponse[t] = 0
  <2>1. UNCHANGED <<response_bytes, response_queue>>
    BY <1>1 DEF AddResponse
  <2>2. BudgetExact'
    BY <2>1 DEF BudgetExact
  <2> QED
    BY <2>1, <2>2 DEF TableTypeOK
<1>2. CASE MaxResponse[t] > 0
  <2> DEFINE r == [type |-> t, old |-> FALSE]
  <2>1. /\ response_bytes' = [response_bytes EXCEPT ![n] = @ + MaxResponse[t]]
        /\ response_queue' = [response_queue EXCEPT ![n] = Append(@, r)]
    BY <1>2 DEF AddResponse
  <2>2. r \in Response /\ r.type = t
    BY DEF Response
  <2>3. /\ response_queue[n] \in Seq(Response)
        /\ response_bytes[n] \in 0..response_limit
        /\ response_bytes[n] + MaxResponse[t] \in 0..response_limit
    <3>1. response_queue[n] \in Seq(Response) /\ response_bytes[n] \in 0..response_limit
      BY DEF TableTypeOK
    <3>2. response_bytes[n] + MaxResponse[t] <= response_limit
      BY DEF HasCapacity
    <3> QED
      BY <3>1, <3>2, <1>0
  <2>4. Totals(response_queue'[n], response_bytes'[n])
    <3>1. Totals(response_queue[n], response_bytes[n])
      BY DEF BudgetExact
    <3>2. response_bytes[n] \in Nat
      BY <2>3
    <3>3. Totals(Append(response_queue[n], r), response_bytes[n] + MaxResponse[r.type])
      BY <3>1, <3>2, <2>2, <2>3, TotalsAppend
    <3> QED
      BY <3>3, <2>1, <2>2 DEF TableTypeOK
  <2>5. \A k \in Address : k # n => /\ response_queue'[k] = response_queue[k]
                                   /\ response_bytes'[k] = response_bytes[k]
    BY <2>1 DEF TableTypeOK
  <2>6. BudgetExact'
    BY <2>4, <2>5 DEF BudgetExact
  <2> QED
    BY <2>1, <2>2, <2>3, <2>6 DEF TableTypeOK
<1> QED
  BY <1>0, <1>1, <1>2

(* So does taking a request off the queue, answered or expired.             *)
LEMMA PopResponseKeeps ==
  ASSUME TableTypeOK, BudgetExact, NEW n \in Address, response_queue[n] # << >>,
         PopResponse(n)
  PROVE  /\ response_queue' \in [Address -> Seq(Response)]
         /\ response_bytes' \in [Address -> 0..response_limit]
         /\ BudgetExact'
<1> DEFINE q == response_queue[n]
           b == response_bytes[n]
           m == MaxResponse[Head(response_queue[n]).type]
<1>1. q \in Seq(Response) /\ b \in 0..response_limit /\ Totals(q, b)
  BY DEF TableTypeOK, BudgetExact
<1>2. b - m \in 0..b /\ Totals(Tail(q), b - m)
  BY <1>1, TotalsTail
<1>3. response_queue' = [response_queue EXCEPT ![n] = Tail(q)]
  BY DEF PopResponse
<1>4. response_bytes' = [response_bytes EXCEPT ![n] = b - m]
  BY DEF PopResponse
<1>5. b - m \in 0..response_limit /\ Tail(q) \in Seq(Response)
  <2>1. Tail(q) \in Seq(Response)
    BY <1>1
  <2> HIDE DEF b, m
  <2>2. b - m \in 0..response_limit
    BY <1>1, <1>2, TypeAssumption
  <2> QED
    BY <2>1, <2>2
<1>6. Totals(response_queue'[n], response_bytes'[n])
  BY <1>2, <1>3, <1>4 DEF TableTypeOK
<1>7. \A k \in Address : k # n => /\ response_queue'[k] = response_queue[k]
                                 /\ response_bytes'[k] = response_bytes[k]
  BY <1>3, <1>4 DEF TableTypeOK
<1>8. BudgetExact'
  BY <1>6, <1>7 DEF BudgetExact
<1> QED
  BY <1>3, <1>4, <1>5, <1>8 DEF TableTypeOK

----------------------------------------------------------------------------
(* The operations, one by one.                                              *)
LEMMA NextSeqnumType == \A s \in Seqnum : NextSeqnum(s) \in Seqnum
BY SeqnumAssumption DEF NextSeqnum, Seqnum

LEMMA TakeSeqnumType ==
  ASSUME TableTypeOK, NEW n \in Address, TakeSeqnum(n)
  PROVE  send_seqnum' \in [Address -> Seqnum]
BY NextSeqnumType DEF TableTypeOK, TakeSeqnum

LEMMA InitTable == TableInit /\ LocalsInit => TableInv
<1> SUFFICES ASSUME TableInit, LocalsInit PROVE TableInv
  OBVIOUS
<1>1. TableTypeOK
  BY TypeAssumption, SeqnumAssumption DEF TableInit, LocalsInit, TableTypeOK, Seqnum
<1>2. LocalsOK
  BY DEF LocalsInit, LocalsOK, Updating
<1>3. BudgetExact
  BY TotalsEmpty DEF TableInit, BudgetExact
<1> QED
  BY <1>1, <1>2, <1>3 DEF TableInv

LEMMA NumberTable ==
  ASSUME TableInv, NEW n \in Address, TakeSeqnum(n),
         UNCHANGED <<stall, stall_affected, response_queue, response_bytes, message_queue, locals>>
  PROVE  TableInv'
<1>0. TableTypeOK /\ LocalsOK /\ BudgetExact
  BY DEF TableInv
<1>1. send_seqnum' \in [Address -> Seqnum]
  BY <1>0, TakeSeqnumType
<1>2. TableTypeOK'
  BY <1>0, <1>1 DEF TableTypeOK, locals
<1>3. LocalsOK' /\ BudgetExact'
  BY <1>0 DEF LocalsOK, Updating, BudgetExact, locals
<1> QED
  BY <1>2, <1>3 DEF TableInv

LEMMA SendNowTable ==
  ASSUME TableInv, NEW n \in Address, NEW m \in Message, SendNow(n, m),
         send_seqnum' \in [Address -> Seqnum]
  PROVE  TableInv'
<1>0. TableTypeOK /\ LocalsOK /\ BudgetExact /\ m.type \in Type
  BY DEF TableInv, Message
<1>1. /\ HasCapacity(n, m.type) /\ AddResponse(n, m.type)
      /\ UNCHANGED <<stall, stall_affected, message_queue, locals>>
      /\ MutexFree
  BY DEF SendNow
<1>2. /\ response_queue' \in [Address -> Seq(Response)]
      /\ response_bytes' \in [Address -> 0..response_limit]
      /\ BudgetExact'
  BY <1>0, <1>1, AddResponseKeeps
<1>3. TableTypeOK'
  BY <1>0, <1>1, <1>2 DEF TableTypeOK, locals
<1>4. LocalsOK'
  BY <1>0, <1>1 DEF LocalsOK, Updating, locals, MutexFree
<1> QED
  BY <1>2, <1>3, <1>4 DEF TableInv

LEMMA StoreTable ==
  ASSUME TableInv, NEW n \in Address, NEW m \in Message, Store(n, m),
         send_seqnum' \in [Address -> Seqnum]
  PROVE  TableInv'
<1>0. TableTypeOK /\ LocalsOK /\ BudgetExact
  BY DEF TableInv
<1>1. /\ message_queue' = [message_queue EXCEPT ![n] = Append(@, m)]
      /\ UNCHANGED <<stall, response_queue, response_bytes, locals>>
      /\ MutexFree /\ AwaitRelease(n)
  BY DEF Store
<1>2. stall_affected' \in [Address -> Seq(Address)]
  BY <1>0, <1>1, AwaitReleaseType
<1>3. message_queue' \in [Address -> Seq(Message)]
  BY <1>0, <1>1 DEF TableTypeOK
<1>4. TableTypeOK'
  BY <1>0, <1>1, <1>2, <1>3 DEF TableTypeOK, locals
<1>5. LocalsOK' /\ BudgetExact'
  BY <1>0, <1>1 DEF LocalsOK, Updating, BudgetExact, locals, MutexFree
<1> QED
  BY <1>4, <1>5 DEF TableInv

LEMMA DequeueTable ==
  ASSUME TableInv, Dequeue
  PROVE  /\ TableInv'
         /\ serving \in Address /\ message_queue[serving] # << >>
         /\ Head(message_queue[serving]) \in Message
<1> DEFINE q == message_queue[serving]
           m == Head(message_queue[serving])
<1>0. TableTypeOK /\ LocalsOK /\ BudgetExact
  BY DEF TableInv
<1>1. /\ serving # NoNode /\ q # << >> /\ HasCapacity(serving, m.type)
      /\ AddResponse(serving, m.type)
      /\ message_queue' = [message_queue EXCEPT ![serving] = Tail(@)]
      /\ UNCHANGED <<stall, stall_affected, send_seqnum, locals>>
  BY DEF Dequeue, CanDequeue
<1>2. serving \in Address /\ q \in Seq(Message)
  BY <1>0, <1>1 DEF TableTypeOK
<1>3. m \in Message /\ m.type \in Type /\ Tail(q) \in Seq(Message)
  <2>1. m \in Message /\ Tail(q) \in Seq(Message)
    BY <1>1, <1>2
  <2> QED
    BY <2>1 DEF Message
<1>4. /\ response_queue' \in [Address -> Seq(Response)]
      /\ response_bytes' \in [Address -> 0..response_limit]
      /\ BudgetExact'
  BY <1>0, <1>1, <1>2, <1>3, AddResponseKeeps
<1>5. message_queue' \in [Address -> Seq(Message)]
  BY <1>0, <1>1, <1>3 DEF TableTypeOK
<1>6. TableTypeOK'
  BY <1>0, <1>1, <1>4, <1>5 DEF TableTypeOK, locals
<1>7. LocalsOK'
  BY <1>0, <1>1 DEF LocalsOK, Updating, locals
<1> QED
  BY <1>1, <1>2, <1>3, <1>4, <1>6, <1>7 DEF TableInv

LEMMA MatchTable ==
  ASSUME TableInv, Match
  PROVE  TableInv'
<1>0. TableTypeOK /\ LocalsOK /\ BudgetExact
  BY DEF TableInv
<1>1. /\ node \in Address /\ response_queue[node] # << >> /\ PopResponse(node)
      /\ serving' = node /\ fn = "state_update"
      /\ UNCHANGED <<stall, stall_affected, message_queue, send_seqnum, fn, node, got, at>>
  BY <1>0 DEF Match, LocalsOK, Updating
<1>2. /\ response_queue' \in [Address -> Seq(Response)]
      /\ response_bytes' \in [Address -> 0..response_limit]
      /\ BudgetExact'
  BY <1>0, <1>1, PopResponseKeeps
<1>3. TableTypeOK'
  BY <1>0, <1>1, <1>2 DEF TableTypeOK
<1>4. LocalsOK'
  BY <1>0, <1>1, AddressAssumption DEF LocalsOK, Updating
<1> QED
  BY <1>2, <1>3, <1>4 DEF TableInv

LEMMA ExpireTable ==
  ASSUME TableInv, Expire
  PROVE  TableInv'
<1>0. TableTypeOK /\ LocalsOK /\ BudgetExact
  BY DEF TableInv
<1>1. /\ node \in Address /\ response_queue[node] # << >> /\ PopResponse(node)
      /\ at \in Nat \ {0} /\ serving = NoNode
      /\ UNCHANGED <<stall, stall_affected, message_queue, send_seqnum, serving>>
  BY <1>0 DEF Expire, LocalsOK, Updating
<1>2. /\ response_queue' \in [Address -> Seq(Response)]
      /\ response_bytes' \in [Address -> 0..response_limit]
      /\ BudgetExact'
  BY <1>0, <1>1, PopResponseKeeps
<1>3. \/ Return
      \/ /\ Len(response_queue[node]) # 1
         /\ at' = at + 1 /\ UNCHANGED <<fn, node, got>>
  BY DEF Expire
<1>4. TableTypeOK'
  BY <1>0, <1>1, <1>2, <1>3 DEF TableTypeOK, Return
<1>5. LocalsOK'
  <2>1. CASE Return
    BY <1>1, <2>1 DEF LocalsOK, Updating, Return
  <2>2. CASE /\ Len(response_queue[node]) # 1
             /\ at' = at + 1 /\ UNCHANGED <<fn, node, got>>
    <3>1. response_queue[node] \in Seq(Response)
      BY <1>0, <1>1 DEF TableTypeOK
    <3>2. response_queue'[node] = Tail(response_queue[node])
      BY <1>0, <1>1 DEF PopResponse, TableTypeOK
    <3>3. Tail(response_queue[node]) # << >>
      BY <3>1, <1>1, <2>2, TailNonEmpty
    <3> QED
      BY <1>0, <1>1, <2>2, <3>2, <3>3 DEF LocalsOK, Updating
  <2> QED
    BY <1>3, <2>1, <2>2
<1> QED
  BY <1>2, <1>4, <1>5 DEF TableInv

LEMMA EndServingTable ==
  ASSUME TableInv, EndServing
  PROVE  TableInv'
<1>0. TableTypeOK /\ LocalsOK /\ BudgetExact
  BY DEF TableInv
<1>1. /\ serving \in Address /\ AwaitRelease(serving) /\ serving' = NoNode
      /\ UNCHANGED <<stall, response_queue, response_bytes, message_queue, send_seqnum>>
  BY <1>0 DEF EndServing, TableTypeOK
<1>2. \/ Return
      \/ fn # "state_update" /\ UNCHANGED <<fn, node, got, at>>
  BY DEF EndServing
<1>3. stall_affected' \in [Address -> Seq(Address)]
  BY <1>0, <1>1, AwaitReleaseType
<1>4. TableTypeOK'
  BY <1>0, <1>1, <1>2, <1>3 DEF Return, TableTypeOK
<1>5. LocalsOK'
  BY <1>0, <1>1, <1>2 DEF Return, LocalsOK, Updating, EndServing
<1>6. BudgetExact'
  BY <1>0, <1>1 DEF BudgetExact
<1> QED
  BY <1>4, <1>5, <1>6 DEF TableInv

LEMMA ServeNextAffectedTable ==
  ASSUME TableInv, ServeNextAffected
  PROVE  TableInv'
<1>0. TableTypeOK /\ LocalsOK /\ BudgetExact
  BY DEF TableInv
<1>1. /\ node \in Address /\ fn = "update_stall" /\ serving = NoNode
      /\ stall_affected[node] # << >>
      /\ serving' = Head(stall_affected[node])
      /\ stall_affected' = [stall_affected EXCEPT ![node] = Tail(@)]
      /\ UNCHANGED <<stall, response_queue, response_bytes, message_queue, send_seqnum,
                     fn, node, got, at>>
  BY <1>0 DEF ServeNextAffected, Releasing, LocalsOK
<1>2. stall_affected[node] \in Seq(Address)
  BY <1>0, <1>1 DEF TableTypeOK
<1>3. Head(stall_affected[node]) \in Address /\ Tail(stall_affected[node]) \in Seq(Address)
  BY <1>1, <1>2
<1>4. TableTypeOK'
  BY <1>0, <1>1, <1>3 DEF TableTypeOK
<1>5. LocalsOK' /\ BudgetExact'
  BY <1>0, <1>1 DEF LocalsOK, Updating, BudgetExact
<1> QED
  BY <1>4, <1>5 DEF TableInv

LEMMA AgeTable ==
  ASSUME TableInv, NEW n \in Address, Age(n)
  PROVE  TableInv'
<1>0. TableTypeOK /\ LocalsOK /\ BudgetExact
  BY DEF TableInv
<1>1. PICK i \in 1..Len(response_queue[n]) :
        response_queue' = [response_queue EXCEPT ![n][i].old = TRUE]
  BY DEF Age
<1>2. /\ MutexFree
      /\ UNCHANGED <<stall, stall_affected, response_bytes, message_queue, send_seqnum, locals>>
  BY DEF Age
<1> DEFINE q == response_queue[n]
           Q == response_queue'[n]
<1>3. q \in Seq(Response)
  BY <1>0 DEF TableTypeOK
<1>4. Q = [q EXCEPT ![i].old = TRUE]
  BY <1>0, <1>1 DEF TableTypeOK
<1>5. q[i] \in Response /\ [q[i] EXCEPT !.old = TRUE] \in Response
  <2>1. q[i] \in Response
    BY <1>3
  <2> QED
    BY <2>1 DEF Response
<1>6. Q \in Seq(Response) /\ Len(Q) = Len(q)
  BY <1>3, <1>4, <1>5
<1>7. \A j \in 1..Len(q) : Q[j].type = q[j].type
  <2> SUFFICES ASSUME NEW j \in 1..Len(q)
               PROVE  Q[j].type = q[j].type
    OBVIOUS
  <2>1. CASE j = i
    <3>1. Q[i] = [q[i] EXCEPT !.old = TRUE]
      BY <1>3, <1>4
    <3> QED
      BY <2>1, <3>1, <1>5 DEF Response
  <2>2. CASE j # i
    BY <2>2, <1>3, <1>4
  <2> QED
    BY <2>1, <2>2
<1>8. \A k \in Address : k # n => response_queue'[k] = response_queue[k]
  BY <1>0, <1>1 DEF TableTypeOK
<1>9. response_queue' \in [Address -> Seq(Response)]
  <2>1. response_queue' = [response_queue EXCEPT ![n] = Q]
    BY <1>0, <1>1 DEF TableTypeOK
  <2> QED
    BY <1>0, <1>6, <2>1 DEF TableTypeOK
<1>10. BudgetExact'
  <2>1. Totals(q, response_bytes[n])
    BY <1>0 DEF BudgetExact
  <2>2. Totals(Q, response_bytes[n])
    <3> HIDE DEF q, Q
    <3> QED
      BY <1>6, <1>7, <2>1 DEF Totals
  <2> QED
    BY <1>0, <1>2, <1>8, <2>2 DEF BudgetExact
<1>11. TableTypeOK'
  BY <1>0, <1>2, <1>9 DEF TableTypeOK, locals
<1>12. LocalsOK'
  BY <1>0, <1>2 DEF LocalsOK, Updating, locals, MutexFree
<1> QED
  BY <1>10, <1>11, <1>12 DEF TableInv

LEMMA ResetTable ==
  ASSUME TableInv, Reset
  PROVE  TableInv'
<1>0. MutexFree /\ TableTypeOK /\ LocalsOK /\ UNCHANGED locals
  BY DEF Reset, TableInv
<1>1. /\ response_queue' = [n \in Address |-> << >>]
      /\ response_bytes' = [n \in Address |-> 0]
  BY DEF Reset
<1>2. TableTypeOK'
  BY <1>0, TypeAssumption, SeqnumAssumption DEF Reset, TableTypeOK, Seqnum, locals
<1>3. LocalsOK'
  BY <1>0 DEF LocalsOK, Updating, locals, MutexFree
<1>4. BudgetExact'
  BY <1>1, TotalsEmpty DEF BudgetExact
<1> QED
  BY <1>2, <1>3, <1>4 DEF TableInv

(* The operations that leave queues and numbers alone.                      *)
LEMMA StillTable ==
  ASSUME TableInv,
         \/ Skip \/ EndUpdate \/ EndStallOff
         \/ \E n \in Address : \/ StallOn(n) \/ StallOff(n)
                               \/ \E u \in Uplink : BeginUpdate(n, u)
         \/ UNCHANGED <<table, locals>>
  PROVE  TableInv'
<1>0. TableTypeOK /\ LocalsOK /\ BudgetExact
  BY DEF TableInv
<1>1. CASE Skip
  BY <1>0, <1>1 DEF Skip, TableInv, TableTypeOK, LocalsOK, Updating, BudgetExact, table
<1>2. CASE EndUpdate \/ EndStallOff
  <2>1. Return /\ UNCHANGED <<table, serving>> /\ serving = NoNode
    BY <1>2 DEF EndUpdate, EndStallOff, Updating, Releasing
  <2> QED
    BY <1>0, <2>1 DEF Return, TableInv, TableTypeOK, LocalsOK, Updating, BudgetExact, table
<1>3. ASSUME NEW n \in Address, StallOn(n) \/ StallOff(n)
      PROVE  TableInv'
  <2>1. TableTypeOK'
    BY <1>0, <1>3 DEF StallOn, StallOff, TableTypeOK, locals
  <2>2. LocalsOK' /\ BudgetExact'
    BY <1>0, <1>3 DEF StallOn, StallOff, LocalsOK, Updating, BudgetExact, locals, MutexFree
  <2> QED
    BY <2>1, <2>2 DEF TableInv
<1>4. ASSUME NEW n \in Address, NEW u \in Uplink, BeginUpdate(n, u)
      PROVE  TableInv'
  <2>1. TableTypeOK'
    BY <1>0, <1>4 DEF BeginUpdate, TableTypeOK, table
  <2>2. LocalsOK' /\ BudgetExact'
    BY <1>0, <1>4 DEF BeginUpdate, LocalsOK, Updating, BudgetExact, table, MutexFree
  <2> QED
    BY <2>1, <2>2 DEF TableInv
<1>5. CASE UNCHANGED <<table, locals>>
  BY <1>0, <1>5 DEF TableInv, TableTypeOK, LocalsOK, Updating, BudgetExact, table, locals
<1> QED
  BY <1>1, <1>2, <1>3, <1>4, <1>5
=============================================================================

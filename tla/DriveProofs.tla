----------------------------- MODULE DriveProofs ------------------------------
(****************************************************************************)
(* Proofs about Drive, for any threads, calls, low-level messages and uses  *)
(* of the hand control.  The idea: what the library stores, brought up to   *)
(* date with the message it is about to book or with the uses of the hand   *)
(* control it has not heard of, is what the station will have got to after  *)
(* the messages on the line.  Both ways lead to the same view of the train. *)
(****************************************************************************)
EXTENDS Drive, SequenceTheorems, TLAPS

(* A view of the train, of its configured functions, and what a message     *)
(* makes of it.                                                             *)
Stored == [step |-> train.step, forward |-> train.forward, on |-> train.on]

Output == [step |-> DccToLib(station.speed, station.forward),
           forward |-> station.forward, on |-> station.on \cap Bit]

After(v, m) ==
  [step    |-> IF m.active = {} THEN 0
               ELSE IF "speed" \in m.active THEN DccToLib(m.speed, m.forward) ELSE v.step,
   forward |-> m.active = {} \/ (IF "speed" \in m.active THEN m.forward ELSE v.forward),
   on      |-> AfterMessage(v.on, m) \cap Bit]

(* A message that stops the train, which should not turn it round.          *)
IsStop(m) == "speed" \in m.active /\ m.speed = 0

\* No message of a low-level call or of the hand control does.
NoLowStop == \A m \in DriveMessage : ~IsStop(m)

\* Stands for an acknowledgement: an active part that is none.
NoEffect == Message({"none"}, 0, TRUE, {})

(* The messages of q lead from view v to view e; a tail of them that has no *)
(* effect does so alone, and no stop turns the train round.                 *)
Path(st, v, q, e) ==
  /\ st[0] = v /\ st[Len(q)] = e
  /\ \A i \in 1..Len(q) : st[i] = After(st[i - 1], q[i])
  /\ \A j \in 0..Len(q) :
       (\A k \in (j + 1)..Len(q) : q[k] = NoEffect) => st[j] = e
  /\ \A i \in 1..Len(q) :
       NoLowStop /\ IsStop(q[i]) => q[i].forward = st[i - 1].forward

Leads(v, q, e) == \E st : Path(st, v, q, e)

\* What the messages of an uplink queue do.
Effect(x) == IF x.type = "MSG_CS_DRIVE_MANUAL" THEN x.msg ELSE NoEffect
Unheard(q) == [i \in 1..Len(q) |-> Effect(q[i])]

Working == Command \cup {NoEffect}

----------------------------------------------------------------------------
LEMMA NoEffectKeeps ==
  ASSUME NEW st, NEW f \in BOOLEAN, NEW on \in SUBSET Bit
  PROVE  After([step |-> st, forward |-> f, on |-> on], NoEffect)
           = [step |-> st, forward |-> f, on |-> on]
<1>1. NoEffect.active = {"none"} /\ "speed" # "none" /\ NoEffect.fn = {}
  BY DEF NoEffect, Message
<1>2. BitsOf("none") = {}
  BY DEF BitsOf
<1>3. Touched(NoEffect) = {}
  BY <1>1, <1>2 DEF Touched
<1>4. AfterMessage(on, NoEffect) = on
  BY <1>1, <1>3 DEF AfterMessage
<1> QED
  BY <1>1, <1>4 DEF After

LEMMA LeadsNowhere ==
  ASSUME NEW v
  PROVE  /\ Leads(v, << >>, v)
         /\ \A e : Leads(v, << >>, e) => e = v
<1>1. Len(<< >>) = 0 /\ 1..0 = {} /\ 0..0 = {0}
  OBVIOUS
<1>2. \A e : Leads(v, << >>, e) => e = v
  BY <1>1 DEF Leads, Path
<1>3. Leads(v, << >>, v)
  <2> DEFINE st == [i \in {0} |-> v]
  <2>1. st[0] = v
    OBVIOUS
  <2> HIDE DEF st
  <2> QED
    BY <1>1, <2>1 DEF Leads, Path
<1> QED
  BY <1>2, <1>3

LEMMA LeadsAppend ==
  ASSUME NEW q \in Seq(Working), NEW v, NEW e, Leads(v, q, e), NEW m \in Working,
         m = NoEffect => After(e, m) = e,
         NoLowStop /\ IsStop(m) => m.forward = e.forward
  PROVE  Leads(v, Append(q, m), After(e, m))
<1> DEFINE l == Len(q)
           Q == Append(q, m)
<1>1. /\ l \in Nat /\ Len(Q) = l + 1 /\ Q[l + 1] = m
      /\ \A i \in 1..l : Q[i] = q[i]
  OBVIOUS
<1>2. PICK st :
        /\ st[0] = v /\ st[l] = e
        /\ \A i \in 1..l : st[i] = After(st[i - 1], q[i])
        /\ \A j \in 0..l : (\A k \in (j + 1)..l : q[k] = NoEffect) => st[j] = e
        /\ \A i \in 1..l : NoLowStop /\ IsStop(q[i]) => q[i].forward = st[i - 1].forward
  BY DEF Leads, Path
<1> HIDE DEF Q, l
<1> DEFINE new == [i \in 0..(l + 1) |-> IF i = l + 1 THEN After(e, m) ELSE st[i]]
<1>3. /\ new[l + 1] = After(e, m) /\ \A i \in 0..l : new[i] = st[i]
  BY <1>1
<1> HIDE DEF new
<1>4. ASSUME NEW i \in 1..(l + 1)
      PROVE  /\ new[i] = After(new[i - 1], Q[i])
             /\ NoLowStop /\ IsStop(Q[i]) => Q[i].forward = new[i - 1].forward
  <2>1. CASE i = l + 1
    <3>1. i - 1 = l /\ l \in 0..l
      BY <2>1, <1>1
    <3>2. new[i - 1] = e /\ Q[i] = m /\ new[i] = After(e, m)
      BY <2>1, <3>1, <1>1, <1>2, <1>3
    <3> QED
      BY <3>2
  <2>2. CASE i # l + 1
    <3>1. i \in 1..l /\ i \in 0..l /\ i - 1 \in 0..l
      BY <2>2, <1>1
    <3>2. new[i] = st[i] /\ new[i - 1] = st[i - 1] /\ Q[i] = q[i]
      BY <3>1, <1>1, <1>3
    <3> QED
      BY <3>1, <3>2, <1>2
  <2> QED
    BY <2>1, <2>2
<1>5. ASSUME NEW j \in 0..(l + 1), \A k \in (j + 1)..(l + 1) : Q[k] = NoEffect
      PROVE  new[j] = After(e, m)
  <2>1. CASE j = l + 1
    BY <2>1, <1>3
  <2>2. CASE j # l + 1
    <3>1. j \in 0..l /\ l + 1 \in (j + 1)..(l + 1)
      BY <2>2, <1>1
    <3>2. m = NoEffect
      BY <3>1, <1>1, <1>5
    <3>3. \A k \in (j + 1)..l : k \in (j + 1)..(l + 1) /\ k \in 1..l
      BY <3>1, <1>1
    <3>4. \A k \in (j + 1)..l : q[k] = NoEffect
      BY <3>3, <1>1, <1>5
    <3>5. st[j] = e
      BY <3>1, <3>4, <1>2
    <3> QED
      BY <3>1, <3>2, <3>5, <1>3
  <2> QED
    BY <2>1, <2>2
<1>6. new[0] = v
  BY <1>1, <1>2, <1>3
<1>7. Path(new, v, Q, After(e, m))
  BY <1>1, <1>3, <1>4, <1>5, <1>6 DEF Path
<1> QED
  BY <1>7 DEF Leads, Q

LEMMA LeadsTail ==
  ASSUME NEW q \in Seq(Working), q # << >>, NEW v, NEW e, Leads(v, q, e)
  PROVE  /\ Leads(After(v, Head(q)), Tail(q), e)
         /\ NoLowStop /\ IsStop(Head(q)) => Head(q).forward = v.forward
<1> DEFINE l == Len(q)
           Q == Tail(q)
<1>1. /\ l \in Nat \ {0} /\ Len(Q) = l - 1 /\ Head(q) = q[1]
      /\ \A i \in 1..(l - 1) : Q[i] = q[i + 1]
  OBVIOUS
<1>2. PICK st :
        /\ st[0] = v /\ st[l] = e
        /\ \A i \in 1..l : st[i] = After(st[i - 1], q[i])
        /\ \A j \in 0..l : (\A k \in (j + 1)..l : q[k] = NoEffect) => st[j] = e
        /\ \A i \in 1..l : NoLowStop /\ IsStop(q[i]) => q[i].forward = st[i - 1].forward
  BY DEF Leads, Path
<1> HIDE DEF Q, l
<1> DEFINE new == [i \in 0..(l - 1) |-> st[i + 1]]
<1>3. \A i \in 0..(l - 1) : new[i] = st[i + 1]
  OBVIOUS
<1> HIDE DEF new
<1>4. 1 \in 1..l /\ 1 - 1 = 0 /\ 0 + 1 = 1 /\ 0 \in 0..(l - 1) /\ l - 1 \in 0..(l - 1) /\ (l - 1) + 1 = l
  BY <1>1
<1>5. st[1] = After(v, q[1]) /\ (NoLowStop /\ IsStop(q[1]) => q[1].forward = v.forward)
  BY <1>2, <1>4
<1>6. new[0] = After(v, q[1]) /\ new[l - 1] = e
  BY <1>2, <1>3, <1>4, <1>5
<1>7. ASSUME NEW i \in 1..(l - 1)
      PROVE  /\ new[i] = After(new[i - 1], Q[i])
             /\ NoLowStop /\ IsStop(Q[i]) => Q[i].forward = new[i - 1].forward
  <2>1. /\ i \in 0..(l - 1) /\ i - 1 \in 0..(l - 1) /\ i + 1 \in 1..l
        /\ (i - 1) + 1 = i /\ (i + 1) - 1 = i
    BY <1>1
  <2>2. new[i] = st[i + 1] /\ new[i - 1] = st[i] /\ Q[i] = q[i + 1]
    BY <2>1, <1>1, <1>3
  <2> QED
    BY <2>1, <2>2, <1>2
<1>8. ASSUME NEW j \in 0..(l - 1), \A k \in (j + 1)..(l - 1) : Q[k] = NoEffect
      PROVE  new[j] = e
  <2>1. j + 1 \in 0..l
    BY <1>1
  <2>2. ASSUME NEW k \in ((j + 1) + 1)..l
        PROVE  q[k] = NoEffect
    <3>1. k - 1 \in (j + 1)..(l - 1) /\ k - 1 \in 1..(l - 1) /\ (k - 1) + 1 = k
      BY <1>1
    <3> QED
      BY <3>1, <1>1, <1>8
  <2> QED
    BY <2>1, <2>2, <1>2, <1>3
<1>9. Path(new, After(v, q[1]), Q, e)
  BY <1>1, <1>6, <1>7, <1>8 DEF Path
<1>10. Leads(After(v, q[1]), Q, e)
  BY <1>9 DEF Leads
<1> QED
  BY <1>1, <1>5, <1>10 DEF Q

(* Acknowledgements alone leave the view as it is.                          *)
LEMMA LeadsStill ==
  ASSUME NEW q \in Seq(Working), NEW v, NEW e, Leads(v, q, e),
         \A k \in 1..Len(q) : q[k] = NoEffect
  PROVE  v = e
<1>1. Len(q) \in Nat /\ 0 + 1 = 1 /\ 0 \in 0..Len(q)
  OBVIOUS
<1> QED
  BY <1>1 DEF Leads, Path

----------------------------------------------------------------------------
(* Typing, and what the operations make of the two views.                   *)

LEMMA EffectType == \A x \in UplinkMessage : Effect(x) \in Working
BY DEF UplinkMessage, Effect, Working

LEMMA UnheardType ==
  ASSUME NEW q \in Seq(UplinkMessage)
  PROVE  /\ Unheard(q) \in Seq(Working) /\ Len(Unheard(q)) = Len(q)
         /\ Unheard(q) = << >> <=> q = << >>
<1>1. Len(q) \in Nat /\ \A i \in 1..Len(q) : q[i] \in UplinkMessage
  OBVIOUS
<1>2. Unheard(q) \in [1..Len(q) -> Working]
  BY <1>1, EffectType DEF Unheard
<1>3. Unheard(q) \in Seq(Working) /\ Len(Unheard(q)) = Len(q)
  BY <1>1, <1>2
<1> QED
  BY <1>3

LEMMA UnheardAppend ==
  ASSUME NEW q \in Seq(UplinkMessage), NEW x \in UplinkMessage
  PROVE  Unheard(Append(q, x)) = Append(Unheard(q), Effect(x))
<1> DEFINE l == Len(q)
           Q == Append(q, x)
           U == Unheard(q)
           V == Append(U, Effect(x))
<1>1. /\ l \in Nat /\ Len(Q) = l + 1 /\ Q[l + 1] = x /\ \A i \in 1..l : Q[i] = q[i]
      /\ Q \in Seq(UplinkMessage)
  OBVIOUS
<1>2. U \in Seq(Working) /\ Len(U) = l /\ Effect(x) \in Working
  BY UnheardType, EffectType
<1>3. /\ V \in Seq(Working) /\ Len(V) = l + 1 /\ V[l + 1] = Effect(x)
      /\ \A i \in 1..l : V[i] = U[i]
  BY <1>1, <1>2
<1>4. \A i \in 1..l : U[i] = Effect(q[i])
  BY DEF Unheard
<1>5. /\ Unheard(Q) \in Seq(Working) /\ Len(Unheard(Q)) = l + 1
      /\ \A i \in 1..(l + 1) : Unheard(Q)[i] = Effect(Q[i])
  BY <1>1, UnheardType DEF Unheard
<1> HIDE DEF l, Q, U, V
<1>6. \A i \in 1..(l + 1) : Unheard(Q)[i] = V[i]
  BY <1>1, <1>3, <1>4, <1>5
<1>7. Unheard(Q) = V
  BY <1>3, <1>5, <1>6, SeqEqual
<1> QED
  BY <1>7 DEF Q, U, V

LEMMA UnheardTail ==
  ASSUME NEW q \in Seq(UplinkMessage), q # << >>
  PROVE  /\ Unheard(Tail(q)) = Tail(Unheard(q))
         /\ Head(Unheard(q)) = Effect(Head(q))
         /\ Unheard(q) # << >>
<1> DEFINE l == Len(q)
           Q == Tail(q)
           U == Unheard(q)
           V == Tail(U)
<1>1. /\ l \in Nat \ {0} /\ Len(Q) = l - 1 /\ Head(q) = q[1]
      /\ \A i \in 1..(l - 1) : Q[i] = q[i + 1]
      /\ Q \in Seq(UplinkMessage)
  OBVIOUS
<1>2. U \in Seq(Working) /\ Len(U) = l /\ U # << >>
  BY UnheardType
<1>3. /\ V \in Seq(Working) /\ Len(V) = l - 1 /\ Head(U) = U[1]
      /\ \A i \in 1..(l - 1) : V[i] = U[i + 1]
  BY <1>1, <1>2
<1>4. \A i \in 1..l : U[i] = Effect(q[i])
  BY DEF Unheard
<1>5. /\ Unheard(Q) \in Seq(Working) /\ Len(Unheard(Q)) = l - 1
      /\ \A i \in 1..(l - 1) : Unheard(Q)[i] = Effect(Q[i])
  BY <1>1, UnheardType DEF Unheard
<1> HIDE DEF l, Q, U, V
<1>6. \A i \in 1..(l - 1) : Unheard(Q)[i] = V[i]
  <2> SUFFICES ASSUME NEW i \in 1..(l - 1)
               PROVE  Unheard(Q)[i] = V[i]
    OBVIOUS
  <2>1. i + 1 \in 1..l
    BY <1>1
  <2> QED
    BY <2>1, <1>1, <1>3, <1>4, <1>5
<1>7. Unheard(Q) = V
  BY <1>3, <1>5, <1>6, SeqEqual
<1>8. Head(U) = Effect(Head(q))
  BY <1>1, <1>3, <1>4
<1> QED
  BY <1>2, <1>7, <1>8 DEF Q, U, V

LEMMA SpeedType ==
  \A speed \in 0..127, forward \in BOOLEAN : DccToLib(speed, forward) \in -126..126
BY DEF DccToLib

LEMMA AfterMessageType ==
  ASSUME NEW on \in SUBSET (0..31), NEW m \in Command
  PROVE  AfterMessage(on, m) \subseteq 0..31
BY DEF AfterMessage, Command

(* Only the configured functions matter to what a message does to them.     *)
LEMMA AfterMessageBits ==
  ASSUME NEW on, NEW m
  PROVE  AfterMessage(on, m) \cap Bit = AfterMessage(on \cap Bit, m) \cap Bit
BY DEF AfterMessage

TrainType == [step : -126..126, forward : BOOLEAN, on : SUBSET (0..31),
              ack : {"pending", "accepted"}]
StationType == [speed : 0..127, forward : BOOLEAN, on : SUBSET (0..31)]

LEMMA UpdateView ==
  ASSUME NEW m \in Command, train \in TrainType, Update(m)
  PROVE  /\ train' \in TrainType /\ train'.on \subseteq Bit
         /\ Stored' = After(Stored, m)
         /\ train'.ack = IF m.active = {} THEN train.ack ELSE "pending"
<1>1. /\ m.speed \in 0..127 /\ m.forward \in BOOLEAN
      /\ train.step \in -126..126 /\ train.forward \in BOOLEAN /\ train.on \subseteq 0..31
      /\ train.ack \in {"pending", "accepted"}
  BY DEF Command, TrainType
<1>2. AfterMessage(train.on, m) \cap Bit \subseteq 0..31
  BY <1>1, AfterMessageType
<1>3. DccToLib(m.speed, m.forward) \in -126..126
  BY <1>1, SpeedType
<1>4. /\ train'.step = After(Stored, m).step
      /\ train'.forward = After(Stored, m).forward
      /\ train'.on = After(Stored, m).on
      /\ train'.on = AfterMessage(train.on, m) \cap Bit
      /\ train'.ack = IF m.active = {} THEN train.ack ELSE "pending"
  BY DEF Update, After, Stored
<1>5. train' \in TrainType
  BY <1>1, <1>2, <1>3 DEF Update, TrainType
<1> QED
  BY <1>4, <1>5 DEF Stored, After

LEMMA ExecuteView ==
  ASSUME NEW m \in Command, station \in StationType, station' = Execute(station, m)
  PROVE  /\ station' \in StationType
         /\ Output' = After(Output, m)
         /\ station'.on = AfterMessage(station.on, m)
<1>1. /\ m.speed \in 0..127 /\ m.forward \in BOOLEAN
      /\ station.speed \in 0..127 /\ station.forward \in BOOLEAN /\ station.on \subseteq 0..31
  BY DEF Command, StationType
<1>2. /\ station'.on = AfterMessage(station.on, m)
      /\ station'.on \subseteq 0..31
  BY <1>1, AfterMessageType DEF Execute
<1>3. station' \in StationType
  BY <1>1, <1>2 DEF Execute, StationType
<1>4. station'.on \cap Bit = AfterMessage(station.on \cap Bit, m) \cap Bit
  BY <1>2, AfterMessageBits
<1>5. DccToLib(0, TRUE) = 0
  BY DEF DccToLib
<1>6. Output'.step = After(Output, m).step
  <2>1. CASE m.active = {}
    BY <2>1, <1>5 DEF Execute, Output, After
  <2>2. CASE m.active # {} /\ "speed" \in m.active
    <3>1. station'.speed = m.speed /\ station'.forward = m.forward
      BY <2>2, <1>1 DEF Execute
    <3> QED
      BY <2>2, <3>1 DEF Output, After
  <2>3. CASE m.active # {} /\ "speed" \notin m.active
    <3>1. station'.speed = station.speed /\ station'.forward = station.forward
      BY <2>3, <1>1 DEF Execute
    <3> QED
      BY <2>3, <3>1 DEF Output, After
  <2> QED
    BY <2>1, <2>2, <2>3
<1>7. Output'.forward = After(Output, m).forward
  BY DEF Execute, Output, After
<1> QED
  BY <1>2, <1>3, <1>4, <1>6, <1>7 DEF Output, After

----------------------------------------------------------------------------
(* Typing.                                                                  *)

LEMMA PartBits ==
  /\ \A bit \in 0..31 : GroupOf(bit) \in Part
  /\ \A bit \in (0..31) \ (5..7) : bit \in BitsOf(GroupOf(bit))
  /\ \A bit \in 5..7 : bit \notin BitsOf(GroupOf(bit))
  /\ \A g \in Part : BitsOf(g) \subseteq (0..31) \ (5..7)
  /\ BitsOf("speed") = {}
<1>1. \A bit \in 0..31 : GroupOf(bit) \in Part
  BY DEF GroupOf, Part
<1>2. /\ BitsOf("F0_F4") = 0..4 /\ BitsOf("F5_F8") = 8..11 /\ BitsOf("F9_F12") = 12..15
      /\ BitsOf("F13_F20") = 16..23 /\ BitsOf("F21_F28") = 24..31 /\ BitsOf("speed") = {}
  BY DEF BitsOf
<1>3. \A bit \in (0..31) \ (5..7) : bit \in BitsOf(GroupOf(bit))
  <2> SUFFICES ASSUME NEW bit \in (0..31) \ (5..7)
               PROVE  bit \in BitsOf(GroupOf(bit))
    OBVIOUS
  <2>1. CASE bit \in 0..4
    BY <2>1, <1>2 DEF GroupOf
  <2>2. CASE bit \in 8..11
    BY <2>2, <1>2 DEF GroupOf
  <2>3. CASE bit \in 12..15
    BY <2>3, <1>2 DEF GroupOf
  <2>4. CASE bit \in 16..23
    BY <2>4, <1>2 DEF GroupOf
  <2>5. CASE bit \in 24..31
    BY <2>5, <1>2 DEF GroupOf
  <2> QED
    BY <2>1, <2>2, <2>3, <2>4, <2>5
<1>4. \A bit \in 5..7 : GroupOf(bit) = "F5_F8"
  BY DEF GroupOf
<1> QED
  BY <1>1, <1>2, <1>3, <1>4 DEF Part

(* A setter puts together a message that the types allow.                   *)
LEMMA SpeedMessage ==
  ASSUME NEW speed \in 0..127, NEW forward \in BOOLEAN
  PROVE  LET m == Message({"speed"}, speed, forward, {})
         IN  /\ m \in Command /\ Accepted(m) /\ m.active # {}
             /\ \A on : AfterMessage(on, m) = on
             /\ m.speed = speed /\ m.forward = forward
<1> DEFINE m == Message({"speed"}, speed, forward, {})
<1>1. /\ m.active = {"speed"} /\ m.fn = {} /\ m.speed = speed /\ m.forward = forward
      /\ m \in Command
  BY DEF Message, Command, Part
<1> HIDE DEF m
<1>2. Touched(m) = {}
  BY <1>1, PartBits DEF Touched
<1>3. Accepted(m) /\ \A on : AfterMessage(on, m) = on
  BY <1>1, <1>2 DEF Accepted, AfterMessage
<1> QED
  BY <1>1, <1>3 DEF m

LEMMA SpeedRange == \A step \in Step : LibToDcc(step) \in 0..127
BY DriveAssumption DEF LibToDcc

(* What it sets is what the caller wants and nothing else: the bits of the  *)
(* group that the library has stored as on are sent along.                  *)
LEMMA PeripheralMessage ==
  ASSUME train \in TrainType, NEW bit \in Bit, NEW on \in BOOLEAN
  PROVE  LET m == Message({GroupOf(bit)}, 0, FALSE, Bits(bit, on))
         IN  /\ m \in Command /\ m.active # {} /\ ~IsStop(m)
             /\ Accepted(m) => /\ on => bit \notin 5..7
                               /\ \A s : s \cap (5..7) = {} /\ s \cap Bit = train.on =>
                                    AfterMessage(s, m) \cap Bit
                                      = (IF on THEN s \cup {bit} ELSE s \ {bit}) \cap Bit
<1> DEFINE m == Message({GroupOf(bit)}, 0, FALSE, Bits(bit, on))
           g == BitsOf(GroupOf(bit))
<1>0. bit \in 0..31 /\ train.on \subseteq 0..31
  BY DriveAssumption DEF TrainType
<1>1. /\ m.active = {GroupOf(bit)} /\ m.fn = Bits(bit, on) /\ GroupOf(bit) \in Part
      /\ m.speed = 0 /\ m.forward = FALSE
  BY <1>0, PartBits DEF Message
<1>2. Bits(bit, on) = ((train.on \cap g) \ {bit}) \cup (IF on THEN {bit} ELSE {})
  BY DEF Bits
<1>3. Bits(bit, on) \subseteq 0..31
  BY <1>0, <1>2
<1>4. m \in Command
  BY <1>1, <1>3 DEF Message, Command
<1>5. Touched(m) = g
  BY <1>1 DEF Touched
<1>6. GroupOf(bit) # "speed"
  BY DEF GroupOf
<1> HIDE DEF m, g
<1>7. ASSUME Accepted(m), on
      PROVE  bit \notin 5..7
  BY <1>1, <1>2, <1>7 DEF Accepted
<1>8. ASSUME Accepted(m), NEW s, s \cap (5..7) = {}, s \cap Bit = train.on
      PROVE  AfterMessage(s, m) \cap Bit = (IF on THEN s \cup {bit} ELSE s \ {bit}) \cap Bit
  <2>1. AfterMessage(s, m) = (s \ g) \cup (m.fn \cap g)
    BY <1>1, <1>5 DEF AfterMessage
  <2>2. CASE bit \in g
    BY <2>1, <2>2, <1>1, <1>2, <1>8
  <2>3. CASE bit \notin g
    <3>1. bit \in 5..7
      BY <2>3, <1>0, PartBits DEF g
    <3>2. ~on
      BY <3>1, <1>7, <1>8
    <3> QED
      BY <2>1, <2>3, <3>1, <3>2, <1>1, <1>2, <1>8
  <2> QED
    BY <2>2, <2>3
<1>9. ~IsStop(m)
  BY <1>1, <1>6 DEF IsStop
<1> QED
  BY <1>1, <1>4, <1>7, <1>8, <1>9 DEF m

(* No command that counts sets a reserved bit.                              *)
NoReserved == wanted \cap (5..7) = {}

LEMMA Setters ==
  ASSUME TypeOK, NEW t \in Thread,
         SetTrainSpeed(t) \/ EmergencyStop(t) \/ SetTrainPeripheral(t)
  PROVE  \E m \in Command :
           /\ Begin(t, m) /\ m.active # {}
           /\ IsStop(m) => m.forward = train.forward
           /\ wanted' \subseteq 0..31
           /\ NoReserved => NoReserved'
           /\ NoReserved /\ wanted \cap Bit = train.on =>
                wanted' \cap Bit =
                  (IF Accepted(m) THEN AfterMessage(train.on, m) ELSE train.on) \cap Bit
<1>0. /\ train \in TrainType /\ train.forward \in BOOLEAN /\ train.on \subseteq Bit
      /\ wanted \subseteq 0..31
  BY DEF TypeOK, TrainType
<1>1. ASSUME NEW speed \in 0..127, NEW forward \in BOOLEAN,
             Begin(t, Message({"speed"}, speed, forward, {})), UNCHANGED wanted,
             speed = 0 => forward = train.forward
      PROVE  \E m \in Command :
           /\ Begin(t, m) /\ m.active # {}
           /\ IsStop(m) => m.forward = train.forward
           /\ wanted' \subseteq 0..31
           /\ NoReserved => NoReserved'
           /\ NoReserved /\ wanted \cap Bit = train.on =>
                wanted' \cap Bit =
                  (IF Accepted(m) THEN AfterMessage(train.on, m) ELSE train.on) \cap Bit
  <2> DEFINE m == Message({"speed"}, speed, forward, {})
  <2>1. /\ m \in Command /\ Accepted(m) /\ m.active # {}
        /\ \A on : AfterMessage(on, m) = on
        /\ m.speed = speed /\ m.forward = forward
    BY SpeedMessage
  <2>2. Begin(t, m)
    BY <1>1
  <2> HIDE DEF m
  <2>3. IsStop(m) => m.forward = train.forward
    BY <2>1, <1>1 DEF IsStop
  <2> QED
    BY <2>1, <2>2, <2>3, <1>0, <1>1 DEF NoReserved
<1>2. CASE SetTrainSpeed(t)
  <2>1. PICK step \in Step, forwards \in BOOLEAN :
          /\ Begin(t, Message({"speed"}, LibToDcc(step), Direction(step, forwards), {}))
          /\ UNCHANGED wanted
    BY <1>2 DEF SetTrainSpeed
  <2>2. Direction(step, forwards) \in BOOLEAN
    BY <1>0 DEF Direction
  <2>3. LibToDcc(step) \in 0..127 /\ (LibToDcc(step) = 0 => step = 0)
    BY SpeedRange, DriveAssumption DEF LibToDcc
  <2>4. LibToDcc(step) = 0 => Direction(step, forwards) = train.forward
    BY <2>3 DEF Direction
  <2> QED
    BY <2>1, <2>2, <2>3, <2>4, <1>1
<1>3. CASE EmergencyStop(t)
  <2>1. Begin(t, Message({"speed"}, 1, TRUE, {})) /\ UNCHANGED wanted
    BY <1>3 DEF EmergencyStop
  <2>2. 1 \in 0..127 /\ 1 # 0
    OBVIOUS
  <2> QED
    BY <2>1, <2>2, <1>1
<1>4. CASE SetTrainPeripheral(t)
  <2>1. PICK bit \in Bit, on \in BOOLEAN :
          LET m == Message({GroupOf(bit)}, 0, FALSE, Bits(bit, on)) IN
          /\ Begin(t, m)
          /\ wanted' = IF ~Accepted(m) THEN wanted
                       ELSE IF on THEN wanted \cup {bit} ELSE wanted \ {bit}
    BY <1>4 DEF SetTrainPeripheral
  <2> DEFINE m == Message({GroupOf(bit)}, 0, FALSE, Bits(bit, on))
  <2>2. /\ m \in Command /\ m.active # {} /\ ~IsStop(m)
        /\ Accepted(m) /\ on => bit \notin 5..7
        /\ Accepted(m) => \A s : s \cap (5..7) = {} /\ s \cap Bit = train.on =>
                            AfterMessage(s, m) \cap Bit
                              = (IF on THEN s \cup {bit} ELSE s \ {bit}) \cap Bit
    BY <1>0, PeripheralMessage
  <2>3. /\ Begin(t, m)
        /\ wanted' = IF ~Accepted(m) THEN wanted
                     ELSE IF on THEN wanted \cup {bit} ELSE wanted \ {bit}
    BY <2>1
  <2> HIDE DEF m
  <2>4. bit \in 0..31
    BY DriveAssumption
  <2>5. wanted' \subseteq 0..31
    BY <2>3, <2>4, <1>0
  <2>6. NoReserved => NoReserved'
    BY <2>2, <2>3 DEF NoReserved
  <2>7. ASSUME NoReserved, wanted \cap Bit = train.on
        PROVE  wanted' \cap Bit =
                 (IF Accepted(m) THEN AfterMessage(train.on, m) ELSE train.on) \cap Bit
    <3>1. train.on \cap (5..7) = {} /\ train.on \cap Bit = train.on
      BY <2>7, <1>0 DEF NoReserved
    <3>2. CASE Accepted(m)
      <4>1. AfterMessage(train.on, m) \cap Bit
              = (IF on THEN train.on \cup {bit} ELSE train.on \ {bit}) \cap Bit
        BY <3>1, <3>2, <2>2
      <4> QED
        BY <4>1, <3>2, <2>3, <2>7
    <3>3. CASE ~Accepted(m)
      BY <3>1, <3>3, <2>3, <2>7
    <3> QED
      BY <3>2, <3>3
  <2> QED
    BY <2>2, <2>3, <2>5, <2>6, <2>7
<1> QED
  BY <1>2, <1>3, <1>4

LEMMA InitType == Init => TypeOK
<1>1. NoMessage \in Command
  BY DEF NoMessage, Message, Command
<1> QED
  BY <1>1, DriveAssumption DEF Init, TypeOK

\* A low-level call or a use of the hand control.
LEMMA LowMessageType ==
  ASSUME NEW m \in DriveMessage
  PROVE  m \in Command
BY DriveAssumption

LEMMA HeardType ==
  ASSUME TypeOK, uplink # << >>
  PROVE  /\ Head(uplink) \in UplinkMessage /\ Tail(uplink) \in Seq(UplinkMessage)
         /\ Head(uplink).type = "MSG_CS_DRIVE_MANUAL" => Head(uplink).msg \in Command
<1>1. uplink \in Seq(UplinkMessage)
  BY DEF TypeOK
<1>2. Head(uplink) \in UplinkMessage /\ Tail(uplink) \in Seq(UplinkMessage)
  BY <1>1
<1> QED
  BY <1>2 DEF UplinkMessage

LEMMA TypeStep ==
  ASSUME TypeOK, [Next]_vars
  PROVE  TypeOK'
<1>0. /\ train \in TrainType /\ train.on \subseteq Bit /\ station \in StationType
      /\ wanted \subseteq 0..31 /\ NoThread \notin Thread
  BY DriveAssumption DEF TypeOK, TrainType, StationType
<1>1. ASSUME NEW t \in Thread,
             SetTrainSpeed(t) \/ EmergencyStop(t) \/ SetTrainPeripheral(t)
      PROVE  TypeOK'
  <2>1. PICK m \in Command : Begin(t, m) /\ wanted' \subseteq 0..31
    BY <1>1, Setters
  <2> QED
    BY <1>0, <2>1 DEF Begin, WriterFree, TypeOK
<1>2. ASSUME NEW t \in Thread, Buffer(t)
      PROVE  TypeOK'
  <2>1. line' \in Seq(Command)
    <3>1. line \in Seq(Command) /\ cmd[t] \in Command
      BY DEF TypeOK
    <3>2. line' = line \/ line' = Append(line, cmd[t])
      BY <1>2 DEF Buffer
    <3>3. Append(line, cmd[t]) \in Seq(Command)
      BY <3>1, AppendProperties
    <3> QED
      BY <3>1, <3>2, <3>3
  <2>2. CASE Accepted(cmd[t])
    BY <1>0, <1>2, <2>1, <2>2 DEF Buffer, TypeOK
  <2>3. CASE ~Accepted(cmd[t])
    BY <1>0, <1>2, <2>1, <2>3 DEF Buffer, TypeOK
  <2> QED
    BY <2>2, <2>3
<1>3. ASSUME NEW t \in Thread, UpdateAndReturn(t) \/ LowUpdate(t)
      PROVE  TypeOK'
  <2>1. cmd[t] \in Command /\ Update(cmd[t])
    BY <1>3 DEF UpdateAndReturn, LowUpdate, TypeOK
  <2>2. train' \in TrainType /\ train'.on \subseteq Bit
    BY <1>0, <2>1, UpdateView
  <2>3. CASE UpdateAndReturn(t)
    BY <1>0, <2>2, <2>3 DEF UpdateAndReturn, TypeOK, TrainType
  <2>4. CASE LowUpdate(t)
    BY <1>0, <2>2, <2>4 DEF LowUpdate, TypeOK, TrainType
  <2> QED
    BY <1>3, <2>3, <2>4
<1>4. ASSUME NEW t \in Thread, SendCsDrive(t)
      PROVE  TypeOK'
  <2>1. PICK m \in DriveMessage :
          /\ line' = Append(line, m)
          /\ cmd' = [cmd EXCEPT ![t] = m]
          /\ wanted' = AfterMessage(wanted, m)
    BY <1>4 DEF SendCsDrive
  <2>2. m \in Command /\ AfterMessage(wanted, m) \subseteq 0..31
    BY <1>0, LowMessageType, AfterMessageType
  <2>3. line' \in Seq(Command)
    BY <2>1, <2>2 DEF TypeOK
  <2> QED
    BY <1>0, <1>4, <2>1, <2>2, <2>3 DEF SendCsDrive, TypeOK
<1>5. CASE HandleAck
  <2>1. uplink' \in Seq(UplinkMessage)
    BY <1>5, HeardType DEF HandleAck, Hear
  <2>2. train' \in TrainType /\ train'.on \subseteq Bit
    BY <1>0, <1>5 DEF HandleAck, TrainType
  <2> QED
    BY <1>5, <2>1, <2>2 DEF HandleAck, TypeOK, TrainType
<1>6. CASE HandleManual
  <2>1. /\ uplink' \in Seq(UplinkMessage) /\ Head(uplink).msg \in Command
        /\ Update(Head(uplink).msg)
    BY <1>6, HeardType DEF HandleManual, Hear
  <2>2. train' \in TrainType /\ train'.on \subseteq Bit
    BY <1>0, <2>1, UpdateView
  <2> QED
    BY <1>6, <2>1, <2>2 DEF HandleManual, TypeOK, TrainType
<1>7. CASE StationExecutes
  <2>1. Head(line) \in Command /\ Tail(line) \in Seq(Command) /\ uplink \in Seq(UplinkMessage)
    BY <1>7 DEF StationExecutes, TypeOK
  <2>2. station' \in StationType
    BY <1>0, <1>7, <2>1, ExecuteView DEF StationExecutes
  <2>3. uplink' \in Seq(UplinkMessage)
    BY <1>7, <2>1 DEF StationExecutes, UplinkMessage
  <2> QED
    BY <1>7, <2>1, <2>2, <2>3 DEF StationExecutes, TypeOK, StationType, host
<1>8. CASE StationManual
  <2>1. PICK m \in DriveMessage :
          /\ station' = Execute(station, m)
          /\ uplink' = Append(uplink, [type |-> "MSG_CS_DRIVE_MANUAL", msg |-> m])
          /\ wanted' = AfterMessage(wanted, m)
    BY <1>8 DEF StationManual
  <2>2. m \in Command /\ AfterMessage(wanted, m) \subseteq 0..31
    BY <1>0, LowMessageType, AfterMessageType
  <2>3. station' \in StationType
    BY <1>0, <2>1, <2>2, ExecuteView
  <2>4. [type |-> "MSG_CS_DRIVE_MANUAL", msg |-> m] \in UplinkMessage
    BY <2>2 DEF UplinkMessage
  <2>5. uplink' \in Seq(UplinkMessage)
    BY <2>1, <2>4 DEF TypeOK
  <2>6. manuals' \in Nat /\ UNCHANGED <<host, line, calls>>
    BY <1>8 DEF StationManual, TypeOK
  <2> QED
    BY <2>1, <2>2, <2>3, <2>5, <2>6 DEF TypeOK, StationType, host
<1>9. CASE UNCHANGED vars
  BY <1>9 DEF TypeOK, vars, host
<1> QED
  BY <1>1, <1>2, <1>3, <1>4, <1>5, <1>6, <1>7, <1>8, <1>9 DEF Next, HighLevel, LowLevel

(* Every variable keeps its type, and the lock of the trains is held by the *)
(* setter between its first and its last step and by nobody else.           *)
THEOREM DriveTypeCorrect == Spec => []TypeOK
BY InitType, TypeStep, PTL DEF Spec

LEMMA ReservedStep ==
  ASSUME TypeOK, NoReserved, [Next]_vars
  PROVE  NoReserved'
<1>1. ASSUME NEW m \in Command
      PROVE  AfterMessage(wanted, m) \cap (5..7) = {}
  <2>1. \A g \in m.active : BitsOf(g) \cap (5..7) = {}
    BY PartBits DEF Command
  <2>2. Touched(m) \cap (5..7) = {}
    BY <2>1 DEF Touched
  <2> QED
    BY <2>2 DEF AfterMessage, NoReserved
<1>2. ASSUME NEW t \in Thread,
             SetTrainSpeed(t) \/ EmergencyStop(t) \/ SetTrainPeripheral(t)
      PROVE  NoReserved'
  BY <1>2, Setters
<1>3. ASSUME NEW t \in Thread, SendCsDrive(t)
      PROVE  NoReserved'
  BY <1>1, <1>3, LowMessageType DEF SendCsDrive, NoReserved
<1>4. CASE StationManual
  BY <1>1, <1>4, LowMessageType DEF StationManual, NoReserved
<1>5. CASE UNCHANGED wanted
  BY <1>5 DEF NoReserved
<1>6. [Next]_vars =>
        \/ \E t \in Thread : \/ SetTrainSpeed(t) \/ EmergencyStop(t) \/ SetTrainPeripheral(t)
                             \/ SendCsDrive(t)
        \/ StationManual
        \/ UNCHANGED wanted
  BY DEF Next, HighLevel, LowLevel, Buffer, UpdateAndReturn, LowUpdate, HandleAck,
         HandleManual, StationExecutes, vars
<1> QED
  BY <1>2, <1>3, <1>4, <1>5, <1>6

----------------------------------------------------------------------------
(* As long as nothing has crossed at most one call is under way, no use of  *)
(* the hand control is unheard while a command is, and both views lead to   *)
(* the view e.                                                              *)
Idle == \A t \in Thread : pc[t] = "idle"
OnlyBusy(t) == pc[t] # "idle" /\ \A u \in Thread \ {t} : pc[u] = "idle"

AtRest(e) ==
  /\ Idle
  /\ Leads(Stored, Unheard(uplink), e)
  /\ ManualUnheard => line = << >>
  /\ wanted \cap Bit = e.on

Buffering(t, e) ==
  /\ pc[t] = "buffer" /\ cmd[t].active # {}
  /\ Stored = e
  /\ wanted \cap Bit =
       (IF Accepted(cmd[t]) THEN AfterMessage(e.on, cmd[t]) ELSE e.on) \cap Bit
  /\ IsStop(cmd[t]) => cmd[t].forward = e.forward

Booking(t, e) ==
  /\ pc[t] \in {"update", "low_update"}
  /\ After(Stored, cmd[t]) = e
  /\ wanted \cap Bit = e.on

Course(e) ==
  /\ Leads(Output, line, e)
  /\ \/ AtRest(e)
     \/ /\ ~ManualUnheard
        /\ \E t \in Thread : OnlyBusy(t) /\ (Buffering(t, e) \/ Booking(t, e))

InStep == ~crossed => \E e : Course(e)

LEMMA StoredIsView ==
  ASSUME TypeOK
  PROVE  /\ After(Stored, NoEffect) = Stored
         /\ Stored.on = train.on /\ Stored.forward = train.forward
<1>1. train.forward \in BOOLEAN /\ train.on \subseteq Bit
  BY DEF TypeOK
<1> QED
  BY <1>1, NoEffectKeeps DEF Stored

LEMMA OutputIsView ==
  ASSUME TypeOK
  PROVE  After(Output, NoEffect) = Output
<1>1. station.forward \in BOOLEAN /\ station.on \cap Bit \subseteq Bit
  BY DEF TypeOK
<1> QED
  BY <1>1, NoEffectKeeps DEF Output

\* Without an unheard use of the hand control the uplink queue has no effect.
LEMMA NothingUnheard ==
  ASSUME TypeOK, ~ManualUnheard
  PROVE  /\ \A k \in 1..Len(Unheard(uplink)) : Unheard(uplink)[k] = NoEffect
         /\ Unheard(uplink) \in Seq(Working)
         /\ \A v, e : Leads(v, Unheard(uplink), e) => e = v
<1>1. uplink \in Seq(UplinkMessage)
  BY DEF TypeOK
<1>2. \A k \in 1..Len(uplink) : uplink[k].type # "MSG_CS_DRIVE_MANUAL"
  BY <1>1 DEF ManualUnheard
<1>3. Unheard(uplink) \in Seq(Working) /\ Len(Unheard(uplink)) = Len(uplink)
  BY <1>1, UnheardType
<1>4. \A k \in 1..Len(uplink) : Unheard(uplink)[k] = NoEffect
  BY <1>2 DEF Unheard, Effect
<1>5. \A v, e : Leads(v, Unheard(uplink), e) => e = v
  BY <1>3, <1>4, LeadsStill
<1> QED
  BY <1>3, <1>4, <1>5

LEMMA LineWorks ==
  ASSUME TypeOK
  PROVE  line \in Seq(Working)
<1>1. line \in Seq(Command)
  BY DEF TypeOK
<1> QED
  BY <1>1 DEF Working

LEMMA CommandIsNoNoEffect ==
  ASSUME NEW m \in Command
  PROVE  m \in Working /\ m # NoEffect
<1>1. "none" \notin Part /\ "none" \in NoEffect.active
  BY DEF Part, NoEffect, Message
<1> QED
  BY <1>1 DEF Command, Working

LEMMA LeadsInPlace ==
  ASSUME NEW q \in Seq(Working), NEW v, After(v, NoEffect) = v,
         \A k \in 1..Len(q) : q[k] = NoEffect
  PROVE  Leads(v, q, v)
<1> DEFINE l == Len(q)
           st == [i \in 0..l |-> v]
<1>1. l \in Nat
  OBVIOUS
<1>2. \A i \in 1..l : q[i] = NoEffect
  OBVIOUS
<1> HIDE DEF l
<1>3. \A i \in 0..l : st[i] = v
  OBVIOUS
<1> HIDE DEF st
<1>4. \A i \in 1..l : i \in 0..l /\ i - 1 \in 0..l
  BY <1>1
<1>5. 0 \in 0..l /\ l \in 0..l
  BY <1>1
<1>6. ~IsStop(NoEffect)
  BY DEF IsStop, NoEffect, Message
<1>7. Path(st, v, q, v)
  BY <1>2, <1>3, <1>4, <1>5, <1>6 DEF Path, l
<1> QED
  BY <1>7 DEF Leads

\* Where nobody writes and no low-level call is under way nobody is.
LEMMA NobodyBusy ==
  ASSUME TypeOK, WriterFree, \A t \in Thread : pc[t] # "low_update"
  PROVE  Idle
BY DriveAssumption DEF TypeOK, WriterFree, Idle

LEMMA TailUnheard ==
  ASSUME TypeOK, uplink # << >>, uplink' = Tail(uplink), ManualUnheard'
  PROVE  ManualUnheard
<1>1. uplink \in Seq(UplinkMessage)
  BY DEF TypeOK
<1>2. /\ DOMAIN Tail(uplink) = 1..(Len(uplink) - 1) /\ DOMAIN uplink = 1..Len(uplink)
      /\ Len(uplink) \in Nat
      /\ \A i \in 1..(Len(uplink) - 1) : Tail(uplink)[i] = uplink[i + 1]
  BY <1>1
<1>3. PICK k \in DOMAIN uplink' : uplink'[k].type = "MSG_CS_DRIVE_MANUAL"
  BY DEF ManualUnheard
<1>4. k + 1 \in DOMAIN uplink /\ uplink[k + 1] = uplink'[k]
  BY <1>2, <1>3
<1> QED
  BY <1>3, <1>4 DEF ManualUnheard

LEMMA AckUnheard ==
  ASSUME TypeOK, uplink' = Append(uplink, [type |-> "MSG_CS_DRIVE_ACK"]), ManualUnheard'
  PROVE  ManualUnheard
<1>1. uplink \in Seq(UplinkMessage) /\ [type |-> "MSG_CS_DRIVE_ACK"] \in UplinkMessage
  BY DEF TypeOK, UplinkMessage
<1>2. /\ DOMAIN uplink' = 1..(Len(uplink) + 1) /\ DOMAIN uplink = 1..Len(uplink)
      /\ Len(uplink) \in Nat
      /\ \A i \in 1..Len(uplink) : uplink'[i] = uplink[i]
      /\ uplink'[Len(uplink) + 1].type = "MSG_CS_DRIVE_ACK"
  BY <1>1
<1>3. PICK k \in DOMAIN uplink' : uplink'[k].type = "MSG_CS_DRIVE_MANUAL"
  BY DEF ManualUnheard
<1>4. k \in 1..Len(uplink)
  BY <1>2, <1>3
<1> QED
  BY <1>2, <1>3, <1>4 DEF ManualUnheard

LEMMA BeginCourse ==
  ASSUME TypeOK, NoReserved, NEW e, Course(e), NEW t \in Thread, ~crossed',
         SetTrainSpeed(t) \/ EmergencyStop(t) \/ SetTrainPeripheral(t)
  PROVE  Course(e)'
<1>1. PICK m \in Command :
           /\ Begin(t, m) /\ m.active # {}
           /\ IsStop(m) => m.forward = train.forward
           /\ NoReserved /\ wanted \cap Bit = train.on =>
                wanted' \cap Bit =
                  (IF Accepted(m) THEN AfterMessage(train.on, m) ELSE train.on) \cap Bit
  BY Setters
<1>2. /\ WriterFree /\ ~ManualUnheard /\ pc[t] = "idle"
      /\ \A u \in Thread : pc[u] # "low_update"
  BY <1>1 DEF Begin, Others
<1>3. Idle
  BY <1>2, NobodyBusy
<1>4. AtRest(e)
  BY <1>3 DEF Course, OnlyBusy, Idle
<1>5. Stored = e /\ e.on = train.on /\ e.forward = train.forward /\ wanted \cap Bit = e.on
  BY <1>2, <1>4, NothingUnheard, StoredIsView DEF AtRest
<1>6. /\ pc'[t] = "buffer" /\ cmd'[t] = m /\ \A u \in Thread \ {t} : pc'[u] = "idle"
      /\ UNCHANGED <<train, line, uplink, station>>
  BY <1>1, <1>3 DEF Begin, TypeOK, Idle
<1>7. OnlyBusy(t)'
  BY <1>6 DEF OnlyBusy
<1>8. Buffering(t, e)'
  <2>1. wanted' \cap Bit = (IF Accepted(m) THEN AfterMessage(e.on, m) ELSE e.on) \cap Bit
    BY <1>1, <1>5
  <2> QED
    BY <1>1, <1>5, <1>6, <2>1 DEF Buffering, Stored
<1>9. Leads(Output, line, e)' /\ ~ManualUnheard'
  BY <1>2, <1>6 DEF Course, Output, ManualUnheard
<1> QED
  BY <1>7, <1>8, <1>9 DEF Course

LEMMA BufferCourse ==
  ASSUME TypeOK, NEW e, Course(e), NEW t \in Thread, Buffer(t)
  PROVE  \E f : Course(f)'
<1>1. pc[t] = "buffer" /\ UNCHANGED <<cmd, train, uplink, station, wanted>>
  BY DEF Buffer
<1>2. ~ManualUnheard /\ OnlyBusy(t) /\ Buffering(t, e)
  BY <1>1 DEF Course, AtRest, Idle, OnlyBusy, Booking
<1>3. cmd[t] \in Command /\ line \in Seq(Working) /\ Leads(Output, line, e)
  BY LineWorks DEF TypeOK, Course
<1>4. ~ManualUnheard' /\ Stored' = Stored /\ Output' = Output
  BY <1>1, <1>2 DEF ManualUnheard, Stored, Output
<1>5. CASE Accepted(cmd[t])
  <2>0. PICK f : f = After(e, cmd[t])
    OBVIOUS
  <2>1. line' = Append(line, cmd[t]) /\ pc' = [pc EXCEPT ![t] = "update"]
    BY <1>5 DEF Buffer
  <2>2. Leads(Output', line', f)
    <3>1. Leads(Output, Append(line, cmd[t]), f)
      BY <1>2, <1>3, <2>0, CommandIsNoNoEffect, LeadsAppend DEF Buffering
    <3> QED
      BY <3>1, <2>1, <1>4
  <2>3. Booking(t, f)'
    <3>1. wanted \cap Bit = f.on
      BY <1>2, <1>5, <2>0 DEF Buffering, After
    <3> QED
      BY <1>1, <1>2, <1>4, <2>0, <2>1, <3>1 DEF Booking, Buffering, TypeOK
  <2>4. OnlyBusy(t)'
    BY <1>2, <2>1 DEF OnlyBusy, TypeOK
  <2>5. Course(f)'
    BY <1>4, <2>2, <2>3, <2>4 DEF Course
  <2> QED
    BY <2>5
<1>6. CASE ~Accepted(cmd[t])
  <2>1. line' = line /\ pc' = [pc EXCEPT ![t] = "idle"]
    BY <1>6 DEF Buffer
  <2>2. Idle'
    BY <1>2, <2>1 DEF OnlyBusy, Idle, TypeOK
  <2>3. Stored = e /\ wanted \cap Bit = e.on
    BY <1>2, <1>6, StoredIsView DEF Buffering, TypeOK
  <2>4. Leads(Stored, Unheard(uplink), e)
    BY <1>2, <2>3, NothingUnheard, StoredIsView, LeadsInPlace
  <2>5. AtRest(e)'
    BY <1>1, <1>4, <2>2, <2>3, <2>4 DEF AtRest
  <2>6. Course(e)'
    BY <1>3, <1>4, <2>1, <2>5 DEF Course
  <2> QED
    BY <2>6
<1> QED
  BY <1>5, <1>6

LEMMA BookCourse ==
  ASSUME TypeOK, TypeOK', NEW e, Course(e), NEW t \in Thread,
         UpdateAndReturn(t) \/ LowUpdate(t)
  PROVE  Course(e)'
<1>1. /\ pc[t] \in {"update", "low_update"} /\ pc' = [pc EXCEPT ![t] = "idle"]
      /\ Update(cmd[t]) /\ UNCHANGED <<cmd, line, uplink, station, wanted>>
  BY DEF UpdateAndReturn, LowUpdate
<1>2. ~ManualUnheard /\ OnlyBusy(t) /\ Booking(t, e)
  BY <1>1 DEF Course, AtRest, Idle, OnlyBusy, Buffering
<1>3. Idle'
  BY <1>1, <1>2 DEF OnlyBusy, Idle, TypeOK
<1>4. Stored' = e
  <2>1. cmd[t] \in Command /\ train \in TrainType
    BY DEF TypeOK, TrainType
  <2> QED
    BY <1>1, <1>2, <2>1, UpdateView DEF Booking
<1>5. ~ManualUnheard'
  BY <1>1, <1>2 DEF ManualUnheard
<1>6. Leads(Stored', Unheard(uplink'), e)
  <2>1. After(Stored', NoEffect) = Stored'
    <3>1. train'.forward \in BOOLEAN /\ train'.on \subseteq Bit
      BY DEF TypeOK
    <3> QED
      BY <3>1, NoEffectKeeps DEF Stored
  <2>2. Leads(Stored', Unheard(uplink), Stored')
    BY <1>2, <2>1, NothingUnheard, LeadsInPlace
  <2> QED
    BY <1>1, <1>4, <2>2
<1>7. AtRest(e)'
  BY <1>1, <1>2, <1>3, <1>5, <1>6 DEF AtRest, Booking
<1>8. Leads(Output, line, e)'
  BY <1>1 DEF Course, Output
<1> QED
  BY <1>7, <1>8 DEF Course

LEMMA LowCourse ==
  ASSUME TypeOK, NEW e, Course(e), NEW t \in Thread, ~crossed', SendCsDrive(t)
  PROVE  \E f : Course(f)'
<1>1. PICK m \in DriveMessage :
        /\ line' = Append(line, m) /\ cmd' = [cmd EXCEPT ![t] = m]
        /\ wanted' = AfterMessage(wanted, m)
  BY DEF SendCsDrive
<1>2. /\ pc[t] = "idle" /\ pc' = [pc EXCEPT ![t] = "low_update"]
      /\ ~ManualUnheard /\ UNCHANGED <<train, uplink, station>>
      /\ \A u \in Thread \ {t} : pc[u] \notin {"buffer", "update", "low_update"}
  BY DEF SendCsDrive, Others
<1>3. Idle
  BY <1>2 DEF TypeOK, Idle
<1>4. AtRest(e)
  BY <1>3 DEF Course, OnlyBusy, Idle
<1>5. Stored = e /\ wanted \cap Bit = e.on
  BY <1>2, <1>4, NothingUnheard DEF AtRest
<1>6. PICK f : f = After(e, m)
  OBVIOUS
<1>7. Leads(Output', line', f)
  <2>1. m \in Command /\ line \in Seq(Working) /\ Leads(Output, line, e)
    BY LineWorks, LowMessageType DEF Course
  <2>2. NoLowStop => ~IsStop(m)
    BY DEF NoLowStop
  <2>3. Leads(Output, Append(line, m), f)
    BY <1>6, <2>1, <2>2, CommandIsNoNoEffect, LeadsAppend
  <2> QED
    BY <1>1, <1>2, <2>3 DEF Output
<1>8. OnlyBusy(t)'
  BY <1>2, <1>3 DEF OnlyBusy, Idle, TypeOK
<1>9. Booking(t, f)'
  <2>1. wanted' \cap Bit = f.on
    BY <1>1, <1>5, <1>6, AfterMessageBits DEF After
  <2>2. cmd'[t] = m /\ pc'[t] = "low_update"
    BY <1>1, <1>2 DEF TypeOK
  <2> QED
    BY <1>2, <1>5, <1>6, <2>1, <2>2 DEF Booking, Stored
<1>10. ~ManualUnheard'
  BY <1>2 DEF ManualUnheard
<1> QED
  BY <1>7, <1>8, <1>9, <1>10 DEF Course

LEMMA AckCourse ==
  ASSUME TypeOK, NEW e, Course(e), ~crossed', HandleAck
  PROVE  Course(e)'
<1>1. /\ uplink # << >> /\ Head(uplink).type = "MSG_CS_DRIVE_ACK" /\ uplink' = Tail(uplink)
      /\ WriterFree /\ train' = [train EXCEPT !.ack = "accepted"]
      /\ \A t \in Thread : pc[t] # "low_update"
      /\ UNCHANGED <<pc, cmd, line, station, wanted>>
  BY DEF HandleAck, Hear
<1>2. Idle
  BY <1>1, NobodyBusy
<1>3. AtRest(e)
  BY <1>2 DEF Course, OnlyBusy, Idle
<1>4. Stored' = Stored
  BY <1>1 DEF Stored, TypeOK
<1>5. Leads(Stored', Unheard(uplink'), e)
  <2>1. uplink \in Seq(UplinkMessage) /\ Unheard(uplink) \in Seq(Working)
    BY UnheardType DEF TypeOK
  <2>2. /\ Unheard(uplink') = Tail(Unheard(uplink)) /\ Unheard(uplink) # << >>
        /\ Head(Unheard(uplink)) = NoEffect
    BY <1>1, <2>1, UnheardTail DEF Effect
  <2>3. Leads(After(Stored, NoEffect), Tail(Unheard(uplink)), e)
    BY <1>3, <2>1, <2>2, LeadsTail DEF AtRest
  <2> QED
    BY <1>4, <2>2, <2>3, StoredIsView
<1>6. ManualUnheard' => line' = << >>
  BY <1>1, <1>3, TailUnheard DEF AtRest
<1>7. AtRest(e)'
  BY <1>1, <1>2, <1>3, <1>5, <1>6 DEF AtRest, Idle
<1>8. Leads(Output, line, e)'
  BY <1>1 DEF Course, Output
<1> QED
  BY <1>7, <1>8 DEF Course

LEMMA ManualCourse ==
  ASSUME TypeOK, NEW e, Course(e), HandleManual
  PROVE  Course(e)'
<1> DEFINE m == Head(uplink).msg
<1>1. /\ uplink # << >> /\ Head(uplink).type = "MSG_CS_DRIVE_MANUAL" /\ uplink' = Tail(uplink)
      /\ Update(m) /\ UNCHANGED <<pc, cmd, line, station, wanted>>
  BY DEF HandleManual, Hear
<1>2. uplink \in Seq(UplinkMessage) /\ m \in Command /\ train \in TrainType
  BY <1>1, HeardType DEF TypeOK, TrainType
<1>3. ManualUnheard
  <2>1. 1 \in DOMAIN uplink /\ uplink[1] = Head(uplink)
    BY <1>1, <1>2
  <2> QED
    BY <1>1, <2>1 DEF ManualUnheard
<1>4. AtRest(e)
  BY <1>3 DEF Course
<1>5. Stored' = After(Stored, m)
  BY <1>1, <1>2, UpdateView
<1>6. Leads(Stored', Unheard(uplink'), e)
  <2>1. Unheard(uplink) \in Seq(Working)
    BY <1>2, UnheardType
  <2>2. /\ Unheard(uplink') = Tail(Unheard(uplink)) /\ Unheard(uplink) # << >>
        /\ Head(Unheard(uplink)) = m
    BY <1>1, <1>2, UnheardTail DEF Effect
  <2>3. Leads(After(Stored, m), Tail(Unheard(uplink)), e)
    BY <1>4, <2>1, <2>2, LeadsTail DEF AtRest
  <2> QED
    BY <1>5, <2>2, <2>3
<1>7. line' = << >>
  BY <1>1, <1>3, <1>4 DEF AtRest
<1>8. AtRest(e)'
  BY <1>1, <1>4, <1>6, <1>7 DEF AtRest, Idle
<1>9. Leads(Output, line, e)'
  BY <1>1 DEF Course, Output
<1> QED
  BY <1>8, <1>9 DEF Course

LEMMA ExecuteCourse ==
  ASSUME TypeOK, NEW e, Course(e), StationExecutes
  PROVE  Course(e)'
<1> DEFINE ack == [type |-> "MSG_CS_DRIVE_ACK"]
<1>1. /\ line # << >> /\ station' = Execute(station, Head(line)) /\ line' = Tail(line)
      /\ uplink' = Append(uplink, ack) /\ UNCHANGED <<pc, cmd, train, wanted>>
  BY DEF StationExecutes, host
<1>2. /\ line \in Seq(Working) /\ Head(line) \in Command /\ station \in StationType
      /\ uplink \in Seq(UplinkMessage) /\ ack \in UplinkMessage
  BY <1>1, LineWorks DEF TypeOK, StationType, UplinkMessage
<1>3. Leads(Output, line, e)'
  <2>1. Leads(After(Output, Head(line)), Tail(line), e)
    BY <1>1, <1>2, LeadsTail DEF Course
  <2>2. Output' = After(Output, Head(line))
    BY <1>1, <1>2, ExecuteView
  <2> QED
    BY <1>1, <2>1, <2>2
<1>4. ~ManualUnheard /\ ~ManualUnheard'
  BY <1>1, AckUnheard DEF Course, AtRest
<1>5. CASE AtRest(e)
  <2>1. Stored = e /\ Unheard(uplink) \in Seq(Working)
    BY <1>4, <1>5, NothingUnheard DEF AtRest
  <2>2. Unheard(uplink') = Append(Unheard(uplink), NoEffect)
    BY <1>1, <1>2, UnheardAppend DEF Effect
  <2>3. ~IsStop(NoEffect) /\ NoEffect \in Working
    BY DEF IsStop, NoEffect, Message, Working
  <2>4. Leads(Stored, Append(Unheard(uplink), NoEffect), After(e, NoEffect))
    BY <1>5, <2>1, <2>3, StoredIsView, LeadsAppend DEF AtRest
  <2>5. Leads(Stored, Unheard(uplink'), e)
    BY <2>1, <2>2, <2>4, StoredIsView
  <2>6. AtRest(e)'
    BY <1>1, <1>4, <1>5, <2>5 DEF AtRest, Idle, Stored
  <2> QED
    BY <1>3, <2>6 DEF Course
<1>6. ASSUME NEW t \in Thread, OnlyBusy(t), Buffering(t, e) \/ Booking(t, e)
      PROVE  Course(e)'
  <2>1. OnlyBusy(t)' /\ (Buffering(t, e) \/ Booking(t, e))'
    BY <1>1, <1>6 DEF OnlyBusy, Buffering, Booking, Stored
  <2> QED
    BY <1>3, <1>4, <2>1 DEF Course
<1> QED
  BY <1>5, <1>6 DEF Course

LEMMA HandCourse ==
  ASSUME TypeOK, NEW e, Course(e), ~crossed', StationManual
  PROVE  \E f : Course(f)'
<1>1. PICK m \in DriveMessage :
        /\ station' = Execute(station, m)
        /\ uplink' = Append(uplink, [type |-> "MSG_CS_DRIVE_MANUAL", msg |-> m])
        /\ wanted' = AfterMessage(wanted, m)
  BY DEF StationManual
<1>2. line = << >> /\ Idle /\ UNCHANGED <<pc, cmd, train, line>>
  BY DEF StationManual, Idle, host
<1>3. AtRest(e)
  BY <1>2 DEF Course, OnlyBusy, Idle
<1>4. Output = e
  BY <1>2, LeadsNowhere DEF Course
<1>5. m \in Command /\ station \in StationType
  BY LowMessageType DEF TypeOK, StationType
<1>6. PICK f : f = After(e, m)
  OBVIOUS
<1>7. Output' = f
  BY <1>1, <1>4, <1>5, <1>6, ExecuteView
<1>8. Leads(Output', line', f)
  BY <1>2, <1>7, LeadsNowhere
<1>9. Leads(Stored, Unheard(uplink'), f)
  <2> DEFINE x == [type |-> "MSG_CS_DRIVE_MANUAL", msg |-> m]
  <2>1. /\ uplink \in Seq(UplinkMessage) /\ x \in UplinkMessage
        /\ Unheard(uplink) \in Seq(Working) /\ Effect(x) = m
    BY <1>5, UnheardType DEF TypeOK, UplinkMessage, Effect
  <2>2. Unheard(uplink') = Append(Unheard(uplink), m)
    BY <1>1, <2>1, UnheardAppend
  <2>3. NoLowStop => ~IsStop(m)
    BY DEF NoLowStop
  <2>4. Leads(Stored, Append(Unheard(uplink), m), f)
    BY <1>3, <1>5, <1>6, <2>1, <2>3, CommandIsNoNoEffect, LeadsAppend DEF AtRest
  <2> QED
    BY <2>2, <2>4
<1>10. wanted' \cap Bit = f.on
  BY <1>1, <1>3, <1>6, AfterMessageBits DEF After, AtRest
<1>11. AtRest(f)'
  BY <1>2, <1>9, <1>10 DEF AtRest, Idle, Stored
<1> QED
  BY <1>8, <1>11 DEF Course

LEMMA CourseStep ==
  ASSUME TypeOK, TypeOK', NoReserved, InStep, [Next]_vars
  PROVE  InStep'
<1> SUFFICES ASSUME ~crossed'
             PROVE  \E f : Course(f)'
  BY DEF InStep
<1>1. ~crossed
  BY DEF Next, HighLevel, LowLevel, SetTrainSpeed, EmergencyStop, SetTrainPeripheral, Begin,
         Buffer, UpdateAndReturn, SendCsDrive, LowUpdate, HandleAck, HandleManual,
         StationExecutes, StationManual, vars
<1>2. PICK e : Course(e)
  BY <1>1 DEF InStep
<1>3. ASSUME NEW t \in Thread, HighLevel(t) \/ LowLevel(t)
      PROVE  \E f : Course(f)'
  BY <1>2, <1>3, BeginCourse, BufferCourse, BookCourse, LowCourse DEF HighLevel, LowLevel
<1>4. CASE UNCHANGED vars
  <2>1. Course(e)'
    BY <1>2, <1>4 DEF Course, AtRest, OnlyBusy, Buffering, Booking, Idle, ManualUnheard,
                      Stored, Output, vars, host
  <2> QED
    BY <2>1
<1> QED
  BY <1>2, <1>3, <1>4, AckCourse, ManualCourse, ExecuteCourse, HandCourse DEF Next

LEMMA InitCourse == Init => NoReserved /\ InStep
<1> SUFFICES ASSUME Init
             PROVE  NoReserved /\ InStep
  OBVIOUS
<1>1. /\ line = << >> /\ uplink = << >> /\ wanted = {} /\ Idle
      /\ train = [step |-> 0, forward |-> TRUE, on |-> {}, ack |-> "pending"]
      /\ station = [speed |-> 0, forward |-> TRUE, on |-> {}]
  BY DEF Init, Idle
<1>2. Output = Stored /\ wanted \cap Bit = Stored.on
  BY <1>1 DEF Output, Stored, DccToLib
<1>3. ~ManualUnheard /\ Unheard(uplink) = << >>
  <2>1. uplink \in Seq(UplinkMessage) /\ DOMAIN uplink = {}
    BY <1>1
  <2>2. Unheard(uplink) = << >>
    BY <1>1, <2>1, UnheardType
  <2> QED
    BY <2>1, <2>2 DEF ManualUnheard
<1>4. Leads(Output, line, Stored) /\ Leads(Stored, Unheard(uplink), Stored)
  BY <1>1, <1>2, <1>3, LeadsNowhere
<1>5. PICK e : e = Stored
  OBVIOUS
<1>6. Course(e)
  BY <1>1, <1>2, <1>3, <1>4, <1>5 DEF Course, AtRest
<1> QED
  BY <1>1, <1>6 DEF InStep, NoReserved

InvCourse == TypeOK /\ NoReserved /\ InStep

LEMMA CourseCorrect == Spec => []InvCourse
<1>1. Init => InvCourse
  BY InitType, InitCourse DEF InvCourse
<1>2. InvCourse /\ [Next]_vars => InvCourse'
  BY TypeStep, ReservedStep, CourseStep DEF InvCourse
<1> QED
  BY <1>1, <1>2, PTL DEF Spec

\* With nothing on its way both views are where they lead to.
LEMMA Arrived ==
  ASSUME InvCourse, Quiet, ~crossed
  PROVE  Stored = Output /\ wanted \cap Bit = Output.on
<1>1. PICK e : Course(e)
  BY DEF InvCourse, InStep
<1>2. Idle /\ line = << >> /\ uplink = << >> /\ uplink \in Seq(UplinkMessage)
  BY DEF Quiet, Idle, InvCourse, TypeOK
<1>3. AtRest(e)
  BY <1>1, <1>2 DEF Course, Idle, OnlyBusy
<1>4. Unheard(uplink) = << >>
  BY <1>2, UnheardType
<1>5. Output = e /\ Stored = e
  BY <1>1, <1>2, <1>3, <1>4, LeadsNowhere DEF Course, AtRest
<1> QED
  BY <1>3, <1>5 DEF AtRest

(* When nothing is on its way and no commands have crossed, the train the   *)
(* library stores is the one the station outputs: step, direction and       *)
(* configured functions, whatever commands came before.                     *)
THEOREM StoredAgrees == Spec => []Agree
<1>1. InvCourse => Agree
  BY Arrived DEF Agree, Same, Stored, Output
<1> QED
  BY <1>1, CourseCorrect, PTL

(* Then also every configured function is as the last command that named it *)
(* wanted it, although commands send whole groups of functions.             *)
THEOREM NothingTakenBack == Spec => []NoneTakenBack
<1>1. InvCourse => NoneTakenBack
  BY Arrived DEF NoneTakenBack, Output
<1> QED
  BY <1>1, CourseCorrect, PTL

----------------------------------------------------------------------------
(* The acknowledgement.  A command the library has yet to book is, or its   *)
(* acknowledgement is, still on the way: the receiver waits for the lock.   *)
Expected ==
  ~crossed /\ manuals = 0 =>
    \A t \in Thread : pc[t] \in {"update", "low_update"} => line # << >> \/ uplink # << >>

Settled ==
  ~crossed /\ manuals = 0 /\ executed /\ line = << >> /\ uplink = << >>
    => train.ack = "accepted"

NoHand == manuals = 0 => ~ManualUnheard

InvAck == TypeOK /\ NoHand /\ Expected /\ Settled

LEMMA NoHandStep ==
  ASSUME TypeOK, NoHand, [Next]_vars
  PROVE  NoHand'
<1> SUFFICES ASSUME manuals' = 0, ManualUnheard'
             PROVE  FALSE
  BY DEF NoHand
<1>1. \/ UNCHANGED <<uplink, manuals>>
      \/ uplink # << >> /\ uplink' = Tail(uplink) /\ UNCHANGED manuals
      \/ uplink' = Append(uplink, [type |-> "MSG_CS_DRIVE_ACK"]) /\ UNCHANGED manuals
      \/ manuals' = manuals + 1
  BY DEF Next, HighLevel, LowLevel, SetTrainSpeed, EmergencyStop, SetTrainPeripheral, Begin,
         Buffer, UpdateAndReturn, SendCsDrive, LowUpdate, HandleAck, HandleManual, Hear,
         StationExecutes, StationManual, vars
<1>2. manuals' # manuals + 1
  BY DEF TypeOK
<1>3. ManualUnheard
  <2>1. CASE UNCHANGED uplink
    BY <2>1 DEF ManualUnheard
  <2> QED
    BY <1>1, <1>2, <2>1, TailUnheard, AckUnheard
<1> QED
  BY <1>1, <1>2, <1>3 DEF NoHand

LEMMA AckStep ==
  ASSUME InvAck, [Next]_vars
  PROVE  Expected' /\ Settled'
<1>0. TypeOK /\ NoHand /\ Expected /\ Settled
  BY DEF InvAck
<1> SUFFICES ASSUME ~crossed', manuals' = 0
             PROVE  /\ \A t \in Thread : pc'[t] \in {"update", "low_update"} =>
                                            line' # << >> \/ uplink' # << >>
                    /\ executed' /\ line' = << >> /\ uplink' = << >>
                         => train'.ack = "accepted"
  BY DEF Expected, Settled
<1>1. manuals \in Nat /\ line \in Seq(Command) /\ uplink \in Seq(UplinkMessage)
  BY <1>0 DEF TypeOK
<1>10. ~crossed
  BY DEF Next, HighLevel, LowLevel, SetTrainSpeed, EmergencyStop, SetTrainPeripheral, Begin,
         Buffer, UpdateAndReturn, SendCsDrive, LowUpdate, HandleAck, HandleManual,
         StationExecutes, StationManual, vars
<1>2. ASSUME NEW t \in Thread, NEW m, Begin(t, m)
      PROVE  /\ \A u \in Thread : pc'[u] \in {"update", "low_update"} =>
                                     line' # << >> \/ uplink' # << >>
             /\ executed' /\ line' = << >> /\ uplink' = << >> => train'.ack = "accepted"
  <2>1. /\ pc' = [pc EXCEPT ![t] = "buffer"]
        /\ UNCHANGED <<line, uplink, train, executed, manuals>>
    BY <1>2 DEF Begin
  <2> QED
    BY <1>0, <1>1, <1>10, <2>1 DEF Expected, Settled, TypeOK
<1>3. ASSUME NEW t \in Thread, Buffer(t) \/ SendCsDrive(t)
      PROVE  /\ \A u \in Thread : pc'[u] \in {"update", "low_update"} =>
                                     line' # << >> \/ uplink' # << >>
             /\ executed' /\ line' = << >> /\ uplink' = << >> => train'.ack = "accepted"
  <2>1. \/ \E m \in Command : line' = Append(line, m)
        \/ pc' = [pc EXCEPT ![t] = "idle"] /\ line' = line
    BY <1>3, <1>0, LowMessageType DEF Buffer, SendCsDrive, TypeOK
  <2>2. UNCHANGED <<uplink, train, executed, manuals>>
    BY <1>3 DEF Buffer, SendCsDrive
  <2>3. CASE \E m \in Command : line' = Append(line, m)
    <3>1. line' # << >>
      BY <1>1, <2>3
    <3> QED
      BY <3>1
  <2>4. CASE pc' = [pc EXCEPT ![t] = "idle"] /\ line' = line
    BY <1>0, <1>1, <1>10, <2>2, <2>4 DEF Expected, Settled, TypeOK
  <2> QED
    BY <2>1, <2>3, <2>4
<1>4. ASSUME NEW t \in Thread, UpdateAndReturn(t) \/ LowUpdate(t)
      PROVE  /\ \A u \in Thread : pc'[u] \in {"update", "low_update"} =>
                                     line' # << >> \/ uplink' # << >>
             /\ executed' /\ line' = << >> /\ uplink' = << >> => train'.ack = "accepted"
  <2>1. pc[t] \in {"update", "low_update"} /\ UNCHANGED <<line, uplink, manuals>>
    BY <1>4 DEF UpdateAndReturn, LowUpdate
  <2> QED
    BY <1>0, <1>1, <1>10, <2>1 DEF Expected
<1>5. CASE HandleAck
  <2>1. /\ train' = [train EXCEPT !.ack = "accepted"] /\ UNCHANGED pc /\ WriterFree
        /\ \A t \in Thread : pc[t] # "low_update"
    BY <1>5 DEF HandleAck
  <2>2. Idle
    BY <1>0, <2>1, NobodyBusy
  <2> QED
    BY <1>0, <2>1, <2>2 DEF Idle, TypeOK
<1>6. CASE HandleManual
  <2>1. manuals = 0 /\ uplink # << >> /\ Head(uplink).type = "MSG_CS_DRIVE_MANUAL"
    BY <1>6 DEF HandleManual, Hear
  <2>2. 1 \in DOMAIN uplink /\ uplink[1] = Head(uplink)
    BY <1>1, <2>1
  <2> QED
    BY <1>0, <2>1, <2>2 DEF NoHand, ManualUnheard
<1>7. CASE StationExecutes
  <2>1. uplink' # << >>
    BY <1>1, <1>7 DEF StationExecutes
  <2> QED
    BY <2>1
<1>8. CASE StationManual
  BY <1>1, <1>8 DEF StationManual
<1>9. CASE UNCHANGED vars
  BY <1>0, <1>1, <1>10, <1>9 DEF Expected, Settled, vars, host
<1> QED
  BY <1>2, <1>3, <1>4, <1>5, <1>6, <1>7, <1>8, <1>9
     DEF Next, HighLevel, LowLevel, SetTrainSpeed, EmergencyStop, SetTrainPeripheral

(* A command that has been executed is not left pending: when nothing is on *)
(* its way and nothing has crossed the last one is marked as accepted.      *)
THEOREM AckIsSettled == Spec => []AckSettled
<1>1. Init => InvAck
  BY InitType DEF Init, InvAck, NoHand, Expected, Settled, ManualUnheard
<1>2. InvAck /\ [Next]_vars => InvAck'
  BY TypeStep, NoHandStep, AckStep DEF InvAck
<1>3. InvAck => AckSettled
  BY DEF InvAck, Settled, AckSettled, Quiet
<1> QED
  BY <1>1, <1>2, <1>3, PTL DEF Spec

----------------------------------------------------------------------------
(* No stop turns the train round, if the callers of the low level and the   *)
(* hand control do not ask for it themselves: the setter has sent the       *)
(* direction that the train has by then.                                    *)
THEOREM StopsKeepDirection ==
  ASSUME NoLowStop
  PROVE  Spec => StopKeepsDirection
<1>1. InvCourse /\ [Next]_vars =>
        [ station'.forward # station.forward /\ line' # line /\ ~crossed
            => Head(line).speed # 0 \/ Head(line).active = {} ]_vars
  <2> SUFFICES ASSUME InvCourse, [Next]_vars,
                      station'.forward # station.forward, line' # line, ~crossed,
                      Head(line).speed = 0, Head(line).active # {}
               PROVE  FALSE
    OBVIOUS
  <2>1. StationExecutes
    BY DEF Next, HighLevel, LowLevel, SetTrainSpeed, EmergencyStop, SetTrainPeripheral,
           Begin, Buffer, UpdateAndReturn, SendCsDrive, LowUpdate, HandleAck, HandleManual,
           StationManual, vars, host
  <2>2. line # << >> /\ station' = Execute(station, Head(line))
    BY <2>1 DEF StationExecutes
  <2>3. "speed" \in Head(line).active /\ Head(line).forward # station.forward
    <3>1. station'.forward =
            (Head(line).active = {}
              \/ (IF "speed" \in Head(line).active THEN Head(line).forward ELSE station.forward))
      BY <2>2 DEF Execute
    <3>2. station.forward \in BOOLEAN
      BY DEF InvCourse, TypeOK
    <3>3. Head(line) \in Command
      BY <2>2 DEF InvCourse, TypeOK
    <3> QED
      BY <3>1, <3>2, <3>3 DEF Command
  <2>4. PICK e : Course(e)
    BY DEF InvCourse, InStep
  <2>5. line \in Seq(Working) /\ Leads(Output, line, e)
    BY <2>4, LineWorks DEF InvCourse, Course
  <2>6. NoLowStop /\ IsStop(Head(line)) => Head(line).forward = Output.forward
    BY <2>2, <2>5, LeadsTail
  <2> QED
    BY <2>3, <2>6 DEF IsStop, Output
<1> QED
  BY <1>1, CourseCorrect, PTL DEF Spec, StopKeepsDirection
=============================================================================

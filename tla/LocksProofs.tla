---------------------------- MODULE LocksProofs ------------------------------
(****************************************************************************)
(* For any number of threads and any functions that keep the rules, the     *)
(* threads never wait for each other in a circle, never race on the data    *)
(* and never leave the library with a lock.  That the functions of libbidib *)
(* keep the rules is what the run Locks finds for each of them.             *)
(****************************************************************************)
EXTENDS Locks, TLAPS, WellFoundedInduction

(* A step of a thread is one of the steps of its function, and so is what   *)
(* remains of the function after it.                                        *)
LEMMA HeadTail ==
  ASSUME NEW p \in Seq(Step), p # << >>
  PROVE  /\ Head(p) \in Step /\ Head(p) = p[1]
         /\ Tail(p) \in Seq(Step)
         /\ Len(p) \in Nat /\ Len(p) > 0 /\ Len(Tail(p)) = Len(p) - 1
         /\ \A k \in 1..(Len(p) - 1) : Tail(p)[k] = p[k + 1]
OBVIOUS

(* Before its first step a function has the locks it started with.          *)
LEMMA HeldAtOnce ==
  ASSUME NEW h, NEW p
  PROVE  HeldBefore(h, p, 1) = h
BY DEF HeldBefore

(* The locks before step i + 1 of a function are the locks before step i of *)
(* what remains of it after its first step.                                 *)
LEMMA HeldTail ==
  ASSUME NEW h \in SUBSET {s \in Step : Acquires(s)},
         NEW p \in Seq(Step), p # << >>, NEW i \in 1..Len(p)
  PROVE  HeldBefore(After(h, Head(p)), Tail(p), i) = HeldBefore(h, p, i + 1)
<1> DEFINE q == Tail(p)
           g == After(h, Head(p))
<1>1. /\ Head(p) = p[1] /\ p[1] \in Step /\ Len(p) \in Nat /\ i \in Nat /\ i >= 1
      /\ \A k \in 1..(i - 1) : q[k] = p[k + 1]
  BY HeadTail
<1>2. ASSUME NEW s \in HeldBefore(g, q, i) PROVE s \in HeldBefore(h, p, i + 1)
  <2>1. CASE s \in g /\ \A k \in 1..(i - 1) : ~Releases(q[k], s.lock)
    <3>1. \A k \in 2..i : ~Releases(p[k], s.lock)
      <4> SUFFICES ASSUME NEW k \in 2..i PROVE ~Releases(p[k], s.lock)
        OBVIOUS
      <4>1. k - 1 \in 1..(i - 1) /\ (k - 1) + 1 = k
        BY <1>1
      <4> QED BY <1>1, <2>1, <4>1
    <3>2. CASE s \in h /\ ~Releases(p[1], s.lock)
      <4>1. \A k \in 1..((i + 1) - 1) : ~Releases(p[k], s.lock)
        BY <1>1, <3>1, <3>2
      <4> QED BY <3>2, <4>1 DEF HeldBefore
    <3>3. CASE s = p[1] /\ Acquires(p[1])
      <4>1. \A n \in (1 + 1)..((i + 1) - 1) : ~Releases(p[n], p[1].lock)
        BY <1>1, <3>1, <3>3
      <4>2. 1 \in 1..((i + 1) - 1)
        BY <1>1
      <4> QED BY <3>3, <4>1, <4>2 DEF HeldBefore
    <3>4. (s \in h /\ ~Releases(p[1], s.lock)) \/ (s = p[1] /\ Acquires(p[1]))
      BY <1>1, <2>1 DEF After
    <3> QED BY <3>2, <3>3, <3>4
  <2>2. CASE \E k \in 1..(i - 1) : /\ s = q[k] /\ Acquires(q[k])
                                   /\ \A n \in (k + 1)..(i - 1) : ~Releases(q[n], q[k].lock)
    <3>1. PICK k \in 1..(i - 1) : /\ s = q[k] /\ Acquires(q[k])
                                  /\ \A n \in (k + 1)..(i - 1) : ~Releases(q[n], q[k].lock)
      BY <2>2
    <3>2. s = p[k + 1] /\ Acquires(p[k + 1]) /\ k + 1 \in 1..((i + 1) - 1)
      BY <1>1, <3>1
    <3>3. ASSUME NEW n \in ((k + 1) + 1)..((i + 1) - 1) PROVE ~Releases(p[n], p[k + 1].lock)
      <4>1. n - 1 \in (k + 1)..(i - 1) /\ n - 1 \in 1..(i - 1) /\ (n - 1) + 1 = n
        BY <1>1
      <4> QED BY <1>1, <3>1, <4>1
    <3> QED BY <3>2, <3>3 DEF HeldBefore
  <2> QED BY <1>2, <2>1, <2>2 DEF HeldBefore
<1>3. ASSUME NEW s \in HeldBefore(h, p, i + 1) PROVE s \in HeldBefore(g, q, i)
  <2>1. CASE s \in h /\ \A k \in 1..((i + 1) - 1) : ~Releases(p[k], s.lock)
    <3>1. s \in g
      BY <1>1, <2>1 DEF After
    <3>2. \A k \in 1..(i - 1) : ~Releases(q[k], s.lock)
      BY <1>1, <2>1
    <3> QED BY <3>1, <3>2 DEF HeldBefore
  <2>2. CASE \E k \in 1..((i + 1) - 1) :
               /\ s = p[k] /\ Acquires(p[k])
               /\ \A n \in (k + 1)..((i + 1) - 1) : ~Releases(p[n], p[k].lock)
    <3>1. PICK k \in 1..((i + 1) - 1) :
               /\ s = p[k] /\ Acquires(p[k])
               /\ \A n \in (k + 1)..((i + 1) - 1) : ~Releases(p[n], p[k].lock)
      BY <2>2
    <3>2. CASE k = 1
      <4>1. s \in g
        BY <1>1, <3>1, <3>2 DEF After
      <4>2. \A n \in 1..(i - 1) : ~Releases(q[n], s.lock)
        <5> SUFFICES ASSUME NEW n \in 1..(i - 1) PROVE ~Releases(q[n], s.lock)
          OBVIOUS
        <5>1. n + 1 \in (k + 1)..((i + 1) - 1)
          BY <1>1, <3>2
        <5> QED BY <1>1, <3>1, <5>1
      <4> QED BY <4>1, <4>2 DEF HeldBefore
    <3>3. CASE k # 1
      <4>1. k - 1 \in 1..(i - 1) /\ (k - 1) + 1 = k
        BY <1>1, <3>3
      <4>2. s = q[k - 1] /\ Acquires(q[k - 1])
        BY <1>1, <3>1, <4>1
      <4>3. ASSUME NEW n \in ((k - 1) + 1)..(i - 1) PROVE ~Releases(q[n], q[k - 1].lock)
        <5>1. n \in 1..(i - 1) /\ n + 1 \in (k + 1)..((i + 1) - 1)
          BY <1>1, <4>1
        <5> QED BY <1>1, <3>1, <4>2, <5>1
      <4> QED BY <4>1, <4>2, <4>3 DEF HeldBefore
    <3> QED BY <3>2, <3>3
  <2> QED BY <1>3, <2>1, <2>2 DEF HeldBefore
<1> QED BY <1>2, <1>3

----------------------------------------------------------------------------
(* A function that keeps the rules from the first step on keeps them from   *)
(* the second one on.                                                       *)
LEMMA RulesTail ==
  ASSUME NEW h \in SUBSET {s \in Step : Acquires(s)},
         NEW p \in Seq(Step), p # << >>, Rules(h, p)
  PROVE  Rules(After(h, Head(p)), Tail(p))
<1> DEFINE q == Tail(p)
           g == After(h, Head(p))
<1>1. /\ Len(p) \in Nat /\ Len(p) > 0 /\ Len(q) = Len(p) - 1
      /\ \A k \in 1..(Len(p) - 1) : q[k] = p[k + 1]
  BY HeadTail
<1>2. \A i \in 1..Len(p) : HeldBefore(g, q, i) = HeldBefore(h, p, i + 1)
  BY HeldTail
<1>3. \A i \in 1..Len(q) : /\ i + 1 \in 1..Len(p) /\ q[i] = p[i + 1]
                           /\ HeldBefore(g, q, i) = HeldBefore(h, p, i + 1)
  BY <1>1, <1>2
<1>4. InOrder(g, q)
  BY <1>3 DEF InOrder, Rules
<1>5. Guarded(g, q)
  BY <1>3 DEF Guarded, Rules
<1>6. Balanced(g, q)
  <2>1. Len(q) + 1 = Len(p) /\ Len(p) \in 1..Len(p)
    BY <1>1
  <2> QED BY <1>2, <2>1 DEF Balanced, Rules
<1> QED BY <1>4, <1>5, <1>6 DEF Rules

----------------------------------------------------------------------------
\* No two threads have a lock in ways that exclude each other.
Exclusion ==
  \A t, u \in Thread : t # u =>
    \A g \in held[t], h \in held[u] : g.lock = h.lock => ~Conflict(g.act, h.act)

RulesKept == \A t \in Thread : Rules(held[t], todo[t])

Inv == TypeOK /\ Exclusion /\ RulesKept

(* What a step that goes on with the function of t does to the types, and   *)
(* to the rules.                                                            *)
LEMMA ContinueKeeps ==
  ASSUME TypeOK, RulesKept, NEW t \in Thread, Running(t), Continue(t)
  PROVE  TypeOK' /\ RulesKept'
<1>1. /\ todo[t] \in Seq(Step) /\ todo[t] # << >>
      /\ held[t] \in SUBSET {s \in Step : Acquires(s)}
  BY DEF TypeOK, Running
<1>2. Head(todo[t]) \in Step /\ Tail(todo[t]) \in Seq(Step)
  BY <1>1, HeadTail
<1>3. After(held[t], Head(todo[t])) \in SUBSET {s \in Step : Acquires(s)}
  BY <1>1, <1>2 DEF After
<1>4. TypeOK'
  BY <1>2, <1>3 DEF TypeOK, Continue
<1>5. ASSUME NEW u \in Thread PROVE Rules(held'[u], todo'[u])
  <2>1. CASE u = t
    <3>1. held'[u] = After(held[t], Head(todo[t])) /\ todo'[u] = Tail(todo[t])
      BY <2>1 DEF Continue, TypeOK
    <3> QED BY <1>1, <3>1, RulesTail DEF RulesKept
  <2>2. CASE u # t
    <3>1. held'[u] = held[u] /\ todo'[u] = todo[u]
      BY <2>2 DEF Continue, TypeOK
    <3> QED BY <3>1 DEF RulesKept
  <2> QED BY <2>1, <2>2
<1>6. RulesKept'
  BY <1>5 DEF RulesKept
<1> QED BY <1>4, <1>6

LEMMA InvInit == Init => Inv
<1> SUFFICES ASSUME Init PROVE Inv
  OBVIOUS
<1>1. TypeOK
  BY DEF Init, TypeOK
<1>2. Exclusion
  BY DEF Init, Exclusion
<1>3. Rules({}, << >>)
  BY HeldAtOnce DEF Rules, InOrder, Guarded, Balanced
<1>4. RulesKept
  BY <1>3 DEF Init, RulesKept
<1> QED BY <1>1, <1>2, <1>4 DEF Inv

(* Every step keeps the invariant, if the functions keep the rules.         *)
LEMMA InvNext ==
  ASSUME Disciplined, Inv, [Next]_vars
  PROVE  Inv'
<1> USE LocksAssumption
<1>1. CASE UNCHANGED vars
  BY <1>1 DEF Inv, TypeOK, Exclusion, RulesKept, vars
<1>2. ASSUME NEW t \in Thread, Call(t) PROVE Inv'
  <2>1. PICK p \in Program[t] : todo' = [todo EXCEPT ![t] = p]
    BY <1>2 DEF Call
  <2>2. p \in Seq(Step) /\ held' = held
    BY <1>2, <2>1 DEF Call, LocksAssumption
  <2>3. held[t] = {}
    <3>1. todo[t] = << >> /\ HeldBefore(held[t], todo[t], Len(todo[t]) + 1) = {}
      BY <1>2 DEF Call, Running, Inv, RulesKept, Rules, Balanced
    <3>2. Len(todo[t]) + 1 = 1
      BY <3>1
    <3> QED BY <3>1, <3>2, HeldAtOnce
  <2>4. TypeOK'
    BY <2>1, <2>2 DEF Inv, TypeOK
  <2>5. Exclusion'
    BY <2>2 DEF Inv, Exclusion
  <2>6. ASSUME NEW u \in Thread PROVE Rules(held'[u], todo'[u])
    <3>1. CASE u = t
      BY <2>1, <2>2, <2>3, <3>1 DEF Inv, TypeOK, Disciplined
    <3>2. CASE u # t
      BY <2>1, <2>2, <3>2 DEF Inv, TypeOK, RulesKept
    <3> QED BY <3>1, <3>2
  <2>7. RulesKept'
    BY <2>6 DEF RulesKept
  <2> QED BY <2>4, <2>5, <2>7 DEF Inv
<1>3. ASSUME NEW t \in Thread, Acquire(t) PROVE Inv'
  <2>1. TypeOK' /\ RulesKept'
    BY <1>3, ContinueKeeps DEF Acquire, Inv
  <2>2. /\ \A u \in Thread : u # t => held'[u] = held[u]
        /\ held'[t] \subseteq held[t] \cup {Head(todo[t])}
    BY <1>3 DEF Acquire, Continue, After, Inv, TypeOK
  <2>3. \A u \in Thread : \A h \in held[u] :
          h.lock = Head(todo[t]).lock => /\ ~Conflict(h.act, Head(todo[t]).act)
                                         /\ ~Conflict(Head(todo[t]).act, h.act)
    BY <1>3 DEF Acquire, Free, Conflict
  <2>4. Exclusion'
    BY <2>2, <2>3 DEF Inv, Exclusion
  <2> QED BY <2>1, <2>4 DEF Inv
<1>4. ASSUME NEW t \in Thread, Release(t) \/ Access(t) PROVE Inv'
  <2>1. TypeOK' /\ RulesKept'
    BY <1>4, ContinueKeeps DEF Release, Access, Inv
  <2>2. ~Acquires(Head(todo[t]))
    BY <1>4 DEF Release, Access, Acquires, Mode
  <2>3. \A u \in Thread : held'[u] \subseteq held[u]
    BY <1>4, <2>2 DEF Release, Access, Continue, After, Inv, TypeOK
  <2>4. Exclusion'
    BY <2>3 DEF Inv, Exclusion
  <2> QED BY <2>1, <2>4 DEF Inv
<1> QED BY <1>1, <1>2, <1>3, <1>4 DEF Next

(* With any number of threads and any functions that keep the rules, the    *)
(* invariant holds.                                                         *)
THEOREM Invariant ==
  ASSUME Disciplined
  PROVE  Spec => []Inv
<1>1. Inv /\ [Next]_vars => Inv'
  BY InvNext
<1> QED BY <1>1, InvInit, PTL DEF Spec

(* The variables keep their types.                                          *)
THEOREM LocksTypeCorrect ==
  ASSUME Disciplined
  PROVE  Spec => []TypeOK
<1>1. Inv => TypeOK
  BY DEF Inv
<1> QED BY <1>1, Invariant, PTL

----------------------------------------------------------------------------
(* A set of numbers that is not empty has a least one.                      *)
LEMMA Least ==
  ASSUME NEW T \in SUBSET Nat, T # {}
  PROVE  \E m \in T : \A n \in T : m <= n
<1> DEFINE R == {ss \in Nat \X Nat : ss[1] < ss[2]}
<1>1. IsWellFoundedOn(R, Nat)
  BY NatLessThanWellFounded DEF OpToRel
<1>2. PICK m \in T : \A n \in T : <<n, m>> \notin R
  <2> HIDE DEF R
  <2> QED BY <1>1, WFMin
<1>3. ASSUME NEW n \in T PROVE m <= n
  <2>1. m \in Nat /\ n \in Nat /\ ~(n < m)
    BY <1>2
  <2> QED BY <2>1
<1> QED BY <1>3

(* What a thread that waits has to do with its locks: they are below the    *)
(* one it waits for.                                                        *)
LEMMA WaitsUpwards ==
  ASSUME Inv, NEW t \in Thread, Waiting(t)
  PROVE  /\ Head(todo[t]) \in Step
         /\ \A h \in held[t] : Rank[h.lock] < Rank[Head(todo[t]).lock]
<1>1. todo[t] \in Seq(Step) /\ todo[t] # << >>
  BY DEF Inv, TypeOK, Waiting, Running
<1>2. /\ Head(todo[t]) \in Step /\ Head(todo[t]) = todo[t][1] /\ 1 \in 1..Len(todo[t])
  BY <1>1, HeadTail
<1>3. HeldBefore(held[t], todo[t], 1) = held[t]
  BY HeldAtOnce
<1>4. InOrder(held[t], todo[t]) /\ Acquires(todo[t][1])
  BY <1>2 DEF Inv, RulesKept, Rules, Waiting
<1> QED BY <1>2, <1>3, <1>4 DEF InOrder

(* In no group of threads does each one wait for another of the group: of   *)
(* the locks waited for take one of the highest rank; its holder waits for  *)
(* a higher one.                                                            *)
LEMMA InvNoWaitCycle == Inv => NoWaitCycle
<1> SUFFICES ASSUME Inv, NEW S \in SUBSET Thread, S # {},
                    \A t \in S : \E u \in S : Behind(t, u)
             PROVE  FALSE
  BY DEF NoWaitCycle
<1> USE LocksAssumption
<1> DEFINE For(t) == Rank[Head(todo[t]).lock]
           Down == {Levels - For(t) : t \in S}
<1>1. \A t \in S : Waiting(t) /\ Head(todo[t]) \in Step
  BY WaitsUpwards DEF Behind
<1>2. \A t \in S : For(t) \in 0..Levels
  BY <1>1 DEF Step
<1>3. PICK t \in S : \A u \in S : For(u) <= For(t)
  <2> HIDE DEF For
  <2>1. Down \in SUBSET Nat /\ Down # {}
    BY <1>2
  <2>2. PICK m \in Down : \A n \in Down : m <= n
    BY <2>1, Least
  <2>3. PICK t \in S : m = Levels - For(t)
    BY <2>2
  <2>4. ASSUME NEW u \in S PROVE For(u) <= For(t)
    <3>1. Levels - For(t) <= Levels - For(u)
      BY <2>2, <2>3
    <3>2. For(u) \in Int /\ For(t) \in Int /\ Levels \in Int
      BY <1>2
    <3> QED BY <3>1, <3>2
  <2> QED BY <2>4
<1>4. ASSUME NEW x \in S, NEW u \in S, NEW h \in held[u],
             h.lock = Head(todo[x]).lock, For(x) = For(t)
      PROVE  FALSE
  <2>1. Rank[h.lock] < For(u)
    BY <1>1, WaitsUpwards
  <2>2. For(t) < For(u)
    BY <1>4, <2>1
  <2>3. For(u) <= For(t) /\ For(u) \in Int /\ For(t) \in Int
    BY <1>2, <1>3
  <2> HIDE DEF For
  <2> QED BY <2>2, <2>3
<1>5. PICK u \in S : Behind(t, u)
  OBVIOUS
<1>6. CASE \E h \in held[u] : h.lock = Head(todo[t]).lock
  BY <1>4, <1>6
<1>7. CASE Head(todo[u]) = [act |-> "exclusive", lock |-> Head(todo[t]).lock]
  <2>1. PICK v \in S : Behind(u, v)
    OBVIOUS
  <2>2. Head(todo[u]).act # "shared"
    BY <1>7
  <2>3. \E h \in held[v] : h.lock = Head(todo[u]).lock
    BY <2>1, <2>2 DEF Behind
  <2>4. For(u) = For(t)
    BY <1>7
  <2> QED BY <1>4, <2>3, <2>4
<1> QED BY <1>5, <1>6, <1>7 DEF Behind

(* The library never locks up, however many threads call it.                *)
THEOREM NoDeadlock ==
  ASSUME Disciplined
  PROVE  Spec => []NoWaitCycle
BY Invariant, InvNoWaitCycle, PTL

----------------------------------------------------------------------------
(* A thread about to write has the lock for writing, one about to read has  *)
(* it somehow.                                                              *)
LEMMA AboutHolds ==
  ASSUME Inv, NEW t \in Thread, NEW l \in Lock
  PROVE  /\ About(t, "writes", l) => [act |-> "exclusive", lock |-> l] \in held[t]
         /\ About(t, "reads", l) => \E h \in held[t] : h.lock = l
<1> SUFFICES ASSUME NEW a \in {"reads", "writes"}, About(t, a, l)
             PROVE  /\ a = "writes" => [act |-> "exclusive", lock |-> l] \in held[t]
                    /\ a = "reads" => \E h \in held[t] : h.lock = l
  OBVIOUS
<1>1. todo[t] \in Seq(Step) /\ todo[t] # << >>
  BY DEF Inv, TypeOK, About, Running
<1>2. /\ todo[t][1] = [act |-> a, lock |-> l] /\ 1 \in 1..Len(todo[t])
  BY <1>1, HeadTail DEF About
<1>3. HeldBefore(held[t], todo[t], 1) = held[t]
  BY HeldAtOnce
<1>4. Guarded(held[t], todo[t])
  BY DEF Inv, RulesKept, Rules
<1>5. todo[t][1].act = a /\ todo[t][1].lock = l
  BY <1>2
<1> QED BY <1>2, <1>3, <1>4, <1>5 DEF Guarded

(* No two threads race on what a lock guards.                               *)
THEOREM RaceFree ==
  ASSUME Disciplined
  PROVE  Spec => []NoRace
<1>1. Inv => NoRace
  <2> SUFFICES ASSUME Inv, NEW t \in Thread, NEW u \in Thread, NEW l \in Lock, t # u,
                      About(t, "writes", l), About(u, "reads", l) \/ About(u, "writes", l)
               PROVE  FALSE
    BY DEF NoRace
  <2> DEFINE w == [act |-> "exclusive", lock |-> l]
  <2>1. w \in held[t] /\ w.lock = l /\ w.act = "exclusive"
    BY AboutHolds
  <2>2. PICK h \in held[u] : h.lock = l
    BY AboutHolds
  <2>3. ~Conflict(w.act, h.act)
    <3> HIDE DEF w
    <3> QED BY <2>1, <2>2 DEF Inv, Exclusion
  <2> QED BY <2>1, <2>3 DEF Conflict
<1> QED BY <1>1, Invariant, PTL

(* A thread leaves the library without a lock of it.                        *)
THEOREM NothingHeldOutside ==
  ASSUME Disciplined
  PROVE  Spec => []IdleHoldsNothing
<1>1. Inv => IdleHoldsNothing
  <2> SUFFICES ASSUME Inv, NEW t \in Thread, ~Running(t)
               PROVE  held[t] = {}
    BY DEF IdleHoldsNothing
  <2>1. todo[t] = << >> /\ HeldBefore(held[t], todo[t], Len(todo[t]) + 1) = {}
    BY DEF Running, Inv, RulesKept, Rules, Balanced
  <2>2. Len(todo[t]) + 1 = 1
    BY <2>1
  <2> QED BY <2>1, <2>2, HeldAtOnce
<1> QED BY <1>1, Invariant, PTL

=============================================================================

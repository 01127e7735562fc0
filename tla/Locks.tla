------------------------------- MODULE Locks ---------------------------------
(****************************************************************************)
(* Threads that take the mutexes and read-write locks of the library.       *)
(*                                                                          *)
(* A function of the library is here the sequence of its steps on locks and *)
(* on the data they guard: it takes a lock (a mutex, or a read-write lock   *)
(* for writing, is taken "exclusive", a read-write lock for reading         *)
(* "shared"), releases it, "reads" or "writes" what the lock guards.  Data  *)
(* has the name of its lock.  Module LockPaths has the sequences of the     *)
(* library; this one holds for any.                                         *)
(*                                                                          *)
(* POSIX leaves open whether a reader gets a lock a writer waits for; so    *)
(* does Acquire, and Behind assumes the worse for the reader.               *)
(****************************************************************************)
EXTENDS Naturals, Sequences

CONSTANTS
  Thread,
  Lock,
  Rank,            \* Rank[l]: the place of lock l in the order of the locks
  Levels,          \* the highest of them
  Program          \* Program[t]: the sequences of steps thread t may run

Mode == {"shared", "exclusive"}
Step == [act : Mode \cup {"release", "reads", "writes"}, lock : Lock]

ASSUME LocksAssumption ==
  /\ Levels \in Nat /\ Rank \in [Lock -> 0..Levels]
  /\ Program \in [Thread -> SUBSET Seq(Step)]

VARIABLES
  todo,            \* todo[t]: the steps left of the call of t
  held             \* held[t]: the steps with which t has taken the locks it has

vars == <<todo, held>>

----------------------------------------------------------------------------
Acquires(s) == s.act \in Mode
Releases(s, l) == s.act = "release" /\ s.lock = l

\* What a thread with the locks h has after step s.
After(h, s) ==
  {x \in h : ~Releases(s, x.lock)} \cup (IF Acquires(s) THEN {s} ELSE {})

Conflict(m, n) == m = "exclusive" \/ n = "exclusive"

\* No thread, t itself included, has the lock in a way that excludes s.
Free(s) == \A u \in Thread : \A h \in held[u] : h.lock = s.lock => ~Conflict(h.act, s.act)

Running(t) == todo[t] # << >>

Call(t) ==
  /\ ~Running(t)
  /\ \E p \in Program[t] : todo' = [todo EXCEPT ![t] = p]
  /\ UNCHANGED held

Continue(t) ==
  /\ todo' = [todo EXCEPT ![t] = Tail(@)]
  /\ held' = [held EXCEPT ![t] = After(@, Head(todo[t]))]

Acquire(t) ==
  /\ Running(t)
  /\ Acquires(Head(todo[t]))
  /\ Free(Head(todo[t]))
  /\ Continue(t)

Release(t) ==
  /\ Running(t)
  /\ Head(todo[t]).act = "release"
  /\ Continue(t)

Access(t) ==
  /\ Running(t)
  /\ Head(todo[t]).act \in {"reads", "writes"}
  /\ Continue(t)

----------------------------------------------------------------------------
Init ==
  /\ todo = [t \in Thread |-> << >>]
  /\ held = [t \in Thread |-> {}]

Next == \E t \in Thread : Call(t) \/ Acquire(t) \/ Release(t) \/ Access(t)

Spec == Init /\ [][Next]_vars

----------------------------------------------------------------------------
(* The rules a sequence of steps has to keep for the properties below.      *)

\* The locks with which a thread comes to step i of p, if it started with h.
HeldBefore(h, p, i) ==
  {s \in h : \A k \in 1..(i - 1) : ~Releases(p[k], s.lock)} \cup
  {p[j] : j \in {k \in 1..(i - 1) :
                   Acquires(p[k]) /\ \A n \in (k + 1)..(i - 1) : ~Releases(p[n], p[k].lock)}}

\* Locks are taken upwards in the order.
InOrder(h, p) ==
  \A i \in 1..Len(p) :
    Acquires(p[i]) => \A s \in HeldBefore(h, p, i) : Rank[s.lock] < Rank[p[i].lock]

\* What is read, or written, is guarded at that moment.
Guarded(h, p) ==
  \A i \in 1..Len(p) :
    /\ p[i].act = "reads" => \E s \in HeldBefore(h, p, i) : s.lock = p[i].lock
    /\ p[i].act = "writes" => [act |-> "exclusive", lock |-> p[i].lock] \in HeldBefore(h, p, i)

\* On every way out all locks have been released.
Balanced(h, p) == HeldBefore(h, p, Len(p) + 1) = {}

Rules(h, p) == InOrder(h, p) /\ Guarded(h, p) /\ Balanced(h, p)

\* What the theorems of LocksProofs assume of the functions.
Disciplined == \A t \in Thread : \A p \in Program[t] : Rules({}, p)

----------------------------------------------------------------------------
(* Every variable has its type.                                             *)
TypeOK ==
  /\ todo \in [Thread -> Seq(Step)]
  /\ held \in [Thread -> SUBSET {s \in Step : Acquires(s)}]

(* Every function keeps the order of the locks, has the guard of what it    *)
(* reads and writes while it does so, and returns without a lock.           *)
CallsKeepRules == [][\A t \in Thread : ~Running(t) => Rules({}, todo'[t])]_vars

\* t waits for u: u has the lock t is about to take, or waits to write where t
\* is about to read.
Waiting(t) == Running(t) /\ Acquires(Head(todo[t]))
Behind(t, u) ==
  /\ Waiting(t)
  /\ LET s == Head(todo[t]) IN
       \/ \E h \in held[u] : h.lock = s.lock /\ Conflict(h.act, s.act)
       \/ /\ s.act = "shared" /\ Waiting(u)
          /\ Head(todo[u]) = [act |-> "exclusive", lock |-> s.lock]

(* The library never locks up: in every group of threads there is one that  *)
(* waits for none of the group.                                             *)
NoWaitCycle == \A S \in SUBSET Thread : S # {} => \E t \in S : \A u \in S : ~Behind(t, u)

About(t, act, l) == Running(t) /\ Head(todo[t]) = [act |-> act, lock |-> l]

(* No thread writes what another one is reading or writing.                 *)
NoRace ==
  \A t, u \in Thread : \A l \in Lock :
    t # u /\ About(t, "writes", l) => ~About(u, "reads", l) /\ ~About(u, "writes", l)

(* A thread that is in no function of the library has no lock of it.        *)
IdleHoldsNothing == \A t \in Thread : ~Running(t) => held[t] = {}
=============================================================================

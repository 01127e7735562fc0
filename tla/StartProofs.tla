----------------------------- MODULE StartProofs ------------------------------
(****************************************************************************)
(* The first part is about the parsers, whatever the files hold.  As long   *)
(* as no parser has met an error, the parsers that run are nested as their  *)
(* elements are, each has read what its keys say, and what has been added   *)
(* to the state is unique and linked.  An error leaves nothing of this to   *)
(* rely on, but it is never taken back.                                     *)
(*                                                                          *)
(* The second part is about starts and stops: whatever the files hold,      *)
(* however often the library is started and whichever way a start fails,    *)
(* the threads are in step with the calls, and the state that is used is    *)
(* the one that the parsers leave.                                          *)
(****************************************************************************)
EXTENDS Start, FiniteSetTheorems, WellFoundedInduction, TLAPS

IsSeq(s) == s \in Seq(Range(s))

IsFrame(f) ==
  /\ f = [p |-> f.p, at |-> f.at, seq |-> f.seq, res |-> f.res, e |-> f.e]
  /\ f.p \in Parsers /\ f.at \in Nat /\ f.seq \in BOOLEAN /\ f.res \in {"run", "done", "error"}

(* The parsers that run, after an error too: a parser that has called       *)
(* another one waits for it.                                                *)
StackOK ==
  /\ document \in Documents /\ file \in {"board", "track", "train"}
  /\ IsSeq(stack) /\ Len(stack) > 0
  /\ \A i \in 1..Len(stack) :
       /\ IsFrame(stack[i])
       /\ stack[i].p = "section" <=> i = 1
       /\ i < Len(stack) => stack[i].res = "run"

DocOK ==
  /\ IsSeq(doc)
  /\ \A i \in 1..Len(doc) : doc[i] = [k |-> doc[i].k, n |-> doc[i].n] /\ doc[i].n \in Nat

Going == Top.res # "error"

----------------------------------------------------------------------------
(* Frames without an error.                                                 *)

Keys(p) == Elements[p].keys

(* The first at \div 2 keys of an element have been read; its lists begin   *)
(* with the id, and have an element before the parser goes on.              *)
ElementOK(f) ==
  f.p \in DOMAIN Elements =>
    /\ f.e = [k \in Range(Keys(f.p)) |-> f.e[k]]
    /\ f.at <= 2 * Len(Keys(f.p))
    /\ \A i \in 1..Len(Keys(f.p)) :
         LET k == Keys(f.p)[i] IN
         /\ 2 * i <= f.at /\ k \notin Lists => f.e[k] # NULL
         /\ 2 * i <= f.at /\ k \in Lists => Len(f.e[k]) > 0
         /\ 2 <= f.at /\ k \in Lists => IsSeq(f.e[k])
    /\ "initial" \in Range(Keys(f.p)) /\ f.at < 2 * Len(Keys(f.p)) => f.e["initial"] = NULL
    /\ "aspects" \in Range(Keys(f.p)) /\ 2 <= f.at =>
         /\ Once(f.e["aspects"], "id")
         /\ f.e["initial"] \in {NULL} \cup Range(Field(f.e["aspects"], "id"))
    /\ f.res = "done" => ~f.seq /\ f.at \in Elements[f.p].ends

SetupOK(f) ==
  f.p = "setup" => f.at \in 0..16 /\ (f.at >= 2 => f.e \in 1..Len(boards))

BoardOK(f) ==
  f.p = "board" =>
    /\ f.e = [id |-> f.e.id, uid |-> f.e.uid, features |-> f.e.features,
              secack_on |-> f.e.secack_on, number |-> f.e.number, value |-> f.e.value,
              ready |-> f.e.ready]
    /\ f.at < 4 => f.e.uid = NULL
    /\ f.seq => f.at >= 5

TrainOK(f) ==
  f.p = "train" =>
    /\ f.e = [id |-> f.e.id, addr |-> f.e.addr, peripherals |-> f.e.peripherals]
    /\ f.at >= 2 => f.e.id # NULL
    /\ f.at >= 4 => f.e.addr # NULL
    /\ f.at < 6 => ~f.seq
    /\ IsSeq(f.e.peripherals) /\ Once(f.e.peripherals, "bit")
    /\ f.res = "done" => f.at \in {6, 10}

SectionOK(f) ==
  /\ f.p = "section" => f.at \in {0, 1, 2}
  /\ f.p \in {"section", "calibration"} => ~f.seq

FrameOK(f) ==
  IsFrame(f) /\ ElementOK(f) /\ SetupOK(f) /\ BoardOK(f) /\ TrainOK(f) /\ SectionOK(f)

(* f is at a place where it calls the parser of g.                          *)
Calls(f, g) ==
  \/ f.p = "section" /\ f.at = 2 /\ g.p = SectionElement[file]
  \/ f.p = "setup" /\ f.seq /\ f.at >= 3 /\ ~KeyDue(f) /\ g.p = SectionParser(SectionOf(f))
  \/ f.p \in DOMAIN Elements /\ f.seq /\ AtList(f) /\ g.p = ListParser(f.p)
  \/ f.p = "train" /\ f.seq /\ f.at = 7 /\ g.p = "calibration"
  \/ f.p = "train" /\ f.seq /\ f.at = 9 /\ g.p = "train_peripheral"

(* The bit of a train peripheral is compared when it is read.               *)
BitFree(f, g) ==
  g.p = "train_peripheral" /\ g.at >= 4 =>
    \A t \in Range(f.e.peripherals) : t.bit # g.e["bit"]

Nesting ==
  /\ \A i \in 1..Len(stack) : FrameOK(stack[i])
  /\ \A i \in 1..(Len(stack) - 1) : Calls(stack[i], stack[i + 1]) /\ BitFree(stack[i], stack[i + 1])

----------------------------------------------------------------------------
(* What has been added to the state.                                        *)

TablesOK ==
  /\ IsSeq(boards) /\ IsSeq(trains) /\ IsSeq(initial_values)
  /\ \A b \in 1..Len(boards) :
       /\ boards[b] = [id |-> boards[b].id, uid |-> boards[b].uid,
                       secack_on |-> boards[b].secack_on, features |-> boards[b].features,
                       parts |-> boards[b].parts]
       /\ boards[b].parts = [s \in Range(Sections) |-> boards[b].parts[s]]
       /\ \A s \in Range(Sections) : IsSeq(boards[b].parts[s])
  /\ track_state = [k \in StateKinds |-> track_state[k]]
  /\ \A k \in StateKinds : IsSeq(track_state[k])

Unique ==
  /\ Once(boards, "id") /\ Once(boards, "uid") /\ Once(trains, "id")
  /\ Once(Parts(Points), "id") /\ Once(Parts(Signals), "id")
  /\ \A s \in {"peripherals", "segments", "reversers"} : Once(Parts({s}), "id")
  /\ Once(Parts(Dcc), "dcc-address") /\ Once(trains, "addr")
  /\ Range(Field(Parts(Dcc), "dcc-address")) \cap Range(Field(trains, "addr")) = {}
  /\ \A b \in Range(boards) : BoardLookupsUnique(b)

(* What the parsers have noted of elements that are not in the state yet.   *)
PendingBoosters ==
  {stack[i].e.id : i \in {j \in 1..Len(stack) : stack[j].p = "board" /\ stack[j].e.uid \in BoosterUids}}
PendingInitial(v) ==
  \/ /\ Len(stack) = 3 /\ stack[2].p = "setup" /\ stack[3].p \in DOMAIN Elements
     /\ stack[3].at = 2 * Len(Keys(stack[3].p))
     /\ v.of = SectionOf(stack[2]) /\ v.id = stack[3].e["id"]
  \/ Len(stack) > 1 /\ stack[2].p = "train" /\ stack[2].at >= 2 /\ v.of = stack[2].e.id

ElementsLinked ==
  /\ \A s \in Range(Sections) : Range(Field(Parts({s}), "id")) = Range(track_state[s])
  /\ Range(Field(trains, "id")) = Range(track_state["trains"])
  /\ \A m \in Range(Parts(Range(Sections))) : Complete(m)
  /\ \A t \in Range(trains) : t.id # NULL /\ t.addr # NULL /\ Once(t.peripherals, "bit")

BoostersLinked == Range(track_state["boosters"]) = BoosterIds \cup PendingBoosters

InitialLinked ==
  \A v \in Range(initial_values) :
    \/ v.of \in Range(Sections) /\ v.id \in Range(track_state[v.of])
    \/ v.of \in Range(track_state["trains"])
    \/ PendingInitial(v)

Linked == ElementsLinked /\ BoostersLinked /\ InitialLinked

----------------------------------------------------------------------------
(* The collections of the file that are open.  Above the document, the      *)
(* mapping of the file and its list, there is a mapping for every parser,   *)
(* and a list for every one that is in a list, in turn.                     *)

DocNode(k, n) == [k |-> k, n |-> n]

SectionDoc ==
  IF Top.res = "done" THEN doc = << >>
  ELSE \/ /\ Top.at = 0
          /\ doc \in {<< >>, <<DocNode("document", 0)>>, <<DocNode("document", 1), DocNode("mapping", 0)>>}
       \/ /\ Top.at = 1
          /\ doc \in {<<DocNode("document", 1), DocNode("mapping", 1)>>, <<DocNode("document", 1)>>}
       \/ /\ Top.at = 2
          /\ \/ doc \in {<<DocNode("document", 1), DocNode("mapping", 2)>>, <<DocNode("document", 1)>>, Closed}
             \/ /\ Len(doc) = 3 /\ doc[1] = DocNode("document", 1) /\ doc[2] = DocNode("mapping", 2)
                /\ doc[3].k = "sequence"

Layers(d, m) ==
  /\ Len(d) = m /\ d[1] = DocNode("document", 1) /\ d[2] = DocNode("mapping", 2)
  /\ \A i \in 3..m : d[i].k = IF i % 2 = 0 THEN "mapping" ELSE "sequence"

Depth ==
  IF Top.p = "calibration" \/ Top.res = "done" THEN 2 * Len(stack) - 1
  ELSE IF Top.seq THEN 2 * Len(stack) + 1 ELSE 2 * Len(stack)

Alternating ==
  /\ Top.p = "section" /\ Top.res = "done" => doc = << >>
  /\ file # "board" => IF Len(stack) = 1 THEN SectionDoc ELSE Layers(doc, Depth)

(* What has been built, and where the parsers are in what they build.       *)
Built == TablesOK /\ Unique /\ Linked
Sound == Nesting /\ Alternating /\ Built

ConfigInv ==
  /\ status = "parsing" => StackOK /\ DocOK /\ (Going => Sound)
  /\ status = "loaded" => Built /\ stack = << >>

----------------------------------------------------------------------------
(* Sequences.                                                               *)

LEMMA SeqIs ==
  ASSUME NEW S, NEW s \in Seq(S)
  PROVE  IsSeq(s)
<1>1. \A i \in 1..Len(s) : s[i] \in Range(s)
  BY DEF Range
<1> QED
  BY <1>1 DEF IsSeq

LEMMA RangeIs ==
  ASSUME NEW s, IsSeq(s)
  PROVE  /\ Len(s) \in Nat /\ DOMAIN s = 1..Len(s)
         /\ Range(s) = {s[i] : i \in 1..Len(s)}
BY DEF IsSeq, Range

LEMMA AppendIs ==
  ASSUME NEW s, IsSeq(s), NEW x
  PROVE  /\ IsSeq(Append(s, x)) /\ Len(Append(s, x)) = Len(s) + 1
         /\ Append(s, x)[Len(s) + 1] = x
         /\ \A i \in 1..Len(s) : Append(s, x)[i] = s[i]
         /\ Range(Append(s, x)) = Range(s) \cup {x}
<1>1. s \in Seq(Range(s) \cup {x}) /\ Append(s, x) \in Seq(Range(s) \cup {x})
  BY DEF IsSeq
<1>2. /\ Len(Append(s, x)) = Len(s) + 1 /\ Append(s, x)[Len(s) + 1] = x
      /\ \A i \in 1..Len(s) : Append(s, x)[i] = s[i]
  BY <1>1
<1>3. IsSeq(Append(s, x))
  BY <1>1, SeqIs
<1>4. Len(s) \in Nat /\ Range(s) = {s[i] : i \in 1..Len(s)}
  BY RangeIs
<1> DEFINE t == Append(s, x)
<1>5. Range(t) = {t[i] : i \in 1..(Len(s) + 1)}
  BY <1>2, <1>3, RangeIs
<1>6. \A i \in 1..(Len(s) + 1) : i \in 1..Len(s) \/ i = Len(s) + 1
  BY <1>4
<1> HIDE DEF t
<1>7. Range(t) = Range(s) \cup {x}
  BY <1>2, <1>4, <1>5, <1>6 DEF t
<1> QED
  BY <1>2, <1>3, <1>7 DEF t

(* The first elements of a sequence.                                        *)
LEMMA PrefixIs ==
  ASSUME NEW s, IsSeq(s), NEW n \in 0..Len(s)
  PROVE  /\ IsSeq(SubSeq(s, 1, n)) /\ Len(SubSeq(s, 1, n)) = n
         /\ \A i \in 1..n : SubSeq(s, 1, n)[i] = s[i]
<1>1. Len(s) \in Nat /\ SubSeq(s, 1, n) \in Seq(Range(s))
  BY DEF IsSeq
<1>2. Len(SubSeq(s, 1, n)) = n /\ \A i \in 1..n : SubSeq(s, 1, n)[i] = s[i]
  BY <1>1 DEF IsSeq
<1> QED
  BY <1>1, <1>2, SeqIs

LEMMA FrontIs ==
  ASSUME NEW s, IsSeq(s), Len(s) > 0
  PROVE  /\ IsSeq(Front(s)) /\ Len(Front(s)) = Len(s) - 1
         /\ \A i \in 1..(Len(s) - 1) : Front(s)[i] = s[i]
<1>1. Len(s) \in Nat /\ Len(s) - 1 \in 0..Len(s)
  BY RangeIs
<1> QED
  BY <1>1, PrefixIs DEF Front

(* The last element is replaced.                                            *)
LEMMA ReplaceLast ==
  ASSUME NEW s, IsSeq(s), Len(s) > 0, NEW x
  PROVE  LET t == Append(Front(s), x) IN
         /\ IsSeq(t) /\ Len(t) = Len(s) /\ t[Len(s)] = x /\ Last(t) = x
         /\ \A i \in 1..(Len(s) - 1) : t[i] = s[i]
<1> DEFINE t == Append(Front(s), x)
<1>1. Len(s) \in Nat
  BY RangeIs
<1>2. Len(t) = Len(s) /\ IsSeq(t) /\ t[Len(s)] = x
  BY <1>1, FrontIs, AppendIs
<1>3. \A i \in 1..(Len(s) - 1) : t[i] = s[i]
  BY <1>1, FrontIs, AppendIs
<1> QED
  BY <1>2, <1>3 DEF Last

LEMMA AppendLast ==
  ASSUME NEW s, IsSeq(s), Len(s) > 0
  PROVE  Append(Front(s), Last(s)) = s
<1> DEFINE t == Append(Front(s), Last(s))
<1>1. IsSeq(t) /\ Len(t) = Len(s) /\ t[Len(s)] = Last(s) /\ \A i \in 1..(Len(s) - 1) : t[i] = s[i]
  BY ReplaceLast
<1> HIDE DEF t
<1>2. \A i \in 1..Len(s) : t[i] = s[i]
  BY <1>1, RangeIs DEF Last
<1>3. t \in Seq(Range(t)) /\ s \in Seq(Range(s)) /\ Len(s) \in Nat
  BY <1>1, RangeIs DEF IsSeq
<1>4. t = s
  BY <1>1, <1>2, <1>3
<1> QED
  BY <1>4 DEF t

(* The last element is replaced, and another one put behind it.             *)
LEMMA ReplaceAppend ==
  ASSUME NEW s, IsSeq(s), Len(s) > 0, NEW x, NEW y
  PROVE  LET t == Append(Append(Front(s), x), y) IN
         /\ IsSeq(t) /\ Len(t) = Len(s) + 1 /\ t[Len(s)] = x /\ t[Len(s) + 1] = y /\ Last(t) = y
         /\ \A i \in 1..(Len(s) - 1) : t[i] = s[i]
<1> DEFINE u == Append(Front(s), x)
           t == Append(u, y)
<1>1. IsSeq(u) /\ Len(u) = Len(s) /\ u[Len(s)] = x /\ \A i \in 1..(Len(s) - 1) : u[i] = s[i]
  BY ReplaceLast
<1>2. Len(s) \in Nat
  BY RangeIs
<1> HIDE DEF u
<1>3. IsSeq(t) /\ Len(t) = Len(s) + 1 /\ t[Len(s) + 1] = y /\ \A i \in 1..Len(s) : t[i] = u[i]
  BY <1>1, AppendIs
<1> HIDE DEF t
<1>4. /\ IsSeq(t) /\ Len(t) = Len(s) + 1 /\ t[Len(s)] = x /\ t[Len(s) + 1] = y /\ Last(t) = y
      /\ \A i \in 1..(Len(s) - 1) : t[i] = s[i]
  BY <1>1, <1>2, <1>3 DEF Last
<1> QED
  BY <1>4 DEF t, u

(* The last two elements are replaced by one.                               *)
LEMMA ReplaceTwo ==
  ASSUME NEW s, IsSeq(s), Len(s) > 1, NEW x
  PROVE  LET t == Append(SubSeq(s, 1, Len(s) - 2), x) IN
         /\ IsSeq(t) /\ Len(t) = Len(s) - 1 /\ t[Len(s) - 1] = x /\ Last(t) = x
         /\ \A i \in 1..(Len(s) - 2) : t[i] = s[i]
<1> DEFINE u == SubSeq(s, 1, Len(s) - 2)
           t == Append(u, x)
<1>1. Len(s) \in Nat /\ IsSeq(u) /\ Len(u) = Len(s) - 2 /\ \A i \in 1..(Len(s) - 2) : u[i] = s[i]
  <2>1. Len(s) \in Nat /\ Len(s) - 2 \in 0..Len(s)
    BY RangeIs
  <2> QED
    BY <2>1, PrefixIs
<1> HIDE DEF u
<1>2. IsSeq(t) /\ Len(t) = Len(s) - 1 /\ t[Len(s) - 1] = x /\ \A i \in 1..(Len(s) - 2) : t[i] = u[i]
  BY <1>1, AppendIs
<1> HIDE DEF t
<1>3. /\ IsSeq(t) /\ Len(t) = Len(s) - 1 /\ t[Len(s) - 1] = x /\ Last(t) = x
      /\ \A i \in 1..(Len(s) - 2) : t[i] = s[i]
  BY <1>1, <1>2 DEF Last
<1> QED
  BY <1>3 DEF t, u

(* Something new is put at a new place: what differed before still does if  *)
(* the new value is not one of the old ones.                                *)
LEMMA OnceMore ==
  ASSUME NEW F, NEW G, NEW n, NEW k,
         n \notin DOMAIN F, DOMAIN G = DOMAIN F \cup {n}, \A x \in DOMAIN F : G[x] = F[x]
  PROVE  /\ Range(Field(G, k)) = Range(Field(F, k)) \cup {G[n][k]}
         /\ Range(G) = Range(F) \cup {G[n]}
         /\ Once(F, k) /\ G[n][k] \notin Range(Field(F, k)) => Once(G, k)
<1>1. /\ DOMAIN Field(F, k) = DOMAIN F /\ \A x \in DOMAIN F : Field(F, k)[x] = F[x][k]
      /\ DOMAIN Field(G, k) = DOMAIN G /\ \A x \in DOMAIN G : Field(G, k)[x] = G[x][k]
  BY DEF Field
<1>2. \A x \in DOMAIN F : Field(G, k)[x] = Field(F, k)[x]
  BY <1>1
<1>3. Field(G, k)[n] = G[n][k]
  BY <1>1
<1>4. Range(Field(G, k)) = Range(Field(F, k)) \cup {G[n][k]} /\ Range(G) = Range(F) \cup {G[n]}
  BY <1>1, <1>2, <1>3 DEF Range
<1>5. ASSUME Once(F, k), G[n][k] \notin Range(Field(F, k)) PROVE Once(G, k)
  <2>1. \A x \in DOMAIN F : Field(F, k)[x] # G[n][k]
    BY <1>1, <1>5 DEF Range
  <2> QED
    BY <1>1, <1>2, <1>3, <1>5, <2>1 DEF Once, IsInjective
<1> QED
  BY <1>4, <1>5

LEMMA OnceAppend ==
  ASSUME NEW s, IsSeq(s), NEW x, NEW k
  PROVE  /\ Range(Field(Append(s, x), k)) = Range(Field(s, k)) \cup {x[k]}
         /\ Once(s, k) /\ x[k] \notin Range(Field(s, k)) => Once(Append(s, x), k)
<1> DEFINE t == Append(s, x)
           n == Len(s) + 1
<1>1. DOMAIN s = 1..Len(s) /\ Len(s) \in Nat /\ DOMAIN t = 1..(Len(s) + 1) /\ t[n] = x
      /\ \A i \in 1..Len(s) : t[i] = s[i]
  BY AppendIs, RangeIs
<1>2. n \notin DOMAIN s /\ DOMAIN t = DOMAIN s \cup {n} /\ \A i \in DOMAIN s : t[i] = s[i]
  BY <1>1
<1>3. t[n][k] = x[k]
  BY <1>1
<1> HIDE DEF t, n
<1>4. /\ Range(Field(t, k)) = Range(Field(s, k)) \cup {t[n][k]}
      /\ Once(s, k) /\ t[n][k] \notin Range(Field(s, k)) => Once(t, k)
  BY <1>2, OnceMore
<1> QED
  BY <1>3, <1>4 DEF t

----------------------------------------------------------------------------
(* The tables of the parsers.                                               *)

ElementNames ==
  {"aspect", "port", "dcc_aspect", "accessory", "dcc_accessory", "peripheral", "segment",
   "reverser", "train_peripheral"}

LEMMA ElementsAre ==
  /\ DOMAIN Elements = ElementNames
  /\ Parsers = ElementNames \cup {"section", "board", "setup", "train", "calibration"}
  /\ Keys("aspect") = <<"id", "value">> /\ Elements["aspect"].ends = {4}
  /\ Keys("port") = <<"port", "value">> /\ Elements["port"].ends = {4}
  /\ Keys("dcc_aspect") = <<"id", "ports">> /\ Elements["dcc_aspect"].ends = {4}
  /\ Keys("accessory") = <<"id", "number", "aspects", "initial">>
  /\ Elements["accessory"].ends = {6, 8}
  /\ Keys("dcc_accessory") = <<"id", "dcc-address", "extended", "aspects", "initial">>
  /\ Elements["dcc_accessory"].ends = {8, 10}
  /\ Keys("peripheral") = <<"id", "number", "port", "aspects", "initial">>
  /\ Elements["peripheral"].ends = {8, 10}
  /\ Keys("segment") = <<"id", "address", "length">> /\ Elements["segment"].ends = {6}
  /\ Keys("reverser") = <<"id", "cv">> /\ Elements["reverser"].ends = {4}
  /\ Keys("train_peripheral") = <<"id", "bit", "initial">>
  /\ Elements["train_peripheral"].ends = {4, 6}
BY DEF Elements, ElementNames, Parsers, Keys, AspectParser, PortParser, DccAspectParser,
       AccessoryParser, DccAccessoryParser, PeripheralParser, SegmentParser, ReverserParser,
       TrainPeripheralParser

(* What the parsers of elements have in common.                             *)
KeysOK(p) ==
  LET n == Len(Keys(p)) IN
  /\ n \in 2..5 /\ DOMAIN Keys(p) = 1..n
  /\ \A i, j \in 1..n : Keys(p)[i] = Keys(p)[j] => i = j
  /\ \A i \in 1..n : Keys(p)[i] = "id" => i = 1
  /\ \A i \in 1..n : Keys(p)[i] = "initial" => i = n
  /\ \A i \in 1..n : Keys(p)[i] \in Lists =>
       Keys(p)[i] = IF p = "dcc_aspect" THEN "ports" ELSE "aspects"
  /\ \A a \in Elements[p].ends : a \in Nat /\ \A i \in 1..n : Keys(p)[i] # "initial" => 2 * i <= a
  /\ "aspects" \in Range(Keys(p)) <=> p \in {"accessory", "dcc_accessory", "peripheral"}
  /\ "ports" \in Range(Keys(p)) <=> p = "dcc_aspect"
  /\ "aspects" \in Range(Keys(p)) => "initial" \in Range(Keys(p))
  /\ p # "port" => Keys(p)[1] = "id"
  /\ p = "port" => Keys(p)[1] = "port" /\ Range(Keys(p)) \cap Lists = {}

LEMMA TuplesAre ==
  /\ \A a, b : LET t == <<a, b>> IN
       Len(t) = 2 /\ DOMAIN t = 1..2 /\ t[1] = a /\ t[2] = b /\ Range(t) = {a, b}
  /\ \A a, b, c : LET t == <<a, b, c>> IN
       /\ Len(t) = 3 /\ DOMAIN t = 1..3 /\ t[1] = a /\ t[2] = b /\ t[3] = c
       /\ Range(t) = {a, b, c}
  /\ \A a, b, c, d : LET t == <<a, b, c, d>> IN
       /\ Len(t) = 4 /\ DOMAIN t = 1..4 /\ t[1] = a /\ t[2] = b /\ t[3] = c /\ t[4] = d
       /\ Range(t) = {a, b, c, d}
  /\ \A a, b, c, d, e : LET t == <<a, b, c, d, e>> IN
       /\ Len(t) = 5 /\ DOMAIN t = 1..5 /\ t[1] = a /\ t[2] = b /\ t[3] = c /\ t[4] = d /\ t[5] = e
       /\ Range(t) = {a, b, c, d, e}
BY DEF Range

LEMMA KeysAreOK == \A p \in DOMAIN Elements : KeysOK(p)
<1>1. KeysOK("aspect")
  <2>1. /\ Len(Keys("aspect")) = 2 /\ DOMAIN Keys("aspect") = 1..2
        /\ Keys("aspect")[1] = "id" /\ Keys("aspect")[2] = "value"
        /\ Range(Keys("aspect")) = {"id", "value"}
        /\ Elements["aspect"].ends = {4}
    BY ElementsAre, TuplesAre
  <2>2. 1..2 = {1, 2}
    OBVIOUS
  <2>3. \A i, j \in 1..2 : Keys("aspect")[i] = Keys("aspect")[j] => i = j
    BY <2>1, <2>2
  <2>4. \A i \in 1..2 : Keys("aspect")[i] # "initial" => \A a \in Elements["aspect"].ends : 2 * i <= a
    BY <2>1, <2>2
  <2>5. /\ \A i \in 1..2 : Keys("aspect")[i] = "id" => i = 1
        /\ \A i \in 1..2 : Keys("aspect")[i] = "initial" => i = 2
        /\ \A i \in 1..2 : Keys("aspect")[i] \in Lists => Keys("aspect")[i] = "aspects"
        /\ \A a \in Elements["aspect"].ends : a \in Nat
    BY <2>1, <2>2 DEF Lists
  <2>6. /\ Len(Keys("aspect")) \in 2..5 /\ DOMAIN Keys("aspect") = 1..Len(Keys("aspect")) /\ Len(Keys("aspect")) = 2
        /\ "aspects" \in Range(Keys("aspect")) <=> "aspect" \in {"accessory", "dcc_accessory", "peripheral"}
        /\ "ports" \in Range(Keys("aspect")) <=> "aspect" = "dcc_aspect"
        /\ "aspects" \in Range(Keys("aspect")) => "initial" \in Range(Keys("aspect"))
        /\ "aspect" # "port" => Keys("aspect")[1] = "id"
        /\ "aspect" = "port" => Keys("aspect")[1] = "port" /\ Range(Keys("aspect")) \cap Lists = {}
    BY <2>1 DEF Lists
  <2> QED
    BY <2>3, <2>4, <2>5, <2>6 DEF KeysOK
<1>2. KeysOK("port")
  <2>1. /\ Len(Keys("port")) = 2 /\ DOMAIN Keys("port") = 1..2
        /\ Keys("port")[1] = "port" /\ Keys("port")[2] = "value"
        /\ Range(Keys("port")) = {"port", "value"}
        /\ Elements["port"].ends = {4}
    BY ElementsAre, TuplesAre
  <2>2. 1..2 = {1, 2}
    OBVIOUS
  <2>3. \A i, j \in 1..2 : Keys("port")[i] = Keys("port")[j] => i = j
    BY <2>1, <2>2
  <2>4. \A i \in 1..2 : Keys("port")[i] # "initial" => \A a \in Elements["port"].ends : 2 * i <= a
    BY <2>1, <2>2
  <2>5. /\ \A i \in 1..2 : Keys("port")[i] = "id" => i = 1
        /\ \A i \in 1..2 : Keys("port")[i] = "initial" => i = 2
        /\ \A i \in 1..2 : Keys("port")[i] \in Lists => Keys("port")[i] = "aspects"
        /\ \A a \in Elements["port"].ends : a \in Nat
    BY <2>1, <2>2 DEF Lists
  <2>6. /\ Len(Keys("port")) \in 2..5 /\ DOMAIN Keys("port") = 1..Len(Keys("port")) /\ Len(Keys("port")) = 2
        /\ "aspects" \in Range(Keys("port")) <=> "port" \in {"accessory", "dcc_accessory", "peripheral"}
        /\ "ports" \in Range(Keys("port")) <=> "port" = "dcc_aspect"
        /\ "aspects" \in Range(Keys("port")) => "initial" \in Range(Keys("port"))
        /\ "port" # "port" => Keys("port")[1] = "id"
        /\ "port" = "port" => Keys("port")[1] = "port" /\ Range(Keys("port")) \cap Lists = {}
    BY <2>1 DEF Lists
  <2> QED
    BY <2>3, <2>4, <2>5, <2>6 DEF KeysOK
<1>3. KeysOK("dcc_aspect")
  <2>1. /\ Len(Keys("dcc_aspect")) = 2 /\ DOMAIN Keys("dcc_aspect") = 1..2
        /\ Keys("dcc_aspect")[1] = "id" /\ Keys("dcc_aspect")[2] = "ports"
        /\ Range(Keys("dcc_aspect")) = {"id", "ports"}
        /\ Elements["dcc_aspect"].ends = {4}
    BY ElementsAre, TuplesAre
  <2>2. 1..2 = {1, 2}
    OBVIOUS
  <2>3. \A i, j \in 1..2 : Keys("dcc_aspect")[i] = Keys("dcc_aspect")[j] => i = j
    BY <2>1, <2>2
  <2>4. \A i \in 1..2 : Keys("dcc_aspect")[i] # "initial" => \A a \in Elements["dcc_aspect"].ends : 2 * i <= a
    BY <2>1, <2>2
  <2>5. /\ \A i \in 1..2 : Keys("dcc_aspect")[i] = "id" => i = 1
        /\ \A i \in 1..2 : Keys("dcc_aspect")[i] = "initial" => i = 2
        /\ \A i \in 1..2 : Keys("dcc_aspect")[i] \in Lists => Keys("dcc_aspect")[i] = "ports"
        /\ \A a \in Elements["dcc_aspect"].ends : a \in Nat
    BY <2>1, <2>2 DEF Lists
  <2>6. /\ Len(Keys("dcc_aspect")) \in 2..5 /\ DOMAIN Keys("dcc_aspect") = 1..Len(Keys("dcc_aspect")) /\ Len(Keys("dcc_aspect")) = 2
        /\ "aspects" \in Range(Keys("dcc_aspect")) <=> "dcc_aspect" \in {"accessory", "dcc_accessory", "peripheral"}
        /\ "ports" \in Range(Keys("dcc_aspect")) <=> "dcc_aspect" = "dcc_aspect"
        /\ "aspects" \in Range(Keys("dcc_aspect")) => "initial" \in Range(Keys("dcc_aspect"))
        /\ "dcc_aspect" # "port" => Keys("dcc_aspect")[1] = "id"
        /\ "dcc_aspect" = "port" => Keys("dcc_aspect")[1] = "port" /\ Range(Keys("dcc_aspect")) \cap Lists = {}
    BY <2>1 DEF Lists
  <2> QED
    BY <2>3, <2>4, <2>5, <2>6 DEF KeysOK
<1>4. KeysOK("accessory")
  <2>1. /\ Len(Keys("accessory")) = 4 /\ DOMAIN Keys("accessory") = 1..4
        /\ Keys("accessory")[1] = "id" /\ Keys("accessory")[2] = "number" /\ Keys("accessory")[3] = "aspects" /\ Keys("accessory")[4] = "initial"
        /\ Range(Keys("accessory")) = {"id", "number", "aspects", "initial"}
        /\ Elements["accessory"].ends = {6, 8}
    BY ElementsAre, TuplesAre
  <2>2. 1..4 = {1, 2, 3, 4}
    OBVIOUS
  <2>3. \A i, j \in 1..4 : Keys("accessory")[i] = Keys("accessory")[j] => i = j
    BY <2>1, <2>2
  <2>4. \A i \in 1..4 : Keys("accessory")[i] # "initial" => \A a \in Elements["accessory"].ends : 2 * i <= a
    BY <2>1, <2>2
  <2>5. /\ \A i \in 1..4 : Keys("accessory")[i] = "id" => i = 1
        /\ \A i \in 1..4 : Keys("accessory")[i] = "initial" => i = 4
        /\ \A i \in 1..4 : Keys("accessory")[i] \in Lists => Keys("accessory")[i] = "aspects"
        /\ \A a \in Elements["accessory"].ends : a \in Nat
    BY <2>1, <2>2 DEF Lists
  <2>6. /\ Len(Keys("accessory")) \in 2..5 /\ DOMAIN Keys("accessory") = 1..Len(Keys("accessory")) /\ Len(Keys("accessory")) = 4
        /\ "aspects" \in Range(Keys("accessory")) <=> "accessory" \in {"accessory", "dcc_accessory", "peripheral"}
        /\ "ports" \in Range(Keys("accessory")) <=> "accessory" = "dcc_aspect"
        /\ "aspects" \in Range(Keys("accessory")) => "initial" \in Range(Keys("accessory"))
        /\ "accessory" # "port" => Keys("accessory")[1] = "id"
        /\ "accessory" = "port" => Keys("accessory")[1] = "port" /\ Range(Keys("accessory")) \cap Lists = {}
    BY <2>1 DEF Lists
  <2> QED
    BY <2>3, <2>4, <2>5, <2>6 DEF KeysOK
<1>5. KeysOK("dcc_accessory")
  <2>1. /\ Len(Keys("dcc_accessory")) = 5 /\ DOMAIN Keys("dcc_accessory") = 1..5
        /\ Keys("dcc_accessory")[1] = "id" /\ Keys("dcc_accessory")[2] = "dcc-address" /\ Keys("dcc_accessory")[3] = "extended" /\ Keys("dcc_accessory")[4] = "aspects" /\ Keys("dcc_accessory")[5] = "initial"
        /\ Range(Keys("dcc_accessory")) = {"id", "dcc-address", "extended", "aspects", "initial"}
        /\ Elements["dcc_accessory"].ends = {8, 10}
    BY ElementsAre, TuplesAre
  <2>2. 1..5 = {1, 2, 3, 4, 5}
    OBVIOUS
  <2>3. \A i, j \in 1..5 : Keys("dcc_accessory")[i] = Keys("dcc_accessory")[j] => i = j
    BY <2>1, <2>2
  <2>4. \A i \in 1..5 : Keys("dcc_accessory")[i] # "initial" => \A a \in Elements["dcc_accessory"].ends : 2 * i <= a
    BY <2>1, <2>2
  <2>5. /\ \A i \in 1..5 : Keys("dcc_accessory")[i] = "id" => i = 1
        /\ \A i \in 1..5 : Keys("dcc_accessory")[i] = "initial" => i = 5
        /\ \A i \in 1..5 : Keys("dcc_accessory")[i] \in Lists => Keys("dcc_accessory")[i] = "aspects"
        /\ \A a \in Elements["dcc_accessory"].ends : a \in Nat
    BY <2>1, <2>2 DEF Lists
  <2>6. /\ Len(Keys("dcc_accessory")) \in 2..5 /\ DOMAIN Keys("dcc_accessory") = 1..Len(Keys("dcc_accessory")) /\ Len(Keys("dcc_accessory")) = 5
        /\ "aspects" \in Range(Keys("dcc_accessory")) <=> "dcc_accessory" \in {"accessory", "dcc_accessory", "peripheral"}
        /\ "ports" \in Range(Keys("dcc_accessory")) <=> "dcc_accessory" = "dcc_aspect"
        /\ "aspects" \in Range(Keys("dcc_accessory")) => "initial" \in Range(Keys("dcc_accessory"))
        /\ "dcc_accessory" # "port" => Keys("dcc_accessory")[1] = "id"
        /\ "dcc_accessory" = "port" => Keys("dcc_accessory")[1] = "port" /\ Range(Keys("dcc_accessory")) \cap Lists = {}
    BY <2>1 DEF Lists
  <2> QED
    BY <2>3, <2>4, <2>5, <2>6 DEF KeysOK
<1>6. KeysOK("peripheral")
  <2>1. /\ Len(Keys("peripheral")) = 5 /\ DOMAIN Keys("peripheral") = 1..5
        /\ Keys("peripheral")[1] = "id" /\ Keys("peripheral")[2] = "number" /\ Keys("peripheral")[3] = "port" /\ Keys("peripheral")[4] = "aspects" /\ Keys("peripheral")[5] = "initial"
        /\ Range(Keys("peripheral")) = {"id", "number", "port", "aspects", "initial"}
        /\ Elements["peripheral"].ends = {8, 10}
    BY ElementsAre, TuplesAre
  <2>2. 1..5 = {1, 2, 3, 4, 5}
    OBVIOUS
  <2>3. \A i, j \in 1..5 : Keys("peripheral")[i] = Keys("peripheral")[j] => i = j
    BY <2>1, <2>2
  <2>4. \A i \in 1..5 : Keys("peripheral")[i] # "initial" => \A a \in Elements["peripheral"].ends : 2 * i <= a
    BY <2>1, <2>2
  <2>5. /\ \A i \in 1..5 : Keys("peripheral")[i] = "id" => i = 1
        /\ \A i \in 1..5 : Keys("peripheral")[i] = "initial" => i = 5
        /\ \A i \in 1..5 : Keys("peripheral")[i] \in Lists => Keys("peripheral")[i] = "aspects"
        /\ \A a \in Elements["peripheral"].ends : a \in Nat
    BY <2>1, <2>2 DEF Lists
  <2>6. /\ Len(Keys("peripheral")) \in 2..5 /\ DOMAIN Keys("peripheral") = 1..Len(Keys("peripheral")) /\ Len(Keys("peripheral")) = 5
        /\ "aspects" \in Range(Keys("peripheral")) <=> "peripheral" \in {"accessory", "dcc_accessory", "peripheral"}
        /\ "ports" \in Range(Keys("peripheral")) <=> "peripheral" = "dcc_aspect"
        /\ "aspects" \in Range(Keys("peripheral")) => "initial" \in Range(Keys("peripheral"))
        /\ "peripheral" # "port" => Keys("peripheral")[1] = "id"
        /\ "peripheral" = "port" => Keys("peripheral")[1] = "port" /\ Range(Keys("peripheral")) \cap Lists = {}
    BY <2>1 DEF Lists
  <2> QED
    BY <2>3, <2>4, <2>5, <2>6 DEF KeysOK
<1>7. KeysOK("segment")
  <2>1. /\ Len(Keys("segment")) = 3 /\ DOMAIN Keys("segment") = 1..3
        /\ Keys("segment")[1] = "id" /\ Keys("segment")[2] = "address" /\ Keys("segment")[3] = "length"
        /\ Range(Keys("segment")) = {"id", "address", "length"}
        /\ Elements["segment"].ends = {6}
    BY ElementsAre, TuplesAre
  <2>2. 1..3 = {1, 2, 3}
    OBVIOUS
  <2>3. \A i, j \in 1..3 : Keys("segment")[i] = Keys("segment")[j] => i = j
    BY <2>1, <2>2
  <2>4. \A i \in 1..3 : Keys("segment")[i] # "initial" => \A a \in Elements["segment"].ends : 2 * i <= a
    BY <2>1, <2>2
  <2>5. /\ \A i \in 1..3 : Keys("segment")[i] = "id" => i = 1
        /\ \A i \in 1..3 : Keys("segment")[i] = "initial" => i = 3
        /\ \A i \in 1..3 : Keys("segment")[i] \in Lists => Keys("segment")[i] = "aspects"
        /\ \A a \in Elements["segment"].ends : a \in Nat
    BY <2>1, <2>2 DEF Lists
  <2>6. /\ Len(Keys("segment")) \in 2..5 /\ DOMAIN Keys("segment") = 1..Len(Keys("segment")) /\ Len(Keys("segment")) = 3
        /\ "aspects" \in Range(Keys("segment")) <=> "segment" \in {"accessory", "dcc_accessory", "peripheral"}
        /\ "ports" \in Range(Keys("segment")) <=> "segment" = "dcc_aspect"
        /\ "aspects" \in Range(Keys("segment")) => "initial" \in Range(Keys("segment"))
        /\ "segment" # "port" => Keys("segment")[1] = "id"
        /\ "segment" = "port" => Keys("segment")[1] = "port" /\ Range(Keys("segment")) \cap Lists = {}
    BY <2>1 DEF Lists
  <2> QED
    BY <2>3, <2>4, <2>5, <2>6 DEF KeysOK
<1>8. KeysOK("reverser")
  <2>1. /\ Len(Keys("reverser")) = 2 /\ DOMAIN Keys("reverser") = 1..2
        /\ Keys("reverser")[1] = "id" /\ Keys("reverser")[2] = "cv"
        /\ Range(Keys("reverser")) = {"id", "cv"}
        /\ Elements["reverser"].ends = {4}
    BY ElementsAre, TuplesAre
  <2>2. 1..2 = {1, 2}
    OBVIOUS
  <2>3. \A i, j \in 1..2 : Keys("reverser")[i] = Keys("reverser")[j] => i = j
    BY <2>1, <2>2
  <2>4. \A i \in 1..2 : Keys("reverser")[i] # "initial" => \A a \in Elements["reverser"].ends : 2 * i <= a
    BY <2>1, <2>2
  <2>5. /\ \A i \in 1..2 : Keys("reverser")[i] = "id" => i = 1
        /\ \A i \in 1..2 : Keys("reverser")[i] = "initial" => i = 2
        /\ \A i \in 1..2 : Keys("reverser")[i] \in Lists => Keys("reverser")[i] = "aspects"
        /\ \A a \in Elements["reverser"].ends : a \in Nat
    BY <2>1, <2>2 DEF Lists
  <2>6. /\ Len(Keys("reverser")) \in 2..5 /\ DOMAIN Keys("reverser") = 1..Len(Keys("reverser")) /\ Len(Keys("reverser")) = 2
        /\ "aspects" \in Range(Keys("reverser")) <=> "reverser" \in {"accessory", "dcc_accessory", "peripheral"}
        /\ "ports" \in Range(Keys("reverser")) <=> "reverser" = "dcc_aspect"
        /\ "aspects" \in Range(Keys("reverser")) => "initial" \in Range(Keys("reverser"))
        /\ "reverser" # "port" => Keys("reverser")[1] = "id"
        /\ "reverser" = "port" => Keys("reverser")[1] = "port" /\ Range(Keys("reverser")) \cap Lists = {}
    BY <2>1 DEF Lists
  <2> QED
    BY <2>3, <2>4, <2>5, <2>6 DEF KeysOK
<1>9. KeysOK("train_peripheral")
  <2>1. /\ Len(Keys("train_peripheral")) = 3 /\ DOMAIN Keys("train_peripheral") = 1..3
        /\ Keys("train_peripheral")[1] = "id" /\ Keys("train_peripheral")[2] = "bit" /\ Keys("train_peripheral")[3] = "initial"
        /\ Range(Keys("train_peripheral")) = {"id", "bit", "initial"}
        /\ Elements["train_peripheral"].ends = {4, 6}
    BY ElementsAre, TuplesAre
  <2>2. 1..3 = {1, 2, 3}
    OBVIOUS
  <2>3. \A i, j \in 1..3 : Keys("train_peripheral")[i] = Keys("train_peripheral")[j] => i = j
    BY <2>1, <2>2
  <2>4. \A i \in 1..3 : Keys("train_peripheral")[i] # "initial" => \A a \in Elements["train_peripheral"].ends : 2 * i <= a
    BY <2>1, <2>2
  <2>5. /\ \A i \in 1..3 : Keys("train_peripheral")[i] = "id" => i = 1
        /\ \A i \in 1..3 : Keys("train_peripheral")[i] = "initial" => i = 3
        /\ \A i \in 1..3 : Keys("train_peripheral")[i] \in Lists => Keys("train_peripheral")[i] = "aspects"
        /\ \A a \in Elements["train_peripheral"].ends : a \in Nat
    BY <2>1, <2>2 DEF Lists
  <2>6. /\ Len(Keys("train_peripheral")) \in 2..5 /\ DOMAIN Keys("train_peripheral") = 1..Len(Keys("train_peripheral")) /\ Len(Keys("train_peripheral")) = 3
        /\ "aspects" \in Range(Keys("train_peripheral")) <=> "train_peripheral" \in {"accessory", "dcc_accessory", "peripheral"}
        /\ "ports" \in Range(Keys("train_peripheral")) <=> "train_peripheral" = "dcc_aspect"
        /\ "aspects" \in Range(Keys("train_peripheral")) => "initial" \in Range(Keys("train_peripheral"))
        /\ "train_peripheral" # "port" => Keys("train_peripheral")[1] = "id"
        /\ "train_peripheral" = "port" => Keys("train_peripheral")[1] = "port" /\ Range(Keys("train_peripheral")) \cap Lists = {}
    BY <2>1 DEF Lists
  <2> QED
    BY <2>3, <2>4, <2>5, <2>6 DEF KeysOK
<1> QED
  BY <1>1, <1>2, <1>3, <1>4, <1>5, <1>6, <1>7, <1>8, <1>9, ElementsAre DEF ElementNames

LEMMA SectionsAre ==
  /\ Len(Sections) = 7 /\ DOMAIN Sections = 1..7
  /\ Range(Sections) = {Sections[i] : i \in 1..7}
  /\ Range(Sections) = {"points-board", "points-dcc", "signals-board", "signals-dcc",
                        "peripherals", "segments", "reversers"}
  /\ StateKinds = Range(Sections) \cup {"boosters", "track_outputs", "trains"}
BY DEF Sections, Range, StateKinds

(* Which parser reads the elements of a section.                            *)
LEMMA SectionParserIs ==
  ASSUME NEW s \in Range(Sections)
  PROVE  /\ SectionParser(s) \in {"accessory", "dcc_accessory", "peripheral", "segment", "reverser"}
         /\ SectionParser(s) = "accessory" => s \in {"points-board", "signals-board"}
         /\ SectionParser(s) = "dcc_accessory" => s \in {"points-dcc", "signals-dcc"}
         /\ SectionParser(s) = "peripheral" => s = "peripherals"
         /\ SectionParser(s) = "segment" => s = "segments"
         /\ SectionParser(s) = "reverser" => s = "reversers"
BY SectionsAre DEF SectionParser

LEMMA ListParserIs ==
  ASSUME NEW p \in {"accessory", "dcc_accessory", "peripheral", "dcc_aspect"}
  PROVE  /\ ListParser(p) \in {"aspect", "dcc_aspect", "port"}
         /\ ListParser(p) = "aspect" => p \in {"accessory", "peripheral"}
         /\ ListParser(p) = "dcc_aspect" => p = "dcc_accessory"
         /\ ListParser(p) = "port" => p = "dcc_aspect"
BY DEF ListParser

LEMMA SectionOfIs ==
  ASSUME NEW f, f.at \in 3..16
  PROVE  SectionOf(f) \in Range(Sections)
<1>1. (f.at - 1) \div 2 \in 1..7
  OBVIOUS
<1> QED
  BY <1>1, SectionsAre DEF SectionOf

LEMMA SectionElementIs ==
  file \in {"board", "track", "train"} => SectionElement[file] \in {"board", "setup", "train"}
BY DEF SectionElement

(* The key that has been read, in an element whose value is due.            *)
LEMMA KeyIs ==
  ASSUME NEW f, IsFrame(f), f.p \in DOMAIN Elements, ~KeyDue(f), f.at <= 2 * Len(Keys(f.p))
  PROVE  \E i \in 1..Len(Keys(f.p)) : f.at = 2 * i - 1 /\ Key(f) = Keys(f.p)[i]
<1>1. Len(Keys(f.p)) \in 2..5
  BY KeysAreOK DEF KeysOK
<1>2. f.at \in Nat /\ f.at % 2 # 0
  BY DEF IsFrame, KeyDue
<1>3. (f.at + 1) \div 2 \in 1..Len(Keys(f.p)) /\ f.at = 2 * ((f.at + 1) \div 2) - 1
  BY <1>1, <1>2
<1> QED
  BY <1>3 DEF Key, Keys

(* The list of a parser that is at it.                                      *)
LEMMA ListIs ==
  ASSUME NEW f, IsFrame(f), f.p \in DOMAIN Elements, AtList(f), f.at <= 2 * Len(Keys(f.p))
  PROVE  /\ f.p \in {"accessory", "dcc_accessory", "peripheral", "dcc_aspect"}
         /\ Key(f) = IF f.p = "dcc_aspect" THEN "ports" ELSE "aspects"
         /\ Key(f) \in Range(Keys(f.p)) /\ f.at >= 3
<1>1. PICK i \in 1..Len(Keys(f.p)) : f.at = 2 * i - 1 /\ Key(f) = Keys(f.p)[i]
  BY KeyIs DEF AtList
<1>2. Len(Keys(f.p)) \in 2..5 /\ KeysOK(f.p)
  BY KeysAreOK DEF KeysOK
<1>3. Key(f) \in Lists /\ Key(f) = IF f.p = "dcc_aspect" THEN "ports" ELSE "aspects"
  BY <1>1, <1>2 DEF AtList, KeysOK
<1>4. Key(f) \in Range(Keys(f.p))
  BY <1>1, <1>2 DEF Range, KeysOK
<1>5. f.p \in {"accessory", "dcc_accessory", "peripheral", "dcc_aspect"}
  BY <1>2, <1>3, <1>4 DEF KeysOK
<1>6. i # 1
  BY <1>1, <1>2, <1>3, <1>5 DEF KeysOK
<1> QED
  BY <1>1, <1>2, <1>3, <1>4, <1>5, <1>6

----------------------------------------------------------------------------
(* What an event does to the stack: the parser on top goes on, meets an     *)
(* error, or calls another one.                                             *)

Keeps(f, g) ==
  /\ f.p \in DOMAIN Elements /\ f.at = 2 * Len(Keys(f.p)) => g.at = f.at /\ g.e = f.e
  /\ f.p = "train" /\ f.at >= 2 => g.at >= 2 /\ g.e.id = f.e.id
  /\ f.p = "board" => g.e.uid = f.e.uid /\ (f.e.uid = NULL \/ g.e.id = f.e.id)

Errs == Goto(Top') /\ IsFrame(Top') /\ Top'.p = Top.p /\ Top'.res = "error"
Moves ==
  /\ Goto(Top') /\ FrameOK(Top') /\ Top'.p = Top.p /\ Top'.res # "error"
  /\ BitFree(Caller, Top')
Waiting == stack'[Len(stack)]
Enters(p) ==
  /\ p \in Parsers \ {"section"} /\ Call(p, Waiting)
  /\ FrameOK(Waiting) /\ Waiting.p = Top.p /\ Waiting.res = "run"
  /\ Waiting.at = Top.at /\ Waiting.e = Top.e
  /\ Calls(Waiting, NewFrame(p))

LEMMA TopIs ==
  ASSUME StackOK
  PROVE  /\ Len(stack) \in Nat \ {0} /\ Top = stack[Len(stack)] /\ IsFrame(Top)
         /\ Top.p = "section" <=> Len(stack) = 1
         /\ Len(stack) > 1 => Caller = stack[Len(stack) - 1] /\ IsFrame(Caller) /\ Caller.res = "run"
<1>1. Len(stack) \in Nat /\ Len(stack) > 0 /\ IsSeq(stack)
  BY RangeIs DEF StackOK
<1>2. Len(stack) \in 1..Len(stack) /\ (Len(stack) > 1 => Len(stack) - 1 \in 1..Len(stack))
  BY <1>1
<1>3. \A i \in 1..Len(stack) :
        /\ IsFrame(stack[i])
        /\ stack[i].p = "section" <=> i = 1
        /\ i < Len(stack) => stack[i].res = "run"
  BY DEF StackOK
<1>4. Top = stack[Len(stack)] /\ Caller = stack[Len(stack) - 1]
  BY DEF Top, Last, Caller
<1>5. IsFrame(Top) /\ (Top.p = "section" <=> Len(stack) = 1)
  BY <1>2, <1>3, <1>4
<1>6. Len(stack) > 1 => IsFrame(Caller) /\ Caller.res = "run"
  BY <1>1, <1>2, <1>3, <1>4
<1> QED
  BY <1>1, <1>4, <1>5, <1>6

LEMMA GotoIs ==
  ASSUME StackOK, NEW g, Goto(g)
  PROVE  /\ IsSeq(stack') /\ Len(stack') = Len(stack) /\ stack'[Len(stack)] = g /\ Top' = g
         /\ \A i \in 1..(Len(stack) - 1) : stack'[i] = stack[i]
<1>1. IsSeq(stack) /\ Len(stack) > 0
  BY DEF StackOK
<1> QED
  BY <1>1, ReplaceLast DEF Goto, Top

LEMMA StayIs == ASSUME StackOK, stack' = stack PROVE Goto(Top) /\ Top' = Top
<1>1. IsSeq(stack) /\ Len(stack) > 0
  BY DEF StackOK
<1> QED
  BY <1>1, AppendLast DEF Goto, Top

LEMMA CallIs ==
  ASSUME StackOK, NEW g, NEW p, Call(p, g)
  PROVE  /\ IsSeq(stack') /\ Len(stack') = Len(stack) + 1 /\ stack'[Len(stack)] = g /\ Waiting = g
         /\ stack'[Len(stack) + 1] = NewFrame(p) /\ Top' = NewFrame(p)
         /\ \A i \in 1..(Len(stack) - 1) : stack'[i] = stack[i]
<1>1. IsSeq(stack) /\ Len(stack) > 0
  BY DEF StackOK
<1> QED
  BY <1>1, ReplaceAppend DEF Call, Top, Waiting

LEMMA WrongErrs == ASSUME StackOK, Wrong PROVE Errs
<1>1. Top' = [Top EXCEPT !.res = "error"] /\ Goto(Top')
  BY GotoIs DEF Wrong
<1>2. IsFrame(Top)
  BY TopIs
<1> QED
  BY <1>1, <1>2 DEF Errs, IsFrame

LEMMA FinishIs ==
  ASSUME StackOK, Finish
  PROVE  Goto(Top') /\ Top' = [Top EXCEPT !.res = "done"]
BY GotoIs DEF Finish

LEMMA NewFrameOK ==
  ASSUME NEW p \in Parsers
  PROVE  /\ FrameOK(NewFrame(p)) /\ NewFrame(p).p = p /\ NewFrame(p).at = 0
         /\ NewFrame(p).seq = FALSE /\ NewFrame(p).res = "run"
         /\ p = "board" => NewFrame(p).e.uid = NULL
<1> DEFINE f == NewFrame(p)
<1>1. f = [p |-> f.p, at |-> f.at, seq |-> f.seq, res |-> f.res, e |-> f.e]
      /\ f.p = p /\ f.at = 0 /\ f.seq = FALSE /\ f.res = "run"
  BY DEF NewFrame
<1>2. IsFrame(f)
  <2> HIDE DEF f
  <2>1. f.at \in Nat /\ f.res \in {"run", "done", "error"} /\ f.p \in Parsers
    BY <1>1
  <2>2. f.seq \in BOOLEAN
    BY <1>1
  <2> QED
    BY <1>1, <2>1, <2>2 DEF IsFrame
<1>3. ElementOK(f)
  <2> SUFFICES ASSUME p \in DOMAIN Elements PROVE ElementOK(f)
    BY <1>1 DEF ElementOK
  <2>1. f.e = Blank(p)
    BY ElementsAre DEF NewFrame, ElementNames
  <2>2. f.e = [k \in Range(Keys(p)) |-> f.e[k]]
    BY <2>1 DEF Blank, Keys
  <2>3. "initial" \in Range(Keys(p)) => f.e["initial"] = NULL
    BY <2>1 DEF Blank, Keys, Pointers
  <2>4. Len(Keys(p)) \in 2..5
    BY KeysAreOK DEF KeysOK
  <2> HIDE DEF f
  <2> QED
    BY <1>1, <2>2, <2>3, <2>4 DEF ElementOK
<1>4. SetupOK(f) /\ SectionOK(f)
  BY <1>1 DEF SetupOK, SectionOK
<1>5. BoardOK(f) /\ (p = "board" => f.e.uid = NULL)
  <2>1. p = "board" => f.e = [id |-> NULL, uid |-> NULL, features |-> << >>, secack_on |-> FALSE,
                              number |-> NULL, value |-> NULL, ready |-> TRUE]
    BY ElementsAre DEF NewFrame, ElementNames
  <2> HIDE DEF f
  <2> QED
    BY <1>1, <2>1 DEF BoardOK
<1>6. TrainOK(f)
  <2>1. p = "train" => f.e = [id |-> NULL, addr |-> NULL, peripherals |-> << >>]
    BY ElementsAre DEF NewFrame, ElementNames
  <2>2. IsSeq(<< >>) /\ \A k : Once(<< >>, k)
    BY DEF IsSeq, Range, Once, Field, IsInjective
  <2> HIDE DEF f
  <2> QED
    BY <1>1, <2>1, <2>2 DEF TrainOK
<1> QED
  BY <1>1, <1>2, <1>3, <1>4, <1>5, <1>6 DEF FrameOK

LEMMA TopOK ==
  ASSUME StackOK, Nesting
  PROVE  /\ FrameOK(Top)
         /\ Len(stack) > 1 => FrameOK(Caller) /\ Calls(Caller, Top) /\ BitFree(Caller, Top)
<1>1. Len(stack) \in Nat \ {0} /\ Top = stack[Len(stack)]
  BY TopIs
<1>2. Len(stack) \in 1..Len(stack)
      /\ (Len(stack) > 1 => /\ Len(stack) - 1 \in 1..Len(stack) /\ Len(stack) - 1 \in 1..(Len(stack) - 1)
                            /\ Len(stack) - 1 + 1 = Len(stack))
  BY <1>1
<1>3. Caller = stack[Len(stack) - 1]
  BY DEF Caller
<1>4. FrameOK(Top)
  BY <1>1, <1>2 DEF Nesting
<1>5. ASSUME Len(stack) > 1
      PROVE  FrameOK(Caller) /\ Calls(Caller, Top) /\ BitFree(Caller, Top)
  BY <1>1, <1>2, <1>3, <1>5 DEF Nesting
<1> QED
  BY <1>4, <1>5

LEMMA ElementFrame ==
  ASSUME NEW g, IsFrame(g), g.p \in DOMAIN Elements, ElementOK(g)
  PROVE  FrameOK(g)
BY ElementsAre DEF FrameOK, ElementNames, SetupOK, BoardOK, TrainOK, SectionOK

LEMMA OtherFrame ==
  ASSUME NEW g, IsFrame(g), g.p \notin DOMAIN Elements, SetupOK(g), BoardOK(g), TrainOK(g), SectionOK(g)
  PROVE  FrameOK(g)
BY DEF FrameOK, ElementOK

(* Only the parser of the file is called by none.                           *)
LEMMA NestedIs ==
  ASSUME StackOK, Top.p # "section"
  PROVE  Len(stack) > 1
<1>1. Len(stack) \in Nat \ {0} /\ Len(stack) # 1
  BY TopIs
<1> QED
  BY <1>1

LEMMA ElementIsNested ==
  ASSUME StackOK, Top.p \in DOMAIN Elements
  PROVE  Len(stack) > 1
<1>1. Top.p # "section"
  BY ElementsAre DEF ElementNames
<1> QED
  BY <1>1, NestedIs

LEMMA ElementKeyMoves ==
  ASSUME StackOK, Nesting, Top.res = "run", NEW w, ElementKey(w)
  PROVE  \/ Errs
         \/ Moves /\ Keeps(Top, Top') /\ Top'.seq = Top.seq /\ Top'.res = "run"
<1> DEFINE n == Len(Keys(Top.p))
<1>1. Top.p \in DOMAIN Elements /\ KeyDue(Top) /\ IsFrame(Top) /\ FrameOK(Top) /\ ElementOK(Top)
  BY TopIs, TopOK DEF ElementKey, FrameOK
<1>2. n \in 2..5 /\ KeysOK(Top.p) /\ Top.at <= 2 * n /\ Top.at \in Nat /\ Top.at % 2 = 0
  BY <1>1, KeysAreOK DEF KeysOK, ElementOK, IsFrame, KeyDue
<1>3. Len(stack) > 1
  BY <1>1, ElementIsNested
<1>4. CASE AllKeys(Top)
  <2>1. CASE Wrong
    BY <2>1, WrongErrs
  <2>2. CASE stack' = stack
    BY <1>1, <1>3, <2>2, StayIs, TopOK DEF Moves, Keeps
  <2> QED
    BY <1>4, <2>1, <2>2 DEF ElementKey
<1>5. CASE ~AllKeys(Top)
  <2>1. CASE Wrong
    BY <2>1, WrongErrs
  <2>2. CASE Advance(Top.at + 1)
    <3> DEFINE g == [Top EXCEPT !.at = Top.at + 1]
    <3>1. Goto(g) /\ Top' = g
      BY <2>2, GotoIs DEF Advance
    <3>2. IsFrame(g) /\ g.p = Top.p /\ g.at = Top.at + 1 /\ g.e = Top.e /\ g.seq = Top.seq /\ g.res = "run"
      BY <1>1 DEF IsFrame
    <3>3. Top.at < 2 * n
      BY <1>2, <1>5 DEF AllKeys, Keys
    <3> HIDE DEF g
    <3>4. ElementOK(g)
      <4>1. g.at <= 2 * n /\ \A i \in 1..n : 2 * i <= g.at => 2 * i <= Top.at
        BY <1>2, <3>2, <3>3
      <4>2. 2 <= g.at => 2 <= Top.at
        BY <1>2, <3>2
      <4> QED
        BY <1>1, <1>2, <3>2, <3>3, <4>1, <4>2 DEF ElementOK
    <3>5. BitFree(Caller, g)
      BY <1>2, <1>3, <3>2, TopOK DEF BitFree
    <3>6. Keeps(Top, g)
      BY <1>1, <3>2, <3>3, ElementsAre DEF Keeps, ElementNames
    <3> QED
      BY <1>1, <3>1, <3>2, <3>4, <3>5, <3>6, ElementFrame DEF Moves
  <2> QED
    BY <1>5, <2>1, <2>2 DEF ElementKey
<1> QED
  BY <1>4, <1>5

LEMMA FrameIs ==
  ASSUME NEW g, g = [x \in DOMAIN g |-> g[x]], DOMAIN g = {"p", "at", "seq", "res", "e"},
         g.p \in Parsers, g.at \in Nat, g.seq \in BOOLEAN, g.res \in {"run", "done", "error"}
  PROVE  IsFrame(g)
<1>1. g = [p |-> g.p, at |-> g.at, seq |-> g.seq, res |-> g.res, e |-> g.e]
  OBVIOUS
<1> QED
  BY <1>1 DEF IsFrame

LEMMA SetSeqIs ==
  ASSUME NEW f, IsFrame(f), NEW q \in BOOLEAN, NEW g, g = [f EXCEPT !.seq = q]
  PROVE  IsFrame(g) /\ g.p = f.p /\ g.at = f.at /\ g.e = f.e /\ g.seq = q /\ g.res = f.res
<1>1. DOMAIN g = {"p", "at", "seq", "res", "e"} /\ g = [x \in DOMAIN g |-> g[x]]
  BY DEF IsFrame
<1>2. g.p = f.p /\ g.at = f.at /\ g.e = f.e /\ g.res = f.res
  BY DEF IsFrame
<1>3. g.seq = q
  BY DEF IsFrame
<1>4. f.p \in Parsers /\ f.at \in Nat /\ f.res \in {"run", "done", "error"}
  BY DEF IsFrame
<1> QED
  BY <1>1, <1>2, <1>3, <1>4, FrameIs

(* A value: what has been read so far stays, and lists begin with the id.   *)
LEMMA StoreIs ==
  ASSUME NEW f, IsFrame(f), f.p \in DOMAIN Elements, ElementOK(f), f.res = "run",
         ~KeyDue(f), Key(f) # "initial", Key(f) \notin Lists, NEW w, w # NULL,
         NEW g, g = [f EXCEPT !.at = f.at + 1, !.e = Store(f, w)]
  PROVE  IsFrame(g) /\ ElementOK(g) /\ g.p = f.p /\ g.at = f.at + 1 /\ g.seq = f.seq /\ g.res = "run"
         /\ g.e = Store(f, w)
<1> DEFINE keys == Keys(f.p)
           n == Len(keys)
<1>1. n \in 2..5 /\ DOMAIN keys = 1..n /\ KeysOK(f.p) /\ f.at \in Nat /\ f.at <= 2 * n
  BY KeysAreOK DEF KeysOK, ElementOK, IsFrame
<1>2. PICK i \in 1..n : f.at = 2 * i - 1 /\ Key(f) = keys[i]
  BY KeyIs, <1>1
<1> DEFINE stored == Store(f, w)
<1>3. IsFrame(g) /\ g.p = f.p /\ g.at = f.at + 1 /\ g.e = Store(f, w) /\ g.seq = f.seq /\ g.res = "run"
  <2>1. g = [f EXCEPT !.at = f.at + 1, !.e = stored]
    OBVIOUS
  <2>3. f.at + 1 \in Nat
    BY <1>1
  <2> HIDE DEF stored
  <2>4. DOMAIN g = {"p", "at", "seq", "res", "e"} /\ g = [x \in DOMAIN g |-> g[x]]
    BY <2>1 DEF IsFrame
  <2>5. g.p = f.p /\ g.at = f.at + 1 /\ g.e = stored /\ g.seq = f.seq /\ g.res = "run"
    BY <2>1 DEF IsFrame
  <2>6. f.p \in Parsers /\ f.seq \in BOOLEAN
    BY DEF IsFrame
  <2> QED
    BY <2>3, <2>4, <2>5, <2>6, FrameIs DEF stored
<1>4. f.e = [k \in Range(keys) |-> f.e[k]]
  BY DEF ElementOK
<1>5. g.e = [k \in Range(keys) |->
               IF k = keys[i] THEN w ELSE IF k \in Lists /\ i = 1 THEN << >> ELSE f.e[k]]
  BY <1>2, <1>3, <1>4 DEF Store
<1>6. \A j \in 1..n : keys[j] \in Range(keys) /\ (keys[j] = keys[i] => j = i)
  BY <1>1 DEF Range, KeysOK
<1>7. \A j \in 1..n : g.e[keys[j]] = IF j = i THEN w ELSE IF keys[j] \in Lists /\ i = 1 THEN << >> ELSE f.e[keys[j]]
  BY <1>5, <1>6
<1>8. g.e = [k \in Range(keys) |-> g.e[k]]
  BY <1>5
<1>9. IsSeq(<< >>) /\ Once(<< >>, "id") /\ Range(Field(<< >>, "id")) = {}
  BY DEF IsSeq, Range, Once, Field, IsInjective
<1>10. ASSUME NEW j \in 1..n
       PROVE  /\ 2 * j <= g.at /\ keys[j] \notin Lists => g.e[keys[j]] # NULL
              /\ 2 * j <= g.at /\ keys[j] \in Lists => Len(g.e[keys[j]]) > 0
              /\ 2 <= g.at /\ keys[j] \in Lists => IsSeq(g.e[keys[j]])
  <2>1. CASE j = i
    BY <1>2, <1>7, <2>1
  <2>2. CASE j # i /\ i = 1
    BY <1>1, <1>2, <1>3, <1>7, <1>9, <2>2
  <2>3. CASE j # i /\ i # 1
    <3>1. 2 * j <= g.at => 2 * j <= f.at
      BY <1>2, <1>3, <2>3
    <3>2. 2 <= f.at
      BY <1>2, <2>3
    <3> QED
      BY <1>7, <2>3, <3>1, <3>2 DEF ElementOK
  <2> QED
    BY <2>1, <2>2, <2>3
<1>11. ASSUME "initial" \in Range(keys)
       PROVE  g.at < 2 * n => g.e["initial"] = NULL
  <2>1. g.e["initial"] = f.e["initial"]
    BY <1>2, <1>5, <1>11, ZenonT(40) DEF Lists
  <2> QED
    BY <1>1, <1>2, <1>3, <1>11, <2>1 DEF ElementOK
<1>12. ASSUME "aspects" \in Range(keys), 2 <= g.at
       PROVE  /\ Once(g.e["aspects"], "id")
              /\ g.e["initial"] \in {NULL} \cup Range(Field(g.e["aspects"], "id"))
  <2>0. "initial" \in Range(keys)
    BY <1>1, <1>12 DEF KeysOK
  <2>1. "initial" \in Range(keys) /\ g.e["initial"] = f.e["initial"]
    BY <1>2, <1>5, <2>0 DEF Lists
  <2>2. CASE i = 1
    <3>1. g.e["aspects"] = << >> /\ f.e["initial"] = NULL
      BY <1>1, <1>2, <1>5, <1>12, <2>1, <2>2 DEF ElementOK, Lists
    <3> QED
      BY <1>9, <2>1, <3>1
  <2>3. CASE i # 1
    BY <1>2, <1>5, <1>12, <2>1, <2>3 DEF ElementOK, Lists
  <2> QED
    BY <2>2, <2>3
<1> HIDE DEF keys
<1>13. g.at <= 2 * n
  BY <1>1, <1>2, <1>3
<1> QED
  BY <1>3, <1>8, <1>10, <1>11, <1>12, <1>13 DEF ElementOK, keys

LEMMA WordIs ==
  ASSUME StackOK, NEW w \in document.words[Top.p]
  PROVE  w # NULL
<1>1. IsFrame(Top) /\ document \in Documents
  BY TopIs DEF StackOK
<1> QED
  BY <1>1, DocumentsAssumption DEF IsFrame

LEMMA ElementValueMoves ==
  ASSUME StackOK, Nesting, Top.res = "run", NEW w \in document.words[Top.p], ElementValue(w)
  PROVE  \/ Errs
         \/ Moves /\ Keeps(Top, Top') /\ Top'.seq = Top.seq /\ Top'.res = "run"
<1>1. /\ Top.p \in DOMAIN Elements /\ ~KeyDue(Top) /\ Key(Top) # "initial"
      /\ IsFrame(Top) /\ FrameOK(Top) /\ ElementOK(Top) /\ Len(stack) > 1
  BY TopIs, TopOK, ElementIsNested DEF ElementValue, FrameOK
<1>2. CASE ~Convertible(Top, w)
  BY <1>2, WrongErrs DEF ElementValue
<1>3. CASE Convertible(Top, w)
  <2> DEFINE g == [Top EXCEPT !.at = Top.at + 1, !.e = Store(Top, w)]
             n == Len(Keys(Top.p))
  <2>1. Goto(g) /\ Top' = g
    BY <1>3, GotoIs DEF ElementValue
  <2>2. Key(Top) \notin Lists
    BY <1>3 DEF Convertible, Lists
  <2>3. w # NULL
    BY WordIs
  <2>4. IsFrame(g) /\ ElementOK(g) /\ g.p = Top.p /\ g.at = Top.at + 1 /\ g.seq = Top.seq /\ g.res = "run"
        /\ g.e = Store(Top, w)
    BY <1>1, <2>2, <2>3, StoreIs
  <2> HIDE DEF g
  <2>5. PICK i \in 1..n : Top.at = 2 * i - 1 /\ Key(Top) = Keys(Top.p)[i]
    BY <1>1, KeyIs DEF ElementOK
  <2>6. n \in 2..5 /\ KeysOK(Top.p)
    BY <1>1, KeysAreOK DEF KeysOK
  <2>7. Keeps(Top, g)
    BY <1>1, <2>5, <2>6, ElementsAre DEF Keeps, ElementNames
  <2>8. BitFree(Caller, g)
    <3> SUFFICES ASSUME Top.p = "train_peripheral", g.at >= 4
                 PROVE  \A t \in Range(Caller.e.peripherals) : t.bit # g.e["bit"]
      BY <2>4 DEF BitFree
    <3>1. /\ Len(Keys(Top.p)) = 3 /\ Keys(Top.p)[1] = "id" /\ Keys(Top.p)[2] = "bit"
          /\ Keys(Top.p)[3] = "initial" /\ Range(Keys(Top.p)) = {"id", "bit", "initial"}
      BY ElementsAre, TuplesAre
    <3>2. i = 2
      BY <1>1, <2>4, <2>5, <3>1
    <3>3. Top.e = [k \in Range(Keys(Top.p)) |-> Top.e[k]]
      BY <1>1 DEF ElementOK
    <3>4. g.e["bit"] = w
      BY <2>4, <2>5, <3>1, <3>2, <3>3 DEF Store
    <3>5. \A t \in Range(Caller.e.peripherals) : t.bit # w
      BY <1>3, <2>5, <3>1, <3>2 DEF Convertible
    <3> QED
      BY <3>4, <3>5
  <2> QED
    BY <1>1, <2>1, <2>4, <2>7, <2>8, ElementFrame DEF Moves
<1> QED
  BY <1>2, <1>3

(* The initial value, which is the last.                                    *)
LEMMA InitialValueMoves ==
  ASSUME StackOK, Nesting, Top.res = "run", NEW w \in document.words[Top.p], InitialValue(w)
  PROVE  \/ Errs
         \/ /\ Moves /\ Keeps(Top, Top') /\ Top'.seq = Top.seq /\ Top'.res = "run"
            /\ Top'.at = 2 * Len(Keys(Top.p)) /\ Top'.e["id"] = Top.e["id"]
<1> DEFINE keys == Keys(Top.p)
           n == Len(keys)
           f == Top
<1>1. /\ f.p \in DOMAIN Elements /\ ~KeyDue(f) /\ Key(f) = "initial"
      /\ IsFrame(f) /\ FrameOK(f) /\ ElementOK(f) /\ Len(stack) > 1
  BY TopIs, TopOK, ElementIsNested DEF InitialValue, FrameOK
<1>2. n \in 2..5 /\ KeysOK(f.p) /\ DOMAIN keys = 1..n
  BY <1>1, KeysAreOK DEF KeysOK
<1>3. PICK i \in 1..n : f.at = 2 * i - 1 /\ Key(f) = keys[i]
  BY <1>1, KeyIs DEF ElementOK
<1>4. i = n /\ f.at = 2 * n - 1 /\ keys[n] = "initial" /\ "initial" \in Range(keys)
  BY <1>1, <1>2, <1>3, SMTT(20) DEF KeysOK, Range
<1>5. CASE Wrong
  BY <1>5, WrongErrs
<1>6. CASE ~Wrong
  <2> DEFINE g == [Top EXCEPT !.at = @ + 1, !.e["initial"] = w]
  <2>1. Goto(g) /\ Top' = g
    BY <1>6, GotoIs DEF InitialValue
  <2>2. f.e = [k \in Range(keys) |-> f.e[k]] /\ f.at \in Nat
    BY <1>1 DEF ElementOK, IsFrame
  <2>3. DOMAIN g = {"p", "at", "seq", "res", "e"} /\ g = [x \in DOMAIN g |-> g[x]]
    BY <1>1 DEF IsFrame
  <2>4. g.p = f.p /\ g.at = 2 * n /\ g.seq = f.seq /\ g.res = "run"
    BY <1>1, <1>2, <1>4 DEF IsFrame
  <2>5. g.e = [f.e EXCEPT !["initial"] = w]
    BY <1>1 DEF IsFrame
  <2>6. g.e = [k \in Range(keys) |-> IF k = "initial" THEN w ELSE f.e[k]]
    BY <2>2, <2>5
  <2>7. IsFrame(g)
    <3>1. f.p \in Parsers /\ f.seq \in BOOLEAN /\ 2 * n \in Nat
      BY <1>1, <1>2 DEF IsFrame
    <3> HIDE DEF g
    <3> QED
      BY <2>3, <2>4, <3>1, FrameIs
  <2>8. w # NULL
    BY WordIs
  <2>9. "aspects" \in Range(keys) => w \in Range(Field(f.e["aspects"], "id"))
    <3> SUFFICES ASSUME "aspects" \in Range(keys) PROVE w \in Range(Field(f.e["aspects"], "id"))
      OBVIOUS
    <3>1. f.p # "train_peripheral"
      BY <1>2 DEF KeysOK
    <3>2. \E a \in Range(Top.e["aspects"]) : a.id = w
      BY <1>6, <3>1 DEF InitialValue
    <3> QED
      BY <3>2 DEF Range, Field
  <2>10. f.p = "train_peripheral" => n = 3
    BY ElementsAre, TuplesAre
  <2>11. "id" # "initial" /\ f.p # "port" => g.e["id"] = f.e["id"]
    <3> SUFFICES ASSUME f.p # "port" PROVE g.e["id"] = f.e["id"]
      OBVIOUS
    <3>1. "id" \in Range(keys)
      BY <1>2 DEF KeysOK, Range
    <3> QED
      BY <2>6, <3>1
  <2>12. f.p # "port"
    <3>1. Range(Keys("port")) = {"port", "value"}
      BY ElementsAre, TuplesAre
    <3> QED
      BY <1>4, <3>1
  <2>13. BitFree(Caller, g)
    <3> SUFFICES ASSUME f.p = "train_peripheral"
                 PROVE  \A t \in Range(Caller.e.peripherals) : t.bit # g.e["bit"]
      BY <2>4 DEF BitFree
    <3>1. BitFree(Caller, f)
      BY <1>1, TopOK
    <3>5. n = 3
      BY <2>10
    <3>6. f.at = 2 * n - 1
      BY <1>4
    <3>4. f.at >= 4
      <4> HIDE DEF n, f
      <4> QED
        BY <3>5, <3>6
    <3>2. "bit" \in Range(keys)
      BY ElementsAre, TuplesAre
    <3>3. g.e["bit"] = f.e["bit"]
      BY <2>6, <3>2
    <3> QED
      BY <3>1, <3>3, <3>4 DEF BitFree
  <2> HIDE DEF g
  <2>14. ElementOK(g)
    <3>1. \A j \in 1..n : keys[j] \in Range(keys) /\ g.e[keys[j]] = IF j = n THEN w ELSE f.e[keys[j]]
      BY <1>2, <1>4, <2>6 DEF Range, KeysOK
    <3>2. \A j \in 1..n : 2 * j <= g.at /\ j # n => 2 * j <= f.at
      BY <1>2, <1>4, <2>4
    <3>3. f.at >= 2
      <4>1. \A k \in 2..5 : 2 * k - 1 >= 2
        OBVIOUS
      <4> HIDE DEF f, n
      <4> QED
        BY <4>1, <1>2, <1>4
    <3>4. keys[n] \notin Lists
      BY <1>4 DEF Lists
    <3>5. ASSUME NEW j \in 1..n
          PROVE  /\ 2 * j <= g.at /\ keys[j] \notin Lists => g.e[keys[j]] # NULL
                 /\ 2 * j <= g.at /\ keys[j] \in Lists => Len(g.e[keys[j]]) > 0
                 /\ 2 <= g.at /\ keys[j] \in Lists => IsSeq(g.e[keys[j]])
      BY <1>1, <2>8, <3>1, <3>2, <3>3, <3>4 DEF ElementOK
    <3>6. "aspects" \in Range(keys) =>
            /\ Once(g.e["aspects"], "id")
            /\ g.e["initial"] \in {NULL} \cup Range(Field(g.e["aspects"], "id"))
      <4>1. "aspects" \in Range(keys) => g.e["aspects"] = f.e["aspects"] /\ g.e["initial"] = w
        BY <1>4, <2>6
      <4> QED
        BY <1>1, <2>9, <3>3, <4>1 DEF ElementOK
    <3>7. g.e = [k \in Range(keys) |-> g.e[k]]
      BY <2>6
    <3> QED
      BY <1>2, <2>4, <3>5, <3>6, <3>7 DEF ElementOK
  <2>15. Keeps(f, g)
    BY <1>1, <1>2, <1>4, <2>4, ElementsAre DEF Keeps, ElementNames
  <2> QED
    BY <1>1, <2>1, <2>4, <2>7, <2>11, <2>12, <2>13, <2>14, <2>15, ElementFrame DEF Moves
<1> QED
  BY <1>5, <1>6

LEMMA ElementSame ==
  ASSUME NEW f, IsFrame(f), f.p \in DOMAIN Elements, ElementOK(f),
         NEW g, g.p = f.p, g.at = f.at, g.e = f.e,
         g.res = "done" => ~g.seq /\ g.at \in Elements[g.p].ends
  PROVE  ElementOK(g)
BY DEF ElementOK

LEMMA ElementSequenceStartMoves ==
  ASSUME StackOK, Nesting, Top.res = "run", ElementSequenceStart
  PROVE  \/ Errs
         \/ Moves /\ Keeps(Top, Top') /\ ~Top.seq /\ Top'.seq /\ Top'.res = "run"
<1>1. /\ Top.p \in DOMAIN Elements /\ IsFrame(Top) /\ FrameOK(Top) /\ ElementOK(Top) /\ Len(stack) > 1
  BY TopIs, TopOK, ElementIsNested DEF ElementSequenceStart, FrameOK
<1>2. CASE Wrong
  BY <1>2, WrongErrs
<1>3. CASE ~Wrong
  <2> DEFINE g == [Top EXCEPT !.seq = TRUE]
  <2>1. Goto(g) /\ Top' = g /\ ~Top.seq
    BY <1>3, GotoIs DEF ElementSequenceStart
  <2>2. IsFrame(g) /\ g.p = Top.p /\ g.at = Top.at /\ g.e = Top.e /\ g.seq = TRUE /\ g.res = "run"
    BY <1>1, SetSeqIs, ZenonT(40)
  <2> HIDE DEF g
  <2>3. ElementOK(g)
    BY <1>1, <2>2, ElementSame
  <2>4. BitFree(Caller, g)
    BY <1>1, <2>2, TopOK DEF BitFree
  <2>5. Keeps(Top, g)
    BY <1>1, <2>2, ElementsAre DEF Keeps, ElementNames
  <2> QED
    BY <1>1, <2>1, <2>2, <2>3, <2>4, <2>5, ElementFrame DEF Moves
<1> QED
  BY <1>2, <1>3

LEMMA ElementSequenceEndMoves ==
  ASSUME StackOK, Nesting, Top.res = "run", ElementSequenceEnd
  PROVE  \/ Errs
         \/ Moves /\ Keeps(Top, Top') /\ Top.seq /\ ~Top'.seq /\ Top'.res = "run"
<1> DEFINE keys == Keys(Top.p)
           n == Len(keys)
           f == Top
<1>1. /\ f.p \in DOMAIN Elements /\ IsFrame(f) /\ FrameOK(f) /\ ElementOK(f) /\ Len(stack) > 1
  BY TopIs, TopOK, ElementIsNested DEF ElementSequenceEnd, FrameOK
<1>2. n \in 2..5 /\ KeysOK(f.p) /\ DOMAIN keys = 1..n
  BY <1>1, KeysAreOK DEF KeysOK
<1>3. CASE Wrong
  BY <1>3, WrongErrs
<1>4. CASE ~Wrong
  <2> DEFINE g == [Top EXCEPT !.at = @ + 1, !.seq = FALSE]
  <2>1. Goto(g) /\ Top' = g /\ f.seq /\ AtList(f) /\ f.e[Key(f)] # << >>
    BY <1>4, GotoIs DEF ElementSequenceEnd
  <2>2. PICK i \in 1..n : f.at = 2 * i - 1 /\ Key(f) = keys[i]
    BY <1>1, <2>1, KeyIs DEF ElementOK, AtList
  <2>3. f.p \in {"accessory", "dcc_accessory", "peripheral", "dcc_aspect"} /\ f.at >= 3
    BY <1>1, <2>1, ListIs DEF ElementOK
  <2>4. DOMAIN g = {"p", "at", "seq", "res", "e"} /\ g = [x \in DOMAIN g |-> g[x]]
    BY <1>1 DEF IsFrame
  <2>5. g.p = f.p /\ g.at = f.at + 1 /\ g.seq = FALSE /\ g.res = "run" /\ g.e = f.e
    BY <1>1 DEF IsFrame
  <2>6. f.p \in Parsers /\ f.at \in Nat /\ f.at + 1 \in Nat
    BY <1>1 DEF IsFrame
  <2> HIDE DEF g
  <2>7. IsFrame(g)
    BY <2>4, <2>5, <2>6, FrameIs
  <2>8. Len(f.e[keys[i]]) > 0
    <3>1. keys[i] \in Lists /\ f.e[keys[i]] # << >>
      BY <2>1, <2>2 DEF AtList
    <3>2. IsSeq(f.e[keys[i]])
      <4>1. 2 <= f.at
        BY <2>3, <2>6
      <4> QED
        BY <1>1, <3>1, <4>1 DEF ElementOK
    <3> QED
      BY <3>1, <3>2 DEF IsSeq
  <2>9. ElementOK(g)
    <3>1. \A j \in 1..n : 2 * j <= g.at => 2 * j <= f.at \/ j = i
      BY <1>2, <2>2, <2>5
    <3>2. keys[i] \in Lists /\ f.at < 2 * n /\ f.at >= 2
      BY <1>2, <2>1, <2>2, <2>3 DEF AtList
    <3>3. ASSUME NEW j \in 1..n
          PROVE  /\ 2 * j <= g.at /\ keys[j] \notin Lists => g.e[keys[j]] # NULL
                 /\ 2 * j <= g.at /\ keys[j] \in Lists => Len(g.e[keys[j]]) > 0
                 /\ 2 <= g.at /\ keys[j] \in Lists => IsSeq(g.e[keys[j]])
      BY <1>1, <2>5, <2>8, <3>1, <3>2 DEF ElementOK
    <3>4. g.e = [k \in Range(keys) |-> g.e[k]] /\ g.at <= 2 * n
      BY <1>1, <1>2, <2>5, <2>6, <3>2 DEF ElementOK
    <3>5. "initial" \in Range(keys) => g.e["initial"] = NULL
      BY <1>1, <2>5, <3>2 DEF ElementOK
    <3>6. "aspects" \in Range(keys) =>
            /\ Once(g.e["aspects"], "id")
            /\ g.e["initial"] \in {NULL} \cup Range(Field(g.e["aspects"], "id"))
      BY <1>1, <2>5, <3>2 DEF ElementOK
    <3> QED
      BY <1>1, <2>5, <3>3, <3>4, <3>5, <3>6 DEF ElementOK
  <2>10. BitFree(Caller, g)
    BY <2>3, <2>5 DEF BitFree
  <2>11. Keeps(f, g)
    <3>1. f.at # 2 * n
      BY <1>2, <2>2
    <3> QED
      BY <2>3, <3>1 DEF Keeps
  <2> QED
    BY <1>1, <2>1, <2>5, <2>7, <2>9, <2>10, <2>11, ElementFrame DEF Moves
<1> QED
  BY <1>3, <1>4

LEMMA ElementMappingStartMoves ==
  ASSUME StackOK, Nesting, Top.res = "run", ElementMappingStart
  PROVE  \/ Errs
         \/ \E p \in Parsers : Enters(p) /\ p # "calibration" /\ Top.seq /\ Waiting.seq
<1>1. /\ Top.p \in DOMAIN Elements /\ IsFrame(Top) /\ FrameOK(Top) /\ ElementOK(Top)
  BY TopIs, TopOK DEF ElementMappingStart, FrameOK
<1>2. CASE Wrong
  BY <1>2, WrongErrs
<1>3. CASE ~Wrong
  <2> DEFINE p == ListParser(Top.p)
  <2>1. Call(p, Top) /\ Waiting = Top /\ Top.seq /\ AtList(Top)
    BY <1>3, CallIs DEF ElementMappingStart
  <2>2. p \in {"aspect", "dcc_aspect", "port"}
    BY <1>1, <2>1, ListIs, ListParserIs DEF ElementOK
  <2>3. p \in Parsers \ {"section"} /\ p # "calibration"
    BY <2>2, ElementsAre DEF ElementNames
  <2>4. Calls(Top, NewFrame(p))
    BY <1>1, <2>1, <2>3, NewFrameOK DEF Calls
  <2> QED
    BY <1>1, <2>1, <2>3, <2>4 DEF Enters
<1> QED
  BY <1>2, <1>3

LEMMA ElementMappingEndMoves ==
  ASSUME StackOK, Nesting, Top.res = "run", ElementMappingEnd
  PROVE  \/ Errs
         \/ Moves /\ Keeps(Top, Top') /\ ~Top.seq /\ Top'.seq = Top.seq /\ Top'.res = "done"
<1>1. /\ Top.p \in DOMAIN Elements /\ IsFrame(Top) /\ FrameOK(Top) /\ ElementOK(Top) /\ Len(stack) > 1
  BY TopIs, TopOK, ElementIsNested DEF ElementMappingEnd, FrameOK
<1>2. CASE Wrong
  BY <1>2, WrongErrs
<1>3. CASE ~Wrong
  <2> DEFINE g == [Top EXCEPT !.res = "done"]
  <2>1. Goto(g) /\ Top' = g /\ ~Top.seq /\ Top.at \in Elements[Top.p].ends
    BY <1>3, FinishIs DEF ElementMappingEnd
  <2>2. IsFrame(g) /\ g.p = Top.p /\ g.at = Top.at /\ g.e = Top.e /\ g.seq = Top.seq /\ g.res = "done"
    BY <1>1 DEF IsFrame
  <2> HIDE DEF g
  <2>3. ElementOK(g)
    BY <1>1, <2>1, <2>2, ElementSame
  <2>4. BitFree(Caller, g)
    BY <1>1, <2>2, TopOK DEF BitFree
  <2>5. Keeps(Top, g)
    BY <1>1, <2>2, ElementsAre DEF Keeps, ElementNames
  <2> QED
    BY <1>1, <2>1, <2>2, <2>3, <2>4, <2>5, ElementFrame DEF Moves
<1> QED
  BY <1>2, <1>3

(* Where each parser can be.                                                *)
Level(f, g) ==
  /\ g.p \in {"board", "setup", "train"} => f.p = "section" /\ g.p = SectionElement[file]
  /\ g.p \in {"accessory", "dcc_accessory", "peripheral", "segment", "reverser"} =>
       f.p = "setup" /\ f.at \in 3..16 /\ SectionParser(SectionOf(f)) = g.p
  /\ g.p \in {"calibration", "train_peripheral"} => f.p = "train"
  /\ g.p = "aspect" => f.p \in {"accessory", "peripheral"}
  /\ g.p = "dcc_aspect" => f.p = "dcc_accessory"
  /\ g.p = "port" => f.p = "dcc_aspect"

LEMMA CallsLevel ==
  ASSUME StackOK, NEW f, FrameOK(f), NEW g, Calls(f, g)
  PROVE  Level(f, g)
<1>1. CASE f.p = "section" /\ f.at = 2 /\ g.p = SectionElement[file]
  <2>1. g.p \in {"board", "setup", "train"}
    BY <1>1, SectionElementIs DEF StackOK
  <2> QED
    BY <1>1, <2>1 DEF Level
<1>2. CASE f.p = "setup" /\ f.seq /\ f.at >= 3 /\ ~KeyDue(f) /\ g.p = SectionParser(SectionOf(f))
  <2>1. f.at \in 3..16
    BY <1>2 DEF FrameOK, SetupOK
  <2>2. g.p \in {"accessory", "dcc_accessory", "peripheral", "segment", "reverser"}
    BY <1>2, <2>1, SectionOfIs, SectionParserIs
  <2> QED
    BY <1>2, <2>1, <2>2 DEF Level
<1>3. CASE f.p \in DOMAIN Elements /\ f.seq /\ AtList(f) /\ g.p = ListParser(f.p)
  <2>1. f.p \in {"accessory", "dcc_accessory", "peripheral", "dcc_aspect"}
    BY <1>3, ListIs DEF FrameOK, ElementOK
  <2> QED
    BY <1>3, <2>1, ListParserIs DEF Level
<1>4. CASE f.p = "train" /\ f.seq /\ f.at = 7 /\ g.p = "calibration"
  BY <1>4 DEF Level
<1>5. CASE f.p = "train" /\ f.seq /\ f.at = 9 /\ g.p = "train_peripheral"
  BY <1>5 DEF Level
<1> QED
  BY <1>1, <1>2, <1>3, <1>4, <1>5 DEF Calls

LEMMA LevelIs ==
  ASSUME StackOK, Nesting, NEW i \in 2..Len(stack)
  PROVE  /\ Level(stack[i - 1], stack[i]) /\ FrameOK(stack[i - 1])
         /\ stack[i - 1].p = "section" <=> i = 2
<1>1. Len(stack) \in Nat /\ i - 1 \in 1..(Len(stack) - 1) /\ i - 1 \in 1..Len(stack) /\ i - 1 + 1 = i
  BY TopIs
<1>2. i - 1 = 1 <=> i = 2
  BY <1>1
<1>3. Calls(stack[i - 1], stack[i]) /\ FrameOK(stack[i - 1])
  BY <1>1 DEF Nesting
<1>4. stack[i - 1].p = "section" <=> i - 1 = 1
  BY <1>1 DEF StackOK
<1> QED
  BY <1>2, <1>3, <1>4, CallsLevel

(* The same for the parser on top.                                          *)
LEMMA CallerIs ==
  ASSUME StackOK, Nesting, Top.p # "section"
  PROVE  /\ Top.p \in {"board", "setup", "train"} =>
              Len(stack) = 2 /\ Caller.p = "section" /\ Top.p = SectionElement[file]
         /\ Top.p \in {"accessory", "dcc_accessory", "peripheral", "segment", "reverser"} =>
              /\ Len(stack) = 3 /\ Caller.p = "setup" /\ SectionOf(Caller) \in Range(Sections)
              /\ SectionParser(SectionOf(Caller)) = Top.p /\ Caller.e \in 1..Len(boards)
         /\ Top.p \in {"calibration", "train_peripheral"} => Len(stack) = 3 /\ Caller.p = "train"
         /\ Top.p \in {"aspect", "dcc_aspect"} => Len(stack) > 3
         /\ Top.p = "aspect" => Caller.p \in {"accessory", "peripheral"}
         /\ Top.p = "dcc_aspect" => Caller.p = "dcc_accessory"
         /\ Top.p = "port" => Caller.p = "dcc_aspect" /\ Len(stack) > 3
<1>0. PICK i \in Nat : i = Len(stack)
  BY TopIs
<1>1. i > 1 /\ i \in 2..Len(stack) /\ Top = stack[i] /\ Caller = stack[i - 1]
  BY <1>0, TopIs, NestedIs
<1>2. Level(Caller, Top) /\ FrameOK(Caller) /\ (Caller.p = "section" <=> i = 2)
  BY <1>1, LevelIs
<1>3. i # 2 => i - 1 \in 2..Len(stack)
  BY <1>0, <1>1
<1>4. i # 2 => Level(stack[i - 1 - 1], Caller) /\ (stack[i - 1 - 1].p = "section" <=> i - 1 = 2)
  BY <1>1, <1>3, LevelIs
<1>5. i - 1 = 2 <=> i = 3
  BY <1>1
<1>6. Caller.p \in {"setup", "train"} => i = 3
  BY <1>2, <1>4, <1>5 DEF Level
<1>7. Caller.p \in {"accessory", "peripheral", "dcc_accessory", "dcc_aspect"} => i # 2 /\ i # 3
  BY <1>2, <1>4, <1>5 DEF Level
<1>8. i # 2 /\ i # 3 => i > 3
  BY <1>1
<1>9. Caller.p = "setup" /\ Caller.at \in 3..16 => SectionOf(Caller) \in Range(Sections) /\ Caller.e \in 1..Len(boards)
  BY <1>2, SectionOfIs DEF FrameOK, SetupOK
<1> QED
  BY <1>0, <1>2, <1>6, <1>7, <1>8, <1>9 DEF Level

LEMMA OtherMoves ==
  ASSUME StackOK, NEW g, Goto(g), IsFrame(g), g.p = Top.p, g.p \notin DOMAIN Elements,
         g.res # "error", SetupOK(g), BoardOK(g), TrainOK(g), SectionOK(g)
  PROVE  Moves /\ Top' = g
<1>1. Top' = g
  BY GotoIs
<1>2. g.p # "train_peripheral"
  BY ElementsAre DEF ElementNames
<1> QED
  BY <1>1, <1>2, OtherFrame DEF Moves, BitFree

LEMMA AdvanceIs ==
  ASSUME StackOK, NEW a \in Nat, Advance(a)
  PROVE  LET g == [Top EXCEPT !.at = a] IN
         /\ Goto(g) /\ Top' = g /\ IsFrame(g)
         /\ g.p = Top.p /\ g.at = a /\ g.e = Top.e /\ g.seq = Top.seq /\ g.res = Top.res
<1> DEFINE g == [Top EXCEPT !.at = a]
<1>1. Goto(g) /\ Top' = g
  BY GotoIs DEF Advance
<1>2. IsFrame(Top)
  BY TopIs
<1>3. IsFrame(g) /\ g.p = Top.p /\ g.at = a /\ g.e = Top.e /\ g.seq = Top.seq /\ g.res = Top.res
  BY <1>2 DEF IsFrame
<1> QED
  BY <1>1, <1>3

----------------------------------------------------------------------------
(* The setup of a board.                                                    *)

LEMMA SetupTo ==
  ASSUME StackOK, NEW g, Goto(g), IsFrame(g), Top.p = "setup", g.p = "setup", g.res # "error",
         g.at \in 0..16, g.at >= 2 => g.e \in 1..Len(boards)
  PROVE  Moves /\ Top' = g /\ Keeps(Top, Top')
<1>1. "setup" \notin DOMAIN Elements
  BY ElementsAre DEF ElementNames
<1>2. SetupOK(g) /\ BoardOK(g) /\ TrainOK(g) /\ SectionOK(g)
  BY DEF SetupOK, BoardOK, TrainOK, SectionOK
<1>3. Moves /\ Top' = g
  BY <1>1, <1>2, OtherMoves
<1> QED
  BY <1>1, <1>3 DEF Keeps

LEMMA BoardFound ==
  ASSUME TablesOK, NEW w, \E b \in Range(boards) : b.id = w
  PROVE  BoardIndex(w) \in 1..Len(boards)
<1> DEFINE I == {i \in 1..Len(boards) : boards[i].id = w}
<1>1. IsSeq(boards) /\ Len(boards) \in Nat /\ Range(boards) = {boards[i] : i \in 1..Len(boards)}
  BY RangeIs DEF TablesOK
<1>2. I # {} /\ I \subseteq Nat
  BY <1>1
<1>3. \E m \in I : \A i \in I : m <= i
  <2>1. PICK m \in I : \A i \in I : ~(<<i, m>> \in OpToRel(<, Nat))
    BY <1>2, NatLessThanWellFounded, WFMin
  <2>2. \A i \in I : ~(i < m)
    BY <1>2, <2>1 DEF OpToRel
  <2> QED
    BY <1>2, <2>2
<1>4. Min(I) \in I
  BY <1>3 DEF Min
<1>5. BoardIndex(w) = Min(I)
  BY <1>2 DEF SelectInSeq, BoardIndex
<1> QED
  BY <1>4, <1>5

LEMMA SetupScalarMoves ==
  ASSUME StackOK, Nesting, TablesOK, Top.res = "run", NEW w, SetupScalar(w)
  PROVE  \/ Errs
         \/ Moves /\ Keeps(Top, Top') /\ Top'.seq = Top.seq /\ Top'.res = "run"
<1>1. Top.p = "setup" /\ IsFrame(Top) /\ Top.at \in 0..16 /\ (Top.at >= 2 => Top.e \in 1..Len(boards))
  BY TopIs, TopOK DEF SetupScalar, FrameOK, SetupOK
<1>2. CASE Wrong
  BY <1>2, WrongErrs
<1>3. CASE Top.at = 0 /\ Advance(1)
  <2> DEFINE g == [Top EXCEPT !.at = 1]
  <2>1. Goto(g) /\ IsFrame(g) /\ g.p = Top.p /\ g.at = 1 /\ g.seq = Top.seq /\ g.res = Top.res
    BY <1>3, AdvanceIs
  <2> HIDE DEF g
  <2> QED
    BY <1>1, <2>1, SetupTo
<1>4. CASE Top.at = 1 /\ BoardOfSetup(w) /\ ~Wrong
  <2> DEFINE b0 == BoardIndex(w)
             g == [Top EXCEPT !.at = 2, !.e = b0]
  <2>1. Goto(g) /\ b0 \in 1..Len(boards)
    <3>1. \E b \in Range(boards) : b.id = w
      BY <1>4 DEF BoardOfSetup
    <3>2. Goto(g)
      BY <1>4 DEF BoardOfSetup
    <3>3. b0 \in 1..Len(boards)
      BY <3>1, BoardFound
    <3> QED
      BY <3>2, <3>3
  <2> HIDE DEF b0
  <2>2. DOMAIN g = {"p", "at", "seq", "res", "e"} /\ g = [x \in DOMAIN g |-> g[x]]
    BY <1>1 DEF IsFrame
  <2>3. g.p = Top.p /\ g.at = 2 /\ g.e = b0 /\ g.seq = Top.seq /\ g.res = "run"
    BY <1>1 DEF IsFrame
  <2>4. Top.p \in Parsers /\ Top.seq \in BOOLEAN
    BY <1>1 DEF IsFrame
  <2> HIDE DEF g
  <2>5. IsFrame(g)
    BY <2>2, <2>3, <2>4, FrameIs
  <2> QED
    BY <1>1, <2>1, <2>3, <2>5, SetupTo
<1>5. ASSUME Top.at > 1, NEW s \in 1..Len(Sections), Advance(2 * s + 1)
      PROVE  Moves /\ Keeps(Top, Top') /\ Top'.seq = Top.seq /\ Top'.res = "run"
  <2> DEFINE a == 2 * s + 1
             g == [Top EXCEPT !.at = a]
  <2>1. a \in 0..16 /\ a \in Nat /\ Top.e \in 1..Len(boards)
    BY <1>1, <1>5, SectionsAre
  <2> HIDE DEF a
  <2>2. /\ Goto(g) /\ Top' = g /\ IsFrame(g)
        /\ g.p = "setup" /\ g.at = a /\ g.e = Top.e /\ g.seq = Top.seq /\ g.res = "run"
    BY <1>1, <1>5, <2>1, AdvanceIs DEF a
  <2> HIDE DEF g
  <2>3. Moves /\ Keeps(Top, Top')
    BY <1>1, <2>1, <2>2, SetupTo
  <2> QED
    BY <2>2, <2>3
<1> QED
  <2>1. \/ Wrong
        \/ Top.at = 0 /\ Advance(1)
        \/ Top.at = 1 /\ BoardOfSetup(w)
        \/ /\ Top.at > 1
           /\ \E s \in 1..Len(Sections) : Sections[s] = w
           /\ Advance(2 * (CHOOSE s \in 1..Len(Sections) : Sections[s] = w) + 1)
    BY DEF SetupScalar
  <2>2. (\E s \in 1..Len(Sections) : Sections[s] = w)
          => (CHOOSE s \in 1..Len(Sections) : Sections[s] = w) \in 1..Len(Sections)
    OBVIOUS
  <2> QED
    BY <1>2, <1>3, <1>4, <1>5, <2>1, <2>2

LEMMA SetupSequenceStartMoves ==
  ASSUME StackOK, Nesting, Top.res = "run", SetupSequenceStart
  PROVE  \/ Errs
         \/ Moves /\ Keeps(Top, Top') /\ ~Top.seq /\ Top'.seq /\ Top'.res = "run"
<1>1. Top.p = "setup" /\ IsFrame(Top) /\ Top.at \in 0..16 /\ (Top.at >= 2 => Top.e \in 1..Len(boards))
  BY TopIs, TopOK DEF SetupSequenceStart, FrameOK, SetupOK
<1>2. CASE Wrong
  BY <1>2, WrongErrs
<1>3. CASE ~Wrong
  <2> DEFINE g == [Top EXCEPT !.seq = TRUE]
  <2>1. Goto(g) /\ ~Top.seq
    BY <1>3 DEF SetupSequenceStart
  <2>2. IsFrame(g) /\ g.p = Top.p /\ g.at = Top.at /\ g.e = Top.e /\ g.seq = TRUE /\ g.res = "run"
    BY <1>1, SetSeqIs
  <2> HIDE DEF g
  <2> QED
    BY <1>1, <2>1, <2>2, SetupTo
<1> QED
  BY <1>2, <1>3

LEMMA SetupSequenceEndMoves ==
  ASSUME StackOK, Nesting, Top.res = "run", SetupSequenceEnd
  PROVE  \/ Errs
         \/ Moves /\ Keeps(Top, Top') /\ Top.seq /\ ~Top'.seq /\ Top'.res = "run"
<1>1. Top.p = "setup" /\ IsFrame(Top) /\ Top.at \in 0..16 /\ (Top.at >= 2 => Top.e \in 1..Len(boards))
  BY TopIs, TopOK DEF SetupSequenceEnd, FrameOK, SetupOK
<1>2. CASE Wrong
  BY <1>2, WrongErrs
<1>3. CASE ~Wrong
  <2> DEFINE g == [Top EXCEPT !.at = @ + 1, !.seq = FALSE]
  <2>1. Goto(g) /\ Top.seq /\ Top.at >= 3 /\ Top.at % 2 # 0
    BY <1>3 DEF SetupSequenceEnd, KeyDue
  <2>2. DOMAIN g = {"p", "at", "seq", "res", "e"} /\ g = [x \in DOMAIN g |-> g[x]]
    BY <1>1 DEF IsFrame
  <2>3. g.p = Top.p /\ g.at = Top.at + 1 /\ g.e = Top.e /\ g.seq = FALSE /\ g.res = "run"
    BY <1>1 DEF IsFrame
  <2>4. Top.p \in Parsers /\ Top.at + 1 \in Nat /\ Top.at + 1 \in 0..16
    <3>1. \A k \in 0..16 : k % 2 # 0 => k + 1 \in Nat /\ k + 1 \in 0..16
      OBVIOUS
    <3> HIDE DEF g
    <3> QED
      BY <1>1, <2>1, <3>1 DEF IsFrame
  <2> HIDE DEF g
  <2>5. IsFrame(g)
    BY <2>2, <2>3, <2>4, FrameIs
  <2>6. g.e \in 1..Len(boards)
    BY <1>1, <2>1, <2>3
  <2> QED
    BY <1>1, <2>1, <2>3, <2>4, <2>5, <2>6, SetupTo
<1> QED
  BY <1>2, <1>3

LEMMA SetupMappingStartMoves ==
  ASSUME StackOK, Nesting, Top.res = "run", SetupMappingStart
  PROVE  \/ Errs
         \/ \E p \in Parsers : Enters(p) /\ p # "calibration" /\ Top.seq /\ Waiting.seq
<1>1. Top.p = "setup" /\ IsFrame(Top) /\ FrameOK(Top) /\ Top.at \in 0..16
  BY TopIs, TopOK DEF SetupMappingStart, FrameOK, SetupOK
<1>2. CASE Wrong
  BY <1>2, WrongErrs
<1>3. CASE ~Wrong
  <2> DEFINE p == SectionParser(SectionOf(Top))
  <2>1. Call(p, Top) /\ Waiting = Top /\ Top.seq /\ Top.at >= 3 /\ ~KeyDue(Top)
    BY <1>3, CallIs DEF SetupMappingStart
  <2>2. SectionOf(Top) \in Range(Sections)
    BY <1>1, <2>1, SectionOfIs
  <2>3. p \in Parsers \ {"section"} /\ p # "calibration"
    BY <2>2, SectionParserIs, ElementsAre DEF ElementNames
  <2>4. Calls(Top, NewFrame(p))
    BY <1>1, <2>1, <2>3, NewFrameOK DEF Calls
  <2> QED
    BY <1>1, <2>1, <2>3, <2>4 DEF Enters
<1> QED
  BY <1>2, <1>3

LEMMA SetupMappingEndMoves ==
  ASSUME StackOK, Nesting, Top.res = "run", SetupMappingEnd
  PROVE  Moves /\ Keeps(Top, Top') /\ Top'.seq = Top.seq /\ Top'.res = "done"
<1>1. Top.p = "setup" /\ IsFrame(Top) /\ Top.at \in 0..16 /\ (Top.at >= 2 => Top.e \in 1..Len(boards))
  BY TopIs, TopOK DEF SetupMappingEnd, FrameOK, SetupOK
<1> DEFINE g == [Top EXCEPT !.res = "done"]
<1>2. Goto(g)
  BY FinishIs DEF SetupMappingEnd
<1>3. IsFrame(g) /\ g.p = Top.p /\ g.at = Top.at /\ g.e = Top.e /\ g.seq = Top.seq /\ g.res = "done"
  BY <1>1 DEF IsFrame
<1> HIDE DEF g
<1> QED
  BY <1>1, <1>2, <1>3, SetupTo

----------------------------------------------------------------------------
(* A board, and its features.                                               *)

(* Two fields of a frame are set.                                           *)
SetTo(f, a, x) == [f EXCEPT !.at = a, !.e = x]

LEMMA SetIs ==
  ASSUME NEW f, IsFrame(f), NEW a \in Nat, NEW x
  PROVE  LET g == SetTo(f, a, x) IN
         IsFrame(g) /\ g.p = f.p /\ g.at = a /\ g.e = x /\ g.seq = f.seq /\ g.res = f.res
<1> DEFINE g == [f EXCEPT !.at = a, !.e = x]
<1>1. DOMAIN g = {"p", "at", "seq", "res", "e"} /\ g = [y \in DOMAIN g |-> g[y]]
  BY DEF IsFrame
<1>2. g.p = f.p /\ g.at = a /\ g.e = x /\ g.seq = f.seq /\ g.res = f.res
  BY DEF IsFrame
<1>3. f.p \in Parsers /\ f.seq \in BOOLEAN /\ f.res \in {"run", "done", "error"}
  BY DEF IsFrame
<1> HIDE DEF g
<1>4. IsFrame(g)
  BY <1>1, <1>2, <1>3, FrameIs
<1> QED
  BY <1>2, <1>4 DEF SetTo, g

BoardFields == {"id", "uid", "features", "secack_on", "number", "value", "ready"}
IsBoard(e) == DOMAIN e = BoardFields /\ e = [x \in DOMAIN e |-> e[x]]

LEMMA BoardTo ==
  ASSUME StackOK, NEW g, Goto(g), IsFrame(g), Top.p = "board", g.p = "board", g.res # "error",
         IsBoard(g.e), g.at < 4 => g.e.uid = NULL, g.seq => g.at >= 5
  PROVE  Moves /\ Top' = g
<1>1. "board" \notin DOMAIN Elements
  BY ElementsAre DEF ElementNames
<1>2. g.e = [id |-> g.e.id, uid |-> g.e.uid, features |-> g.e.features,
             secack_on |-> g.e.secack_on, number |-> g.e.number, value |-> g.e.value,
             ready |-> g.e.ready]
  BY DEF IsBoard, BoardFields
<1>3. SetupOK(g) /\ BoardOK(g) /\ TrainOK(g) /\ SectionOK(g)
  BY <1>2 DEF SetupOK, BoardOK, TrainOK, SectionOK
<1> QED
  BY <1>1, <1>3, OtherMoves

LEMMA BoardTop ==
  ASSUME StackOK, Nesting, Top.p = "board"
  PROVE  /\ IsFrame(Top) /\ IsBoard(Top.e) /\ Top.at \in Nat
         /\ Top.at < 4 => Top.e.uid = NULL
         /\ Top.seq => Top.at >= 5
<1>1. IsFrame(Top) /\ BoardOK(Top)
  BY TopIs, TopOK DEF FrameOK
<1>2. Top.at \in Nat
  BY <1>1 DEF IsFrame
<1>3. IsBoard(Top.e)
  BY <1>1 DEF BoardOK, IsBoard, BoardFields
<1> QED
  BY <1>1, <1>2, <1>3 DEF BoardOK

LEMMA BoardElementIs == "board" \notin DOMAIN Elements
BY ElementsAre DEF ElementNames

(* The words of a board, until its unique id is read.                       *)
LEMMA BoardHeadScalarMoves ==
  ASSUME StackOK, Nesting, Top.res = "run", NEW w \in document.words[Top.p], BoardHeadScalar(w)
  PROVE  \/ Errs /\ UNCHANGED tables
         \/ /\ Moves /\ Keeps(Top, Top') /\ Top'.seq = Top.seq /\ Top'.res = "run"
            /\ UNCHANGED tables
         \/ /\ Moves /\ Top'.seq = Top.seq /\ Top'.res = "run"
            /\ Top.p = "board" /\ w \in Uids /\ BoardUid(w) /\ Top.e.uid = NULL
            /\ Top'.e.uid = w /\ Top'.e.id = Top.e.id
            /\ UNCHANGED <<boards, trains, initial_values, trains_rwlock>>
<1>1. Top.p = "board" /\ ~Top.seq /\ IsFrame(Top) /\ IsBoard(Top.e) /\ Top.at \in Nat
      /\ (Top.at < 4 => Top.e.uid = NULL)
  BY BoardTop DEF BoardHeadScalar
<1>2. CASE Wrong /\ UNCHANGED track_state
  BY <1>2, WrongErrs DEF BoardHeadScalar, tables
<1>3. CASE Top.at = 1 /\ Goto([Top EXCEPT !.at = 2, !.e.id = w]) /\ UNCHANGED track_state
  <2> DEFINE x == [Top.e EXCEPT !.id = w]
             g == SetTo(Top, 2, x)
  <2>1. Goto(g)
    BY <1>1, <1>3 DEF IsFrame, SetTo
  <2>2. IsBoard(x) /\ x.uid = NULL
    BY <1>1, <1>3 DEF IsBoard, BoardFields
  <2> HIDE DEF x
  <2>3. IsFrame(g) /\ g.p = Top.p /\ g.at = 2 /\ g.e = x /\ g.seq = Top.seq /\ g.res = Top.res
    BY <1>1, SetIs
  <2> HIDE DEF g
  <2>4. Moves /\ Top' = g
    BY <1>1, <2>1, <2>2, <2>3, BoardTo
  <2>5. Keeps(Top, g)
    BY <1>1, <1>3, <2>2, <2>3, BoardElementIs DEF Keeps
  <2> QED
    BY <1>3, <2>3, <2>4, <2>5 DEF BoardHeadScalar, tables
<1>4. CASE Top.at = 3 /\ w \in Uids /\ BoardUid(w)
  <2> DEFINE x == [Top.e EXCEPT !.uid = w]
             g == SetTo(Top, 4, x)
  <2>1. Goto(g)
    BY <1>1, <1>4 DEF IsFrame, SetTo, BoardUid
  <2>2. IsBoard(x) /\ x.uid = w /\ x.id = Top.e.id
    BY <1>1 DEF IsBoard, BoardFields
  <2> HIDE DEF x
  <2>3. IsFrame(g) /\ g.p = Top.p /\ g.at = 4 /\ g.e = x /\ g.seq = Top.seq /\ g.res = Top.res
    BY <1>1, SetIs
  <2> HIDE DEF g
  <2>4. Moves /\ Top' = g
    BY <1>1, <2>1, <2>2, <2>3, BoardTo
  <2> QED
    BY <1>1, <1>4, <2>2, <2>3, <2>4 DEF BoardHeadScalar
<1>5. CASE Top.at \in {0, 2, 4} /\ Advance(Top.at + 1) /\ UNCHANGED track_state
  <2> DEFINE g == [Top EXCEPT !.at = Top.at + 1]
  <2>1. Goto(g) /\ IsFrame(g) /\ g.p = Top.p /\ g.at = Top.at + 1 /\ g.e = Top.e /\ g.seq = Top.seq /\ g.res = Top.res
    BY <1>1, <1>5, AdvanceIs
  <2> HIDE DEF g
  <2>2. g.at < 4 => Top.at < 4
    BY <1>5, <2>1
  <2>3. Moves /\ Top' = g
    BY <1>1, <2>1, <2>2, BoardTo
  <2>4. Keeps(Top, g)
    BY <1>1, <2>1, BoardElementIs DEF Keeps
  <2> QED
    BY <1>5, <2>1, <2>3, <2>4 DEF BoardHeadScalar, tables
<1> QED
  <2>1. \/ Wrong /\ UNCHANGED track_state
        \/ Top.at = 1 /\ Goto([Top EXCEPT !.at = 2, !.e.id = w]) /\ UNCHANGED track_state
        \/ Top.at = 3 /\ w \in Uids /\ BoardUid(w)
        \/ Top.at \in {0, 2, 4} /\ Advance(Top.at + 1) /\ UNCHANGED track_state
    BY DEF BoardHeadScalar
  <2> QED
    BY <1>2, <1>3, <1>4, <1>5, <2>1

(* What is read of a feature leaves the id and the unique id as they are.   *)
LEMMA FeatureTo ==
  ASSUME StackOK, Nesting, Top.p = "board", Top.res = "run",
         NEW a \in 5..9, NEW x, IsBoard(x), x.uid = Top.e.uid, x.id = Top.e.id,
         Goto(SetTo(Top, a, x))
  PROVE  Moves /\ Keeps(Top, Top') /\ Top'.seq = Top.seq /\ Top'.res = "run"
<1> DEFINE g == SetTo(Top, a, x)
<1>1. a \in Nat /\ ~(a < 4) /\ a >= 5
  OBVIOUS
<1>2. IsFrame(g) /\ g.p = Top.p /\ g.at = a /\ g.e = x /\ g.seq = Top.seq /\ g.res = Top.res
  BY <1>1, BoardTop, SetIs
<1>5. Goto(g)
  OBVIOUS
<1> HIDE DEF g
<1>3. Moves /\ Top' = g
  BY <1>1, <1>2, <1>5, BoardTo
<1>4. Keeps(Top, g)
  BY <1>2, BoardElementIs DEF Keeps
<1> QED
  BY <1>2, <1>3, <1>4

LEMMA BoardFeatureScalarMoves ==
  ASSUME StackOK, Nesting, Top.res = "run", NEW w \in document.words[Top.p], BoardFeatureScalar(w)
  PROVE  \/ Errs
         \/ Moves /\ Keeps(Top, Top') /\ Top'.seq = Top.seq /\ Top'.res = "run"
<1>1. Top.p = "board" /\ Top.seq /\ IsFrame(Top) /\ IsBoard(Top.e) /\ Top.at \in Nat
  BY BoardTop DEF BoardFeatureScalar
<1>2. CASE Wrong
  BY <1>2, WrongErrs
<1>3. CASE Goto([Top EXCEPT !.at = 6, !.e.ready = FALSE])
  <2> DEFINE x == [Top.e EXCEPT !.ready = FALSE]
             g == SetTo(Top, 6, x)
  <2>1. Goto(g)
    BY <1>1, <1>3 DEF IsFrame, SetTo
  <2>2. IsBoard(x) /\ x.uid = Top.e.uid /\ x.id = Top.e.id
    BY <1>1 DEF IsBoard, BoardFields
  <2> HIDE DEF x
  <2>3. 6 \in 5..9
    OBVIOUS
  <2> QED
    BY <1>1, <2>1, <2>2, <2>3, FeatureTo
<1>4. CASE Goto([Top EXCEPT !.at = 7, !.e.number = w])
  <2> DEFINE x == [Top.e EXCEPT !.number = w]
             g == SetTo(Top, 7, x)
  <2>1. Goto(g)
    BY <1>1, <1>4 DEF IsFrame, SetTo
  <2>2. IsBoard(x) /\ x.uid = Top.e.uid /\ x.id = Top.e.id
    BY <1>1 DEF IsBoard, BoardFields
  <2> HIDE DEF x
  <2>3. 7 \in 5..9
    OBVIOUS
  <2> QED
    BY <1>1, <2>1, <2>2, <2>3, FeatureTo
<1>5. CASE Advance(8)
  <2> DEFINE g == SetTo(Top, 8, Top.e)
  <2>1. Goto(g)
    BY <1>1, <1>5 DEF IsFrame, SetTo, Advance
  <2>3. 8 \in 5..9
    OBVIOUS
  <2> QED
    BY <1>1, <2>1, <2>3, FeatureTo
<1>6. CASE Goto([Top EXCEPT !.at = 9, !.e.value = w])
  <2> DEFINE x == [Top.e EXCEPT !.value = w]
             g == SetTo(Top, 9, x)
  <2>1. Goto(g)
    BY <1>1, <1>6 DEF IsFrame, SetTo
  <2>2. IsBoard(x) /\ x.uid = Top.e.uid /\ x.id = Top.e.id
    BY <1>1 DEF IsBoard, BoardFields
  <2> HIDE DEF x
  <2>3. 9 \in 5..9
    OBVIOUS
  <2> QED
    BY <1>1, <2>1, <2>2, <2>3, FeatureTo
<1> QED
  <2>1. \/ Wrong \/ Goto([Top EXCEPT !.at = 6, !.e.ready = FALSE])
        \/ Goto([Top EXCEPT !.at = 7, !.e.number = w])
        \/ Advance(8) \/ Goto([Top EXCEPT !.at = 9, !.e.value = w])
    BY DEF BoardFeatureScalar
  <2> QED
    BY <1>2, <1>3, <1>4, <1>5, <1>6, <2>1

LEMMA BoardSequenceStartMoves ==
  ASSUME StackOK, Nesting, Top.res = "run", BoardSequenceStart
  PROVE  \/ Errs
         \/ Moves /\ Keeps(Top, Top') /\ Top'.res = "run"
<1>1. Top.p = "board" /\ IsFrame(Top) /\ IsBoard(Top.e) /\ (Top.at < 4 => Top.e.uid = NULL)
  BY BoardTop DEF BoardSequenceStart
<1>2. CASE Wrong
  BY <1>2, WrongErrs
<1>3. CASE ~Wrong
  <2> DEFINE g == [Top EXCEPT !.seq = TRUE]
  <2>1. Goto(g) /\ Top.at = 5
    BY <1>3 DEF BoardSequenceStart
  <2>2. IsFrame(g) /\ g.p = Top.p /\ g.at = Top.at /\ g.e = Top.e /\ g.seq = TRUE /\ g.res = "run"
    BY <1>1, SetSeqIs
  <2> HIDE DEF g
  <2>3. Moves /\ Top' = g
    BY <1>1, <2>1, <2>2, BoardTo
  <2>4. Keeps(Top, g)
    BY <1>1, <2>2, BoardElementIs DEF Keeps
  <2> QED
    BY <2>2, <2>3, <2>4
<1> QED
  BY <1>2, <1>3

(* The mappings of the features are read by the same parser.                *)
LEMMA BoardStays ==
  ASSUME StackOK, Nesting, Top.res = "run", BoardSequenceEnd \/ BoardMappingStart
  PROVE  \/ Errs
         \/ Moves /\ Keeps(Top, Top') /\ Top'.res = "run"
<1>1. Top.p = "board" /\ IsFrame(Top) /\ IsBoard(Top.e) /\ (Top.at < 4 => Top.e.uid = NULL)
      /\ (Top.seq => Top.at >= 5)
  BY BoardTop DEF BoardSequenceEnd, BoardMappingStart
<1>2. CASE Wrong
  BY <1>2, WrongErrs
<1>3. CASE ~Wrong
  <2>1. Goto(Top)
    BY <1>3, StayIs DEF BoardSequenceEnd, BoardMappingStart
  <2>2. Moves /\ Top' = Top
    BY <1>1, <2>1, BoardTo
  <2>3. Keeps(Top, Top)
    BY <1>1, BoardElementIs DEF Keeps
  <2> QED
    BY <2>2, <2>3
<1> QED
  BY <1>2, <1>3

LEMMA BoardMappingEndMoves ==
  ASSUME StackOK, Nesting, Top.res = "run", BoardMappingEnd
  PROVE  \/ Errs
         \/ Moves /\ Keeps(Top, Top')
<1>1. Top.p = "board" /\ IsFrame(Top) /\ IsBoard(Top.e) /\ (Top.at < 4 => Top.e.uid = NULL)
      /\ (Top.seq => Top.at >= 5)
  BY BoardTop DEF BoardMappingEnd
<1>2. CASE Wrong
  BY <1>2, WrongErrs
<1>3. CASE Finish
  <2> DEFINE g == [Top EXCEPT !.res = "done"]
  <2>1. Goto(g)
    BY <1>3 DEF Finish
  <2>2. IsFrame(g) /\ g.p = Top.p /\ g.at = Top.at /\ g.e = Top.e /\ g.seq = Top.seq /\ g.res = "done"
    BY <1>1 DEF IsFrame
  <2> HIDE DEF g
  <2>3. Moves /\ Top' = g
    BY <1>1, <2>1, <2>2, BoardTo
  <2>4. Keeps(Top, g)
    BY <1>1, <2>2, BoardElementIs DEF Keeps
  <2> QED
    BY <2>2, <2>3, <2>4
<1>4. CASE /\ Top.seq /\ Top.at = 9
           /\ Goto([Top EXCEPT !.e.features = Append(@, Top.e.number), !.e.ready = TRUE,
                      !.e.secack_on = @ \/ (Top.e.number = SecAckFeature /\ Top.e.value # Zero)])
  <2> DEFINE x == [Top.e EXCEPT !.features = Append(@, Top.e.number), !.ready = TRUE,
                     !.secack_on = @ \/ (Top.e.number = SecAckFeature /\ Top.e.value # Zero)]
             g == SetTo(Top, 9, x)
  <2>1. Goto(g)
    BY <1>1, <1>4 DEF IsFrame, SetTo, IsBoard, BoardFields
  <2>2. IsBoard(x) /\ x.uid = Top.e.uid /\ x.id = Top.e.id
    BY <1>1 DEF IsBoard, BoardFields
  <2> HIDE DEF x
  <2> QED
    BY <1>1, <2>1, <2>2, FeatureTo
<1> QED
  <2>1. \/ Wrong \/ Finish
        \/ /\ Top.seq /\ Top.at = 9
           /\ Goto([Top EXCEPT !.e.features = Append(@, Top.e.number), !.e.ready = TRUE,
                      !.e.secack_on = @ \/ (Top.e.number = SecAckFeature /\ Top.e.value # Zero)])
    BY DEF BoardMappingEnd
  <2> QED
    BY <1>2, <1>3, <1>4, <2>1

----------------------------------------------------------------------------
(* A train.                                                                 *)

IsTrain(e) == DOMAIN e = {"id", "addr", "peripherals"} /\ e = [x \in DOMAIN e |-> e[x]]

LEMMA TrainTop ==
  ASSUME StackOK, Nesting, Top.p = "train"
  PROVE  /\ IsFrame(Top) /\ IsTrain(Top.e) /\ Top.at \in Nat /\ TrainOK(Top)
         /\ Top.p \notin DOMAIN Elements
<1>1. IsFrame(Top) /\ TrainOK(Top)
  BY TopIs, TopOK DEF FrameOK
<1>2. Top.at \in Nat
  BY <1>1 DEF IsFrame
<1>3. IsTrain(Top.e)
  BY <1>1 DEF TrainOK, IsTrain
<1>4. "train" \notin DOMAIN Elements
  BY ElementsAre DEF ElementNames
<1> QED
  BY <1>1, <1>2, <1>3, <1>4

LEMMA TrainTo ==
  ASSUME StackOK, Nesting, Top.p = "train",
         NEW g, Goto(g), IsFrame(g), g.p = "train", g.res # "error", IsTrain(g.e), g.at \in Nat,
         g.at >= Top.at, 2 <= Top.at => g.e.id = Top.e.id, g.e.peripherals = Top.e.peripherals,
         2 <= g.at => g.e.id # NULL, 4 <= g.at => g.e.addr # NULL,
         g.at < 6 => ~g.seq, g.res = "done" => g.at \in {6, 10}
  PROVE  Moves /\ Keeps(Top, Top') /\ Top' = g
<1>1. g.e = [id |-> g.e.id, addr |-> g.e.addr, peripherals |-> g.e.peripherals]
  BY DEF IsTrain
<1>2. IsSeq(g.e.peripherals) /\ Once(g.e.peripherals, "bit")
  BY TrainTop DEF TrainOK
<1>3. TrainOK(g)
  BY <1>1, <1>2 DEF TrainOK
<1>4. SetupOK(g) /\ BoardOK(g) /\ SectionOK(g)
  BY DEF SetupOK, BoardOK, SectionOK
<1>5. g.p \notin DOMAIN Elements
  BY TrainTop
<1>6. Moves /\ Top' = g
  BY <1>3, <1>4, <1>5, OtherMoves
<1>7. 2 <= Top.at => 2 <= g.at
  BY TrainTop
<1> QED
  BY <1>5, <1>6, <1>7 DEF Keeps

(* Nothing of it is read.                                                   *)
LEMMA TrainOn ==
  ASSUME StackOK, Nesting, Top.p = "train",
         NEW g, Goto(g), IsFrame(g), g.p = "train", g.e = Top.e, g.at \in Nat, g.res # "error",
         g.at >= Top.at, 2 <= g.at => 2 <= Top.at, 4 <= g.at => 4 <= Top.at,
         g.at < 6 => ~g.seq, g.res = "done" => g.at \in {6, 10}
  PROVE  Moves /\ Keeps(Top, Top') /\ Top' = g
<1>1. IsTrain(Top.e) /\ TrainOK(Top)
  BY TrainTop
<1>2. /\ 2 <= g.at => g.e.id # NULL
      /\ 4 <= g.at => g.e.addr # NULL
  BY <1>1, TrainTop DEF TrainOK
<1> QED
  BY <1>1, <1>2, TrainTo

LEMMA TrainAdvance ==
  ASSUME StackOK, Nesting, Top.p = "train", Top.res = "run", ~Top.seq,
         NEW a \in Nat, Advance(a), a >= Top.at, 2 <= a => 2 <= Top.at, 4 <= a => 4 <= Top.at
  PROVE  Moves /\ Keeps(Top, Top') /\ Top'.seq = Top.seq /\ Top'.res = "run"
<1> DEFINE g == [Top EXCEPT !.at = a]
<1>1. Goto(g) /\ IsFrame(g) /\ g.p = Top.p /\ g.at = a /\ g.e = Top.e /\ g.seq = Top.seq /\ g.res = Top.res
  BY AdvanceIs
<1> HIDE DEF g
<1>2. Moves /\ Keeps(Top, Top') /\ Top' = g
  BY <1>1, TrainOn
<1> QED
  BY <1>1, <1>2

LEMMA TrainScalarMoves ==
  ASSUME StackOK, Nesting, Top.res = "run", NEW w \in document.words[Top.p], TrainScalar(w)
  PROVE  \/ Errs
         \/ Moves /\ Keeps(Top, Top') /\ Top'.seq = Top.seq /\ Top'.res = "run"
<1>1. Top.p = "train" /\ IsFrame(Top) /\ IsTrain(Top.e) /\ Top.at \in Nat /\ TrainOK(Top)
  BY TrainTop DEF TrainScalar
<1>2. w # NULL
  BY WordIs
<1>3. CASE Wrong
  BY <1>3, WrongErrs
<1>4. CASE ~Top.seq /\ Top.at = 1 /\ Goto([Top EXCEPT !.at = 2, !.e.id = w])
  <2> DEFINE x == [Top.e EXCEPT !.id = w]
             g == SetTo(Top, 2, x)
  <2>1. Goto(g)
    BY <1>1, <1>4 DEF IsFrame, SetTo
  <2>2. IsTrain(x) /\ x.id = w /\ x.peripherals = Top.e.peripherals
    BY <1>1 DEF IsTrain
  <2> HIDE DEF x
  <2>3. IsFrame(g) /\ g.p = Top.p /\ g.at = 2 /\ g.e = x /\ g.seq = Top.seq /\ g.res = Top.res
    BY <1>1, SetIs
  <2> HIDE DEF g
  <2>4. g.at >= Top.at /\ ~(2 <= Top.at) /\ ~(4 <= g.at)
    BY <1>4, <2>3
  <2>5. Moves /\ Keeps(Top, Top') /\ Top' = g
    BY <1>1, <1>2, <1>4, <2>1, <2>2, <2>3, <2>4, TrainTo
  <2> QED
    BY <2>3, <2>5
<1>5. CASE ~Top.seq /\ Top.at = 3 /\ Goto([Top EXCEPT !.at = 4, !.e.addr = w])
  <2> DEFINE x == [Top.e EXCEPT !.addr = w]
             g == SetTo(Top, 4, x)
  <2>1. Goto(g)
    BY <1>1, <1>5 DEF IsFrame, SetTo
  <2>2. IsTrain(x) /\ x.id = Top.e.id /\ x.addr = w /\ x.peripherals = Top.e.peripherals
    BY <1>1 DEF IsTrain
  <2> HIDE DEF x
  <2>3. IsFrame(g) /\ g.p = Top.p /\ g.at = 4 /\ g.e = x /\ g.seq = Top.seq /\ g.res = Top.res
    BY <1>1, SetIs
  <2> HIDE DEF g
  <2>4. g.at >= Top.at /\ Top.e.id # NULL
    BY <1>1, <1>5, <2>3 DEF TrainOK
  <2>5. Moves /\ Keeps(Top, Top') /\ Top' = g
    BY <1>1, <1>2, <1>5, <2>1, <2>2, <2>3, <2>4, TrainTo
  <2> QED
    BY <2>3, <2>5
<1>6. CASE ~Top.seq /\ Top.at = 5 /\ Advance(6)
  <2>1. 6 >= Top.at /\ 2 <= Top.at /\ 4 <= Top.at /\ 6 \in Nat
    BY <1>6
  <2> QED
    BY <1>1, <1>6, <2>1, TrainAdvance
<1>7. CASE ~Top.seq /\ Top.at \in {0, 2, 4, 6, 8} /\ Advance(Top.at + 1)
  <2> DEFINE a == Top.at + 1
  <2>1. a \in Nat /\ a >= Top.at /\ (2 <= a => 2 <= Top.at) /\ (4 <= a => 4 <= Top.at)
    BY <1>7
  <2> QED
    BY <1>1, <1>7, <2>1, TrainAdvance
<1>8. CASE ~Top.seq /\ Top.at = 6 /\ Advance(9)
  <2>1. 9 >= Top.at /\ 2 <= Top.at /\ 4 <= Top.at /\ 9 \in Nat
    BY <1>8
  <2> QED
    BY <1>1, <1>8, <2>1, TrainAdvance
<1>9. CASE ~Top.seq /\ UNCHANGED stack
  <2>1. Goto(Top)
    BY <1>9, StayIs
  <2>2. Top.at >= Top.at
    BY <1>1
  <2>3. Moves /\ Keeps(Top, Top') /\ Top' = Top
    BY <1>1, <1>9, <2>1, <2>2, TrainOn
  <2> QED
    BY <2>3
<1> QED
  <2>1. \/ Wrong
        \/ ~Top.seq /\ Top.at = 1 /\ Goto([Top EXCEPT !.at = 2, !.e.id = w])
        \/ ~Top.seq /\ Top.at = 3 /\ Goto([Top EXCEPT !.at = 4, !.e.addr = w])
        \/ ~Top.seq /\ Top.at = 5 /\ Advance(6)
        \/ ~Top.seq /\ Top.at \in {0, 2, 4, 6, 8} /\ Advance(Top.at + 1)
        \/ ~Top.seq /\ Top.at = 6 /\ Advance(9)
        \/ ~Top.seq /\ UNCHANGED stack
    BY DEF TrainScalar
  <2> QED
    BY <1>3, <1>4, <1>5, <1>6, <1>7, <1>8, <1>9, <2>1

LEMMA TrainSequenceStartMoves ==
  ASSUME StackOK, Nesting, Top.res = "run", TrainSequenceStart
  PROVE  \/ Errs
         \/ Moves /\ Keeps(Top, Top') /\ ~Top.seq /\ Top'.seq /\ Top'.res = "run"
         \/ Enters("calibration") /\ ~Top.seq
<1>1. Top.p = "train" /\ IsFrame(Top) /\ IsTrain(Top.e) /\ Top.at \in Nat /\ TrainOK(Top)
  BY TrainTop DEF TrainSequenceStart
<1> DEFINE g == [Top EXCEPT !.seq = TRUE]
<1>2. IsFrame(g) /\ g.p = Top.p /\ g.at = Top.at /\ g.e = Top.e /\ g.seq = TRUE /\ g.res = "run"
  BY <1>1, SetSeqIs
<1>3. CASE Wrong
  BY <1>3, WrongErrs
<1>4. CASE ~Top.seq /\ Top.at = 9 /\ Goto(g)
  <2>1. g.at >= Top.at /\ ~(g.at < 6)
    BY <1>2, <1>4
  <2>2. Goto(g)
    BY <1>4
  <2> HIDE DEF g
  <2>3. Moves /\ Keeps(Top, Top') /\ Top' = g
    BY <1>1, <1>2, <2>1, <2>2, TrainOn
  <2> QED
    BY <1>2, <1>4, <2>3
<1>5. CASE ~Top.seq /\ Top.at = 7 /\ Call("calibration", g)
  <2>1. Waiting = g /\ Call("calibration", Waiting)
    BY <1>5, CallIs
  <2>2. SetupOK(g) /\ BoardOK(g) /\ SectionOK(g)
    BY <1>1, <1>2 DEF SetupOK, BoardOK, SectionOK
  <2>3. TrainOK(g)
    <3>1. ~(g.at < 6)
      BY <1>2, <1>5
    <3> HIDE DEF g
    <3> QED
      BY <1>1, <1>2, <3>1 DEF TrainOK
  <2> HIDE DEF g
  <2>4. FrameOK(g)
    BY <1>1, <1>2, <2>2, <2>3, TrainTop, OtherFrame
  <2>5. "calibration" \in Parsers \ {"section"}
    BY ElementsAre
  <2>6. Calls(g, NewFrame("calibration"))
    BY <1>1, <1>2, <1>5, <2>5, NewFrameOK DEF Calls
  <2> QED
    BY <1>2, <1>5, <2>1, <2>4, <2>5, <2>6 DEF Enters
<1> QED
  BY <1>3, <1>4, <1>5 DEF TrainSequenceStart

LEMMA TrainSequenceEndMoves ==
  ASSUME StackOK, Nesting, Top.res = "run", TrainSequenceEnd
  PROVE  \/ Errs
         \/ Moves /\ Keeps(Top, Top') /\ Top.seq /\ ~Top'.seq /\ Top'.res = "run"
<1>1. Top.p = "train" /\ IsFrame(Top) /\ IsTrain(Top.e) /\ Top.at \in Nat /\ TrainOK(Top)
  BY TrainTop DEF TrainSequenceEnd
<1>2. CASE Wrong
  BY <1>2, WrongErrs
<1>3. CASE ~Wrong
  <2> DEFINE g == [Top EXCEPT !.at = @ + 1, !.seq = FALSE]
  <2>1. Goto(g) /\ Top.seq
    BY <1>3 DEF TrainSequenceEnd
  <2>2. DOMAIN g = {"p", "at", "seq", "res", "e"} /\ g = [x \in DOMAIN g |-> g[x]]
    BY <1>1 DEF IsFrame
  <2>3. g.p = Top.p /\ g.at = Top.at + 1 /\ g.e = Top.e /\ g.seq = FALSE /\ g.res = "run"
    BY <1>1 DEF IsFrame
  <2>4. Top.p \in Parsers /\ Top.at + 1 \in Nat
    BY <1>1 DEF IsFrame
  <2> HIDE DEF g
  <2>5. IsFrame(g)
    BY <2>2, <2>3, <2>4, FrameIs
  <2>6. ~(Top.at < 6)
    BY <1>1, <2>1 DEF TrainOK
  <2>7. g.at \in Nat /\ g.at >= Top.at /\ 2 <= Top.at /\ 4 <= Top.at
    BY <1>1, <2>3, <2>6
  <2>8. Moves /\ Keeps(Top, Top') /\ Top' = g
    BY <1>1, <2>1, <2>3, <2>5, <2>7, TrainOn
  <2> QED
    BY <2>1, <2>3, <2>8
<1> QED
  BY <1>2, <1>3

LEMMA TrainMappingStartMoves ==
  ASSUME StackOK, Nesting, Top.res = "run", TrainMappingStart
  PROVE  \/ Errs
         \/ \E p \in Parsers : Enters(p) /\ p # "calibration" /\ Top.seq /\ Waiting.seq
<1>1. Top.p = "train" /\ IsFrame(Top) /\ FrameOK(Top)
  BY TrainTop, TopOK DEF TrainMappingStart
<1>2. CASE Wrong
  BY <1>2, WrongErrs
<1>3. CASE ~Wrong
  <2>1. Call("train_peripheral", Top) /\ Waiting = Top /\ Top.seq /\ Top.at = 9
    BY <1>3, CallIs DEF TrainMappingStart
  <2>2. "train_peripheral" \in Parsers \ {"section"}
    BY ElementsAre DEF ElementNames
  <2>3. Calls(Top, NewFrame("train_peripheral"))
    BY <1>1, <2>1, <2>2, NewFrameOK DEF Calls
  <2> QED
    BY <1>1, <2>1, <2>2, <2>3 DEF Enters
<1> QED
  BY <1>2, <1>3

LEMMA TrainMappingEndMoves ==
  ASSUME StackOK, Nesting, Top.res = "run", TrainMappingEnd
  PROVE  \/ Errs
         \/ Moves /\ Keeps(Top, Top') /\ Top'.seq = Top.seq /\ Top'.res = "done"
<1>1. Top.p = "train" /\ IsFrame(Top) /\ Top.at \in Nat /\ TrainOK(Top)
  BY TrainTop DEF TrainMappingEnd
<1>2. CASE Wrong
  BY <1>2, WrongErrs
<1>3. CASE ~Wrong
  <2> DEFINE g == [Top EXCEPT !.res = "done"]
  <2>1. Goto(g) /\ Top.at \in {6, 10}
    BY <1>3, FinishIs DEF TrainMappingEnd
  <2>2. IsFrame(g) /\ g.p = Top.p /\ g.at = Top.at /\ g.e = Top.e /\ g.seq = Top.seq /\ g.res = "done"
    BY <1>1 DEF IsFrame
  <2> HIDE DEF g
  <2>3. g.at \in Nat /\ g.at >= Top.at /\ 2 <= Top.at /\ 4 <= Top.at /\ ~(g.at < 6)
    BY <1>1, <2>1, <2>2
  <2>4. Moves /\ Keeps(Top, Top') /\ Top' = g
    BY <1>1, <2>1, <2>2, <2>3, TrainOn
  <2> QED
    BY <2>2, <2>4
<1> QED
  BY <1>2, <1>3

----------------------------------------------------------------------------
(* Calibration values, and the parser of the file.                          *)

LEMMA PlainTo ==
  ASSUME StackOK, Top.p \in {"calibration", "section"}, NEW g, Goto(g), IsFrame(g), g.p = Top.p,
         g.res # "error", SectionOK(g)
  PROVE  Moves /\ Keeps(Top, Top') /\ Top' = g
<1>1. Top.p \notin DOMAIN Elements
  BY ElementsAre DEF ElementNames
<1>2. SetupOK(g) /\ BoardOK(g) /\ TrainOK(g)
  BY DEF SetupOK, BoardOK, TrainOK
<1>3. Moves /\ Top' = g
  BY <1>1, <1>2, OtherMoves
<1> QED
  BY <1>1, <1>3 DEF Keeps

LEMMA CalibrationScalarMoves ==
  ASSUME StackOK, Nesting, Top.res = "run", NEW w, CalibrationScalar(w)
  PROVE  \/ Errs
         \/ Moves /\ Keeps(Top, Top') /\ Top'.seq = Top.seq /\ Top.p = "calibration"
<1>1. Top.p = "calibration" /\ IsFrame(Top) /\ SectionOK(Top)
  BY TopIs, TopOK DEF CalibrationScalar, FrameOK
<1>2. CASE Wrong
  BY <1>2, WrongErrs
<1>3. Top.at \in Nat /\ Top.at + 1 \in Nat
  BY <1>1 DEF IsFrame
<1>4. CASE Advance(Top.at + 1)
  <2> DEFINE a == Top.at + 1
             g == [Top EXCEPT !.at = a]
  <2>1. Goto(g) /\ IsFrame(g) /\ g.p = Top.p /\ g.at = a /\ g.e = Top.e /\ g.seq = Top.seq /\ g.res = Top.res
    BY <1>3, <1>4, AdvanceIs
  <2> HIDE DEF g
  <2>2. SectionOK(g)
    BY <1>1, <2>1 DEF SectionOK
  <2>3. Moves /\ Keeps(Top, Top') /\ Top' = g
    BY <1>1, <2>1, <2>2, PlainTo
  <2> QED
    BY <1>1, <2>1, <2>3
<1>5. CASE Goto([Top EXCEPT !.at = @ + 1, !.res = "done"])
  <2> DEFINE g == [Top EXCEPT !.at = @ + 1, !.res = "done"]
  <2>1. Goto(g)
    BY <1>5
  <2>2. DOMAIN g = {"p", "at", "seq", "res", "e"} /\ g = [x \in DOMAIN g |-> g[x]]
    BY <1>1 DEF IsFrame
  <2>3. g.p = Top.p /\ g.at = Top.at + 1 /\ g.seq = Top.seq /\ g.res = "done"
    BY <1>1 DEF IsFrame
  <2>4. Top.p \in Parsers /\ Top.seq \in BOOLEAN
    BY <1>1 DEF IsFrame
  <2> HIDE DEF g
  <2>5. IsFrame(g)
    BY <1>3, <2>2, <2>3, <2>4, FrameIs
  <2>6. SectionOK(g)
    BY <1>1, <2>3 DEF SectionOK
  <2>7. Moves /\ Keeps(Top, Top') /\ Top' = g
    BY <1>1, <2>1, <2>3, <2>5, <2>6, PlainTo
  <2> QED
    BY <1>1, <2>3, <2>7
<1> QED
  BY <1>2, <1>4, <1>5 DEF CalibrationScalar

LEMMA SectionTop ==
  ASSUME StackOK, Nesting, Top.p = "section"
  PROVE  IsFrame(Top) /\ FrameOK(Top) /\ SectionOK(Top) /\ Top.at \in {0, 1, 2} /\ ~Top.seq
BY TopIs, TopOK DEF FrameOK, SectionOK

LEMMA SectionAdvance ==
  ASSUME StackOK, Nesting, Top.p = "section", Top.res = "run", NEW a \in {1, 2}, Advance(a)
  PROVE  Moves /\ Keeps(Top, Top') /\ Top'.at = a /\ Top'.seq = Top.seq /\ Top'.res = "run"
<1> DEFINE g == [Top EXCEPT !.at = a]
<1>1. Goto(g) /\ IsFrame(g) /\ g.p = Top.p /\ g.at = a /\ g.seq = Top.seq /\ g.res = Top.res
  BY AdvanceIs
<1> HIDE DEF g
<1>2. SectionOK(g)
  BY <1>1, SectionTop DEF SectionOK
<1>3. Moves /\ Keeps(Top, Top') /\ Top' = g
  BY <1>1, <1>2, PlainTo
<1> QED
  BY <1>1, <1>3

LEMMA SectionStays ==
  ASSUME StackOK, Nesting, Top.p = "section", Top.res = "run", UNCHANGED stack
  PROVE  Moves /\ Keeps(Top, Top') /\ Top' = Top
<1>1. Goto(Top)
  BY StayIs
<1> QED
  BY <1>1, SectionTop, PlainTo

LEMMA SectionScalarMoves ==
  ASSUME StackOK, Nesting, Top.res = "run", NEW w, SectionScalar(w)
  PROVE  \/ Errs
         \/ /\ Moves /\ Keeps(Top, Top') /\ Top'.seq = Top.seq /\ Top'.res = "run"
            /\ Top.p = "section" /\ Top.at = 0 /\ Top'.at = 1
<1>1. CASE Wrong
  BY <1>1, WrongErrs
<1>2. CASE ~Wrong
  BY <1>2, SectionAdvance DEF SectionScalar
<1> QED
  BY <1>1, <1>2

LEMMA SectionSequenceStartMoves ==
  ASSUME StackOK, Nesting, Top.res = "run", SectionSequenceStart
  PROVE  \/ Errs
         \/ /\ Moves /\ Keeps(Top, Top') /\ Top'.res = "run"
            /\ Top.p = "section" /\ Top.at = 1 /\ Top'.at = 2
<1>1. CASE Wrong
  BY <1>1, WrongErrs
<1>2. CASE ~Wrong
  BY <1>2, SectionAdvance DEF SectionSequenceStart
<1> QED
  BY <1>1, <1>2

LEMMA SectionEndMoves ==
  ASSUME StackOK, Nesting, Top.res = "run", SectionEnd
  PROVE  \/ Errs
         \/ Moves /\ Keeps(Top, Top') /\ Top' = Top /\ Top.p = "section" /\ Top.at = 2
<1>1. CASE Wrong
  BY <1>1, WrongErrs
<1>2. CASE ~Wrong
  BY <1>2, SectionStays DEF SectionEnd
<1> QED
  BY <1>1, <1>2

LEMMA SectionMappingStartMoves ==
  ASSUME StackOK, Nesting, Top.res = "run", SectionMappingStart
  PROVE  \/ Errs
         \/ Moves /\ Keeps(Top, Top') /\ Top' = Top /\ Top.p = "section" /\ Top.at = 0
         \/ /\ \E p \in Parsers : Enters(p) /\ p # "calibration"
            /\ Top.p = "section" /\ Top.at = 2
<1>1. CASE Wrong
  BY <1>1, WrongErrs
<1>2. CASE Top.p = "section" /\ Top.at = 0 /\ UNCHANGED stack
  BY <1>2, SectionStays
<1>3. CASE Top.p = "section" /\ Top.at = 2 /\ Call(SectionElement[file], Top)
  <2> DEFINE p == SectionElement[file]
  <2>1. Call(p, Top) /\ Waiting = Top
    BY <1>3, CallIs
  <2>2. p \in {"board", "setup", "train"}
    BY SectionElementIs DEF StackOK
  <2>3. p \in Parsers \ {"section"} /\ p # "calibration"
    BY <2>2, ElementsAre
  <2>4. Calls(Top, NewFrame(p))
    BY <1>3, <2>3, NewFrameOK DEF Calls
  <2> HIDE DEF p
  <2> QED
    BY <1>3, <2>1, <2>3, <2>4, SectionTop DEF Enters
<1> QED
  <2>1. Top.p = "section" /\ Top.at \in {0, 1, 2}
    BY SectionTop DEF SectionMappingStart
  <2> QED
    BY <1>1, <1>2, <1>3, <2>1 DEF SectionMappingStart

----------------------------------------------------------------------------
(* The events by their kinds.                                               *)

LEMMA ScalarMoves ==
  ASSUME StackOK, Nesting, TablesOK, Top.res = "run", NEW w \in document.words[Top.p],
         \/ ElementKey(w) \/ ElementValue(w) \/ InitialValue(w)
         \/ SetupScalar(w) \/ BoardHeadScalar(w) \/ BoardFeatureScalar(w)
         \/ TrainScalar(w) \/ CalibrationScalar(w) \/ SectionScalar(w)
  PROVE  \/ Errs
         \/ /\ Moves /\ Top'.seq = Top.seq /\ (Top'.res = "run" \/ Top.p = "calibration")
            /\ Top.p = "section" => Top.at = 0 /\ Top'.at = 1
            /\ \/ Keeps(Top, Top') /\ UNCHANGED tables
               \/ /\ Keeps(Top, Top') /\ InitialValue(w)
                  /\ Top'.at = 2 * Len(Keys(Top.p)) /\ Top'.e["id"] = Top.e["id"]
               \/ /\ Top.p = "board" /\ w \in Uids /\ BoardUid(w) /\ Top.e.uid = NULL
                  /\ Top'.e.uid = w /\ Top'.e.id = Top.e.id
                  /\ UNCHANGED <<boards, trains, initial_values, trains_rwlock>>
<1>0. DOMAIN Elements \cap {"section", "setup", "board", "train", "calibration"} = {}
  BY ElementsAre DEF ElementNames
<1>1. CASE ElementKey(w)
  <2>1. Top.p # "section" /\ UNCHANGED tables
    BY <1>0, <1>1 DEF ElementKey
  <2> QED
    BY <1>1, <2>1, ElementKeyMoves
<1>2. CASE ElementValue(w)
  <2>1. Top.p # "section" /\ UNCHANGED tables
    BY <1>0, <1>2 DEF ElementValue
  <2> QED
    BY <1>2, <2>1, ElementValueMoves
<1>3. CASE InitialValue(w)
  <2>1. Top.p # "section"
    BY <1>0, <1>3 DEF InitialValue
  <2> QED
    BY <1>3, <2>1, InitialValueMoves
<1>4. CASE SetupScalar(w)
  <2>1. Top.p # "section" /\ UNCHANGED tables
    BY <1>4 DEF SetupScalar
  <2> QED
    BY <1>4, <2>1, SetupScalarMoves
<1>5. CASE BoardHeadScalar(w)
  <2>1. Top.p # "section"
    BY <1>5 DEF BoardHeadScalar
  <2> QED
    BY <1>5, <2>1, BoardHeadScalarMoves
<1>6. CASE BoardFeatureScalar(w)
  <2>1. Top.p # "section" /\ UNCHANGED tables
    BY <1>6 DEF BoardFeatureScalar
  <2> QED
    BY <1>6, <2>1, BoardFeatureScalarMoves
<1>7. CASE TrainScalar(w)
  <2>1. Top.p # "section" /\ UNCHANGED tables
    BY <1>7 DEF TrainScalar
  <2> QED
    BY <1>7, <2>1, TrainScalarMoves
<1>8. CASE CalibrationScalar(w)
  <2>1. Top.p # "section" /\ UNCHANGED tables
    BY <1>8 DEF CalibrationScalar
  <2> QED
    BY <1>8, <2>1, CalibrationScalarMoves
<1>9. CASE SectionScalar(w)
  <2>1. UNCHANGED tables
    BY <1>9 DEF SectionScalar
  <2> QED
    BY <1>9, <2>1, SectionScalarMoves
<1> QED
  BY <1>1, <1>2, <1>3, <1>4, <1>5, <1>6, <1>7, <1>8, <1>9

(* The parser of a board runs in its file only.                             *)
LEMMA BoardFile ==
  ASSUME StackOK, Nesting, Top.p = "board"
  PROVE  file = "board"
<1>1. Top.p = SectionElement[file]
  BY CallerIs
<1> QED
  BY <1>1 DEF SectionElement, StackOK

LEMMA SequenceStartMoves ==
  ASSUME StackOK, Nesting, Top.res = "run",
         \/ ElementSequenceStart \/ SetupSequenceStart \/ BoardSequenceStart
         \/ TrainSequenceStart \/ CalibrationOther \/ SectionSequenceStart
  PROVE  \/ Errs
         \/ /\ Moves /\ Keeps(Top, Top') /\ Top'.res = "run"
            /\ Top.p = "section" => Top.at = 1 /\ Top'.at = 2
            /\ Top.p # "section" => file = "board" \/ (~Top.seq /\ Top'.seq /\ Top.p # "calibration")
         \/ Enters("calibration") /\ ~Top.seq /\ Top.p \notin {"section", "calibration"}
<1>0. DOMAIN Elements \cap {"section", "setup", "board", "train", "calibration"} = {}
  BY ElementsAre DEF ElementNames
<1>1. CASE ElementSequenceStart
  <2>1. Top.p \notin {"section", "calibration"}
    BY <1>0, <1>1 DEF ElementSequenceStart
  <2> QED
    BY <1>1, <2>1, ElementSequenceStartMoves
<1>2. CASE SetupSequenceStart
  <2>1. Top.p \notin {"section", "calibration"}
    BY <1>2 DEF SetupSequenceStart
  <2> QED
    BY <1>2, <2>1, SetupSequenceStartMoves
<1>3. CASE BoardSequenceStart
  <2>1. Top.p # "section" /\ file = "board"
    BY <1>3, BoardFile DEF BoardSequenceStart
  <2> QED
    BY <1>3, <2>1, BoardSequenceStartMoves
<1>4. CASE TrainSequenceStart
  <2>1. Top.p \notin {"section", "calibration"}
    BY <1>4 DEF TrainSequenceStart
  <2> QED
    BY <1>4, <2>1, TrainSequenceStartMoves
<1>5. CASE CalibrationOther
  BY <1>5, WrongErrs DEF CalibrationOther
<1>6. CASE SectionSequenceStart
  BY <1>6, SectionSequenceStartMoves
<1> QED
  BY <1>1, <1>2, <1>3, <1>4, <1>5, <1>6

LEMMA SequenceEndMoves ==
  ASSUME StackOK, Nesting, Top.res = "run",
         \/ ElementSequenceEnd \/ SetupSequenceEnd \/ BoardSequenceEnd
         \/ TrainSequenceEnd \/ CalibrationOther \/ SectionEnd
  PROVE  \/ Errs
         \/ /\ Moves /\ Keeps(Top, Top') /\ Top'.res = "run"
            /\ Top.p = "section" => Top.at = 2 /\ Top'.at = 2
            /\ Top.p # "section" => file = "board" \/ (Top.seq /\ ~Top'.seq /\ Top.p # "calibration")
<1>0. DOMAIN Elements \cap {"section", "setup", "board", "train", "calibration"} = {}
  BY ElementsAre DEF ElementNames
<1>1. CASE ElementSequenceEnd
  <2>1. Top.p \notin {"section", "calibration"}
    BY <1>0, <1>1 DEF ElementSequenceEnd
  <2> QED
    BY <1>1, <2>1, ElementSequenceEndMoves
<1>2. CASE SetupSequenceEnd
  <2>1. Top.p \notin {"section", "calibration"}
    BY <1>2 DEF SetupSequenceEnd
  <2> QED
    BY <1>2, <2>1, SetupSequenceEndMoves
<1>3. CASE BoardSequenceEnd
  <2>1. Top.p # "section" /\ file = "board"
    BY <1>3, BoardFile DEF BoardSequenceEnd
  <2> QED
    BY <1>3, <2>1, BoardStays
<1>4. CASE TrainSequenceEnd
  <2>1. Top.p \notin {"section", "calibration"}
    BY <1>4 DEF TrainSequenceEnd
  <2> QED
    BY <1>4, <2>1, TrainSequenceEndMoves
<1>5. CASE CalibrationOther
  BY <1>5, WrongErrs DEF CalibrationOther
<1>6. CASE SectionEnd
  BY <1>6, SectionEndMoves
<1> QED
  BY <1>1, <1>2, <1>3, <1>4, <1>5, <1>6

LEMMA MappingStartMoves ==
  ASSUME StackOK, Nesting, Top.res = "run",
         \/ ElementMappingStart \/ SetupMappingStart \/ BoardMappingStart
         \/ TrainMappingStart \/ CalibrationOther \/ SectionMappingStart
  PROVE  \/ Errs
         \/ /\ Moves /\ Keeps(Top, Top') /\ Top'.res = "run"
            /\ Top.p = "section" => Top.at = 0 /\ Top'.at = 0
            /\ Top.p # "section" => file = "board"
         \/ /\ \E p \in Parsers : Enters(p) /\ p # "calibration"
            /\ Top.p = "section" => Top.at = 2
            /\ Top.p # "section" => Top.seq /\ Top.p # "calibration"
<1>0. DOMAIN Elements \cap {"section", "setup", "board", "train", "calibration"} = {}
  BY ElementsAre DEF ElementNames
<1>1. CASE ElementMappingStart
  <2>1. Top.p \notin {"section", "calibration"}
    BY <1>0, <1>1 DEF ElementMappingStart
  <2> QED
    BY <1>1, <2>1, ElementMappingStartMoves
<1>2. CASE SetupMappingStart
  <2>1. Top.p \notin {"section", "calibration"}
    BY <1>2 DEF SetupMappingStart
  <2> QED
    BY <1>2, <2>1, SetupMappingStartMoves
<1>3. CASE BoardMappingStart
  <2>1. Top.p # "section" /\ file = "board"
    BY <1>3, BoardFile DEF BoardMappingStart
  <2> QED
    BY <1>3, <2>1, BoardStays
<1>4. CASE TrainMappingStart
  <2>1. Top.p \notin {"section", "calibration"}
    BY <1>4 DEF TrainMappingStart
  <2> QED
    BY <1>4, <2>1, TrainMappingStartMoves
<1>5. CASE CalibrationOther
  BY <1>5, WrongErrs DEF CalibrationOther
<1>6. CASE SectionMappingStart
  BY <1>6, SectionMappingStartMoves
<1> QED
  BY <1>1, <1>2, <1>3, <1>4, <1>5, <1>6

LEMMA MappingEndMoves ==
  ASSUME StackOK, Nesting, Top.res = "run",
         \/ ElementMappingEnd \/ SetupMappingEnd \/ BoardMappingEnd
         \/ TrainMappingEnd \/ SectionEnd
  PROVE  \/ Errs
         \/ /\ Moves /\ Keeps(Top, Top')
            /\ Top.p = "section" => Top.at = 2 /\ Top' = Top
            /\ Top.p # "section" => file = "board" \/ (Top'.seq = Top.seq /\ Top'.res = "done" /\ Top.p # "calibration")
<1>0. DOMAIN Elements \cap {"section", "setup", "board", "train", "calibration"} = {}
  BY ElementsAre DEF ElementNames
<1>1. CASE ElementMappingEnd
  <2>1. Top.p \notin {"section", "calibration"}
    BY <1>0, <1>1 DEF ElementMappingEnd
  <2> QED
    BY <1>1, <2>1, ElementMappingEndMoves
<1>2. CASE SetupMappingEnd
  <2>1. Top.p \notin {"section", "calibration"}
    BY <1>2 DEF SetupMappingEnd
  <2> QED
    BY <1>2, <2>1, SetupMappingEndMoves
<1>3. CASE BoardMappingEnd
  <2>1. Top.p # "section" /\ file = "board"
    BY <1>3, BoardFile DEF BoardMappingEnd
  <2> QED
    BY <1>3, <2>1, BoardMappingEndMoves
<1>4. CASE TrainMappingEnd
  <2>1. Top.p \notin {"section", "calibration"}
    BY <1>4 DEF TrainMappingEnd
  <2> QED
    BY <1>4, <2>1, TrainMappingEndMoves
<1>6. CASE SectionEnd
  BY <1>6, SectionEndMoves
<1> QED
  BY <1>1, <1>2, <1>3, <1>4, <1>6

----------------------------------------------------------------------------
(* What an event does to the stack as a whole.                              *)

LEMMA StackMoves ==
  ASSUME StackOK, Errs \/ Moves, document' = document, file' = file
  PROVE  StackOK'
<1>1. Goto(Top') /\ IsFrame(Top') /\ Top'.p = Top.p
  BY DEF Errs, Moves, FrameOK
<1>2. IsSeq(stack') /\ Len(stack') = Len(stack) /\ stack'[Len(stack)] = Top'
      /\ \A i \in 1..(Len(stack) - 1) : stack'[i] = stack[i]
  BY <1>1, GotoIs
<1>3. PICK n \in Nat \ {0} : n = Len(stack)
  BY TopIs
<1>4. ASSUME NEW i \in 1..n
      PROVE  /\ IsFrame(stack'[i])
             /\ stack'[i].p = "section" <=> i = 1
             /\ i < n => stack'[i].res = "run"
  <2>1. CASE i = n
    BY <1>1, <1>2, <1>3, <2>1, TopIs
  <2>2. CASE i # n
    <3>1. i \in 1..(n - 1)
      BY <2>2
    <3>2. i \in 1..Len(stack) /\ stack'[i] = stack[i]
      BY <1>2, <1>3, <3>1
    <3> QED
      BY <1>3, <3>1, <3>2 DEF StackOK
  <2> QED
    BY <2>1, <2>2
<1> QED
  BY <1>2, <1>3, <1>4 DEF StackOK

LEMMA StackEnters ==
  ASSUME StackOK, NEW p \in Parsers, Enters(p), document' = document, file' = file
  PROVE  StackOK'
<1>1. /\ IsSeq(stack') /\ Len(stack') = Len(stack) + 1 /\ stack'[Len(stack)] = Waiting
      /\ stack'[Len(stack) + 1] = NewFrame(p)
      /\ \A i \in 1..(Len(stack) - 1) : stack'[i] = stack[i]
  BY CallIs DEF Enters
<1>2. /\ p # "section" /\ IsFrame(Waiting) /\ Waiting.p = Top.p /\ Waiting.res = "run"
      /\ IsFrame(NewFrame(p)) /\ NewFrame(p).p = p
  BY NewFrameOK DEF Enters, FrameOK
<1>3. PICK n \in Nat \ {0} : n = Len(stack)
  BY TopIs
<1>4. ASSUME NEW i \in 1..(n + 1)
      PROVE  /\ IsFrame(stack'[i])
             /\ stack'[i].p = "section" <=> i = 1
             /\ i < n + 1 => stack'[i].res = "run"
  <2>1. CASE i = n
    BY <1>1, <1>2, <1>3, <2>1, TopIs
  <2>2. CASE i = n + 1
    <3>1. i # 1 /\ ~(i < n + 1) /\ stack'[i] = NewFrame(p)
      BY <1>1, <1>3, <2>2
    <3> QED
      BY <1>2, <3>1
  <2>3. CASE i # n /\ i # n + 1
    <3>1. i \in 1..(n - 1)
      BY <2>3
    <3>2. i \in 1..Len(stack) /\ stack'[i] = stack[i]
      BY <1>1, <1>3, <3>1
    <3> QED
      BY <1>3, <3>1, <3>2 DEF StackOK
  <2> QED
    BY <2>1, <2>2, <2>3
<1> QED
  BY <1>1, <1>3, <1>4 DEF StackOK

LEMMA NestingLater ==
  ASSUME file' = file, Len(boards) \in Nat, Len(boards') \in Nat, Len(boards') >= Len(boards),
         \A i \in 1..Len(stack') : FrameOK(stack'[i]),
         \A i \in 1..(Len(stack') - 1) :
           Calls(stack'[i], stack'[i + 1]) /\ BitFree(stack'[i], stack'[i + 1])
  PROVE  Nesting'
<1>1. ASSUME NEW i \in 1..Len(stack') PROVE FrameOK(stack[i])'
  <2>1. FrameOK(stack'[i])
    OBVIOUS
  <2> QED
    BY <2>1 DEF FrameOK, SetupOK
<1>2. ASSUME NEW i \in 1..(Len(stack') - 1)
      PROVE  Calls(stack[i], stack[i + 1])' /\ BitFree(stack[i], stack[i + 1])'
  <2>1. Calls(stack'[i], stack'[i + 1]) /\ BitFree(stack'[i], stack'[i + 1])
    OBVIOUS
  <2> QED
    BY <2>1 DEF Calls
<1> QED
  BY <1>1, <1>2 DEF Nesting

LEMMA CallsSame ==
  ASSUME NEW f, NEW g, NEW h, Calls(f, g), h.p = g.p
  PROVE  Calls(f, h)
BY DEF Calls

LEMMA NestingMoves ==
  ASSUME StackOK, Nesting, TablesOK, Moves, file' = file, boards' = boards
  PROVE  Nesting'
<1>1. Goto(Top') /\ FrameOK(Top') /\ Top'.p = Top.p /\ BitFree(Caller, Top')
  BY DEF Moves
<1>2. IsSeq(stack') /\ Len(stack') = Len(stack) /\ stack'[Len(stack)] = Top'
      /\ \A i \in 1..(Len(stack) - 1) : stack'[i] = stack[i]
  BY <1>1, GotoIs
<1>3. PICK n \in Nat \ {0} : n = Len(stack)
  BY TopIs
<1>4. Len(boards) \in Nat
  BY RangeIs DEF TablesOK
<1>5. ASSUME NEW i \in 1..n PROVE FrameOK(stack'[i])
  <2>1. CASE i = n
    BY <1>1, <1>2, <1>3, <2>1
  <2>2. CASE i # n
    <3>1. i \in 1..(n - 1)
      BY <2>2
    <3> QED
      BY <1>2, <1>3, <3>1 DEF Nesting
  <2> QED
    BY <2>1, <2>2
<1>6. ASSUME NEW i \in 1..(n - 1)
      PROVE  Calls(stack'[i], stack'[i + 1]) /\ BitFree(stack'[i], stack'[i + 1])
  <2>1. stack'[i] = stack[i]
    BY <1>2, <1>3
  <2>2. CASE i = n - 1
    <3>1. n > 1 /\ i + 1 = n
      BY <2>2
    <3>2. Caller = stack[i] /\ Calls(Caller, Top) /\ stack'[i + 1] = Top'
      BY <1>2, <1>3, <2>2, <3>1, TopIs, TopOK
    <3> QED
      BY <1>1, <2>1, <3>2, CallsSame
  <2>3. CASE i # n - 1
    <3>1. i + 1 \in 1..(n - 1)
      BY <2>3
    <3>2. stack'[i + 1] = stack[i + 1]
      BY <1>2, <1>3, <3>1
    <3> QED
      BY <1>3, <2>1, <3>2 DEF Nesting
  <2> QED
    BY <2>2, <2>3
<1>7. Len(boards') >= Len(boards) /\ Len(boards') \in Nat
  BY <1>4
<1> QED
  BY <1>2, <1>3, <1>4, <1>5, <1>6, <1>7, NestingLater

LEMMA NestingEnters ==
  ASSUME StackOK, Nesting, TablesOK, NEW p \in Parsers, Enters(p), file' = file, boards' = boards
  PROVE  Nesting'
<1>1. /\ IsSeq(stack') /\ Len(stack') = Len(stack) + 1 /\ stack'[Len(stack)] = Waiting
      /\ stack'[Len(stack) + 1] = NewFrame(p)
      /\ \A i \in 1..(Len(stack) - 1) : stack'[i] = stack[i]
  BY CallIs DEF Enters
<1>2. /\ FrameOK(Waiting) /\ Waiting.p = Top.p /\ Waiting.at = Top.at /\ Waiting.e = Top.e
      /\ Calls(Waiting, NewFrame(p)) /\ FrameOK(NewFrame(p)) /\ NewFrame(p).at = 0
  BY NewFrameOK DEF Enters
<1>3. PICK n \in Nat \ {0} : n = Len(stack)
  BY TopIs
<1>4. Len(boards) \in Nat
  BY RangeIs DEF TablesOK
<1>5. ASSUME NEW i \in 1..(n + 1) PROVE FrameOK(stack'[i])
  <2>1. CASE i \in {n, n + 1}
    BY <1>1, <1>2, <1>3, <2>1
  <2>2. CASE i \notin {n, n + 1}
    <3>1. i \in 1..(n - 1)
      BY <2>2
    <3> QED
      BY <1>1, <1>3, <3>1 DEF Nesting
  <2> QED
    BY <2>1, <2>2
<1>6. ASSUME NEW i \in 1..n
      PROVE  Calls(stack'[i], stack'[i + 1]) /\ BitFree(stack'[i], stack'[i + 1])
  <2>1. CASE i = n
    <3>1. stack'[i] = Waiting /\ stack'[i + 1] = NewFrame(p)
      BY <1>1, <1>3, <2>1
    <3>2. BitFree(Waiting, NewFrame(p))
      BY <1>2 DEF BitFree
    <3> QED
      BY <1>2, <3>1, <3>2
  <2>2. CASE i = n - 1
    <3>1. n > 1 /\ i + 1 = n /\ i \in 1..(n - 1)
      BY <2>2
    <3>2. stack'[i] = stack[i] /\ Caller = stack[i] /\ stack'[i + 1] = Waiting
          /\ Calls(Caller, Top) /\ BitFree(Caller, Top)
      BY <1>1, <1>3, <2>2, <3>1, TopIs, TopOK
    <3>3. BitFree(Caller, Waiting)
      BY <1>2, <3>2 DEF BitFree
    <3> QED
      BY <1>2, <3>2, <3>3, CallsSame
  <2>3. CASE i \notin {n, n - 1}
    <3>1. i \in 1..(n - 1) /\ i + 1 \in 1..(n - 1)
      BY <2>3
    <3>2. stack'[i] = stack[i] /\ stack'[i + 1] = stack[i + 1]
      BY <1>1, <1>3, <3>1
    <3> QED
      BY <1>3, <3>1, <3>2 DEF Nesting
  <2> QED
    BY <2>1, <2>2, <2>3
<1>7. Len(boards') >= Len(boards) /\ Len(boards') \in Nat /\ Len(stack') = n + 1 /\ n + 1 - 1 = n
  BY <1>1, <1>3, <1>4
<1> QED
  BY <1>4, <1>5, <1>6, <1>7, NestingLater

----------------------------------------------------------------------------
(* An event adds nothing to the elements of the state.                      *)

LEMMA TablesSame ==
  ASSUME TablesOK, boards' = boards, trains' = trains, track_state' = track_state,
         initial_values' = initial_values
  PROVE  TablesOK'
BY DEF TablesOK

LEMMA PartsSame ==
  ASSUME boards' = boards, NEW CONSTANT S
  PROVE  Places(S)' = Places(S) /\ Parts(S)' = Parts(S)
<1>1. Places(S)' = Places(S)
  BY DEF Places
<1> QED
  BY <1>1 DEF Parts

LEMMA UniqueSame ==
  ASSUME Unique, boards' = boards, trains' = trains
  PROVE  Unique'
<1>1. \A S : Parts(S)' = Parts(S)
  BY PartsSame
<1> QED
  BY <1>1 DEF Unique

LEMMA ElementsSame ==
  ASSUME ElementsLinked, boards' = boards, trains' = trains,
         \A s \in Range(Sections) \cup {"trains"} : track_state'[s] = track_state[s]
  PROVE  ElementsLinked'
<1>1. \A S : Parts(S)' = Parts(S)
  BY PartsSame
<1> QED
  BY <1>1 DEF ElementsLinked

(* What is noted of the parsers stays noted.                                *)
BoosterNoted(f) == f.p = "board" /\ f.e.uid \in BoosterUids

LEMMA PendingBoostersAre ==
  PendingBoosters = {stack[i].e.id : i \in {j \in 1..Len(stack) : BoosterNoted(stack[j])}}
BY DEF PendingBoosters, BoosterNoted

LEMMA PendingBoostersLater ==
  PendingBoosters' = {stack'[i].e.id : i \in {j \in 1..Len(stack') : BoosterNoted(stack'[j])}}
BY DEF PendingBoosters, BoosterNoted

LEMMA KeepsBooster ==
  ASSUME NEW f, NEW g, Keeps(f, g), g.p = f.p
  PROVE  /\ BoosterNoted(g) <=> BoosterNoted(f)
         /\ BoosterNoted(f) => g.e.id = f.e.id
<1>1. NULL \notin BoosterUids
  BY ConfigAssumption
<1> QED
  BY <1>1 DEF Keeps, BoosterNoted

LEMMA BoostersMoves ==
  ASSUME StackOK, Moves, Keeps(Top, Top')
  PROVE  PendingBoosters' = PendingBoosters
<1>1. Len(stack') = Len(stack) /\ stack'[Len(stack)] = Top'
      /\ \A i \in 1..(Len(stack) - 1) : stack'[i] = stack[i]
  BY GotoIs DEF Moves
<1>2. PICK n \in Nat \ {0} : n = Len(stack)
  BY TopIs
<1>3. Top'.p = Top.p /\ Top = stack[n]
  BY <1>2, TopIs DEF Moves
<1>4. ASSUME NEW i \in 1..n
      PROVE  /\ BoosterNoted(stack'[i]) <=> BoosterNoted(stack[i])
             /\ BoosterNoted(stack[i]) => stack'[i].e.id = stack[i].e.id
  <2>1. CASE i = n
    BY <1>1, <1>2, <1>3, <2>1, KeepsBooster
  <2>2. CASE i # n
    <3>1. i \in 1..(n - 1)
      BY <2>2
    <3> QED
      BY <1>1, <1>2, <3>1
  <2> QED
    BY <2>1, <2>2
<1> QED
  BY <1>1, <1>2, <1>4, PendingBoostersAre, PendingBoostersLater

LEMMA BoostersEnters ==
  ASSUME StackOK, NEW p \in Parsers, Enters(p)
  PROVE  PendingBoosters' = PendingBoosters
<1>1. /\ Len(stack') = Len(stack) + 1 /\ stack'[Len(stack)] = Waiting
      /\ stack'[Len(stack) + 1] = NewFrame(p)
      /\ \A i \in 1..(Len(stack) - 1) : stack'[i] = stack[i]
  BY CallIs DEF Enters
<1>2. PICK n \in Nat \ {0} : n = Len(stack)
  BY TopIs
<1>3. Waiting.p = Top.p /\ Waiting.e = Top.e /\ Top = stack[n]
  BY <1>2, TopIs DEF Enters
<1>4. ASSUME NEW i \in 1..n
      PROVE  /\ BoosterNoted(stack'[i]) <=> BoosterNoted(stack[i])
             /\ BoosterNoted(stack[i]) => stack'[i].e.id = stack[i].e.id
  <2>1. CASE i = n
    BY <1>1, <1>2, <1>3, <2>1 DEF BoosterNoted
  <2>2. CASE i # n
    <3>1. i \in 1..(n - 1)
      BY <2>2
    <3> QED
      BY <1>1, <1>2, <3>1
  <2> QED
    BY <2>1, <2>2
<1>5. ~BoosterNoted(stack'[n + 1])
  <2>1. stack'[n + 1] = NewFrame(p) /\ NULL \notin BoosterUids
    BY <1>1, <1>2, ConfigAssumption
  <2>2. NewFrame(p).p = p /\ (p = "board" => NewFrame(p).e.uid = NULL)
    BY NewFrameOK
  <2> QED
    BY <2>1, <2>2 DEF BoosterNoted
<1>6. \A i \in 1..(n + 1) : i \in 1..n \/ i = n + 1
  BY <1>2
<1>7. \A i \in 1..n : i \in 1..(n + 1)
  BY <1>2
<1> QED
  BY <1>1, <1>2, <1>4, <1>5, <1>6, <1>7, PendingBoostersAre, PendingBoostersLater

(* The unique id of a board is noted, if it has the class bit.              *)
LEMMA BoostersUid ==
  ASSUME StackOK, Moves, NEW w, Top.p = "board", Top.e.uid = NULL,
         Top'.e.uid = w, Top'.e.id = Top.e.id
  PROVE  PendingBoosters' = PendingBoosters \cup IF w \in BoosterUids THEN {Top.e.id} ELSE {}
<1>1. Len(stack') = Len(stack) /\ stack'[Len(stack)] = Top'
      /\ \A i \in 1..(Len(stack) - 1) : stack'[i] = stack[i]
  BY GotoIs DEF Moves
<1>2. PICK n \in Nat \ {0} : n = Len(stack)
  BY TopIs
<1>3. Top'.p = Top.p /\ Top = stack[n]
  BY <1>2, TopIs DEF Moves
<1>4. ~BoosterNoted(stack[n]) /\ (BoosterNoted(stack'[n]) <=> w \in BoosterUids)
      /\ stack'[n].e.id = Top.e.id
  BY <1>1, <1>2, <1>3, ConfigAssumption DEF BoosterNoted
<1>5. \A i \in 1..n : i \in 1..(n - 1) \/ i = n
  BY <1>2
<1>6. n \in 1..n /\ \A i \in 1..(n - 1) : i \in 1..n /\ stack'[i] = stack[i]
  BY <1>1, <1>2
<1>7. PendingBoosters = {stack[i].e.id : i \in {j \in 1..(n - 1) : BoosterNoted(stack[j])}}
  BY <1>2, <1>4, <1>5, <1>6, PendingBoostersAre
<1>8. CASE w \in BoosterUids
  <2>1. {j \in 1..n : BoosterNoted(stack'[j])} = {j \in 1..(n - 1) : BoosterNoted(stack[j])} \cup {n}
    BY <1>4, <1>5, <1>6, <1>8
  <2>2. PendingBoosters' = {stack'[i].e.id : i \in {j \in 1..n : BoosterNoted(stack'[j])}}
    BY <1>1, <1>2, PendingBoostersLater
  <2>3. PendingBoosters' = PendingBoosters \cup {Top.e.id}
    BY <1>4, <1>6, <1>7, <2>1, <2>2
  <2> QED
    BY <1>8, <2>3
<1>9. CASE w \notin BoosterUids
  <2>1. PendingBoosters' = PendingBoosters
    BY <1>1, <1>2, <1>4, <1>5, <1>6, <1>7, <1>9, PendingBoostersLater
  <2> QED
    BY <1>9, <2>1
<1> QED
  BY <1>8, <1>9

LEMMA InitialMoves ==
  ASSUME StackOK, Moves, Keeps(Top, Top'), NEW CONSTANT v, PendingInitial(v)
  PROVE  PendingInitial(v)'
<1>1. Len(stack') = Len(stack) /\ stack'[Len(stack)] = Top'
      /\ \A i \in 1..(Len(stack) - 1) : stack'[i] = stack[i]
  BY GotoIs DEF Moves
<1>2. PICK n \in Nat \ {0} : n = Len(stack)
  BY TopIs
<1>3. Top'.p = Top.p /\ Top = stack[n]
  BY <1>2, TopIs DEF Moves
<1>4. CASE /\ Len(stack) = 3 /\ stack[2].p = "setup" /\ stack[3].p \in DOMAIN Elements
           /\ stack[3].at = 2 * Len(Keys(stack[3].p))
           /\ v.of = SectionOf(stack[2]) /\ v.id = stack[3].e["id"]
  <2>1. stack'[2] = stack[2] /\ stack'[3] = Top' /\ stack[3] = Top
    BY <1>1, <1>3, <1>2, <1>4
  <2>2. Top'.at = Top.at /\ Top'.e = Top.e
    BY <1>4, <2>1 DEF Keeps
  <2>3. /\ Len(stack') = 3 /\ stack'[2].p = "setup" /\ stack'[3].p \in DOMAIN Elements
        /\ stack'[3].at = 2 * Len(Keys(stack'[3].p))
        /\ v.of = SectionOf(stack'[2]) /\ v.id = stack'[3].e["id"]
    BY <1>1, <1>3, <1>4, <2>1, <2>2
  <2> QED
    BY <2>3 DEF PendingInitial
<1>5. CASE Len(stack) > 1 /\ stack[2].p = "train" /\ stack[2].at >= 2 /\ v.of = stack[2].e.id
  <2>1. CASE n = 2
    <3>1. stack'[2] = Top' /\ stack[2] = Top
      BY <1>1, <1>2, <1>3, <2>1
    <3>2. stack'[2].p = "train" /\ stack'[2].at >= 2 /\ stack'[2].e.id = stack[2].e.id
      BY <1>3, <1>5, <3>1 DEF Keeps
    <3> QED
      BY <1>1, <1>5, <3>2 DEF PendingInitial
  <2>2. CASE n # 2
    <3>1. stack'[2] = stack[2]
      BY <1>1, <1>2, <1>5, <2>2
    <3> QED
      BY <1>1, <1>5, <3>1 DEF PendingInitial
  <2> QED
    BY <2>1, <2>2
<1> QED
  BY <1>4, <1>5 DEF PendingInitial

LEMMA InitialEnters ==
  ASSUME StackOK, NEW p \in Parsers, Enters(p), NEW CONSTANT v, PendingInitial(v)
  PROVE  PendingInitial(v)'
<1>1. /\ Len(stack') = Len(stack) + 1 /\ stack'[Len(stack)] = Waiting
      /\ stack'[Len(stack) + 1] = NewFrame(p)
      /\ \A i \in 1..(Len(stack) - 1) : stack'[i] = stack[i]
  BY CallIs DEF Enters
<1>2. PICK n \in Nat \ {0} : n = Len(stack)
  BY TopIs
<1>3. /\ Waiting.p = Top.p /\ Waiting.e = Top.e /\ Waiting.at = Top.at /\ Top = stack[n]
      /\ Calls(Waiting, NewFrame(p)) /\ FrameOK(Waiting)
  BY <1>2, TopIs DEF Enters
<1>4. CASE /\ Len(stack) = 3 /\ stack[3].p \in DOMAIN Elements
           /\ stack[3].at = 2 * Len(Keys(stack[3].p))
  <2>1. Top = stack[3]
    BY <1>2, <1>3, <1>4
  <2>2. Waiting.p \in DOMAIN Elements /\ Waiting.at = 2 * Len(Keys(Waiting.p))
    BY <1>3, <1>4, <2>1
  <2>3. ~KeyDue(Waiting)
    BY <1>3, <2>2, ElementsAre DEF Calls, AtList, ElementNames
  <2>4. Len(Keys(Waiting.p)) \in Nat
    BY <2>2, KeysAreOK DEF KeysOK
  <2> QED
    BY <2>2, <2>3, <2>4 DEF KeyDue
<1>5. CASE Len(stack) > 1 /\ stack[2].p = "train" /\ stack[2].at >= 2 /\ v.of = stack[2].e.id
  <2>1. stack'[2].p = "train" /\ stack'[2].at >= 2 /\ stack'[2].e.id = stack[2].e.id
    <3>1. CASE n = 2
      BY <1>1, <1>2, <1>3, <1>5, <3>1
    <3>2. CASE n # 2
      BY <1>1, <1>2, <1>5, <3>2
    <3> QED
      BY <3>1, <3>2
  <2>2. Len(stack') > 1
    BY <1>1, <1>2
  <2> QED
    BY <1>5, <2>1, <2>2 DEF PendingInitial
<1> QED
  BY <1>4, <1>5 DEF PendingInitial

(* The value that is noted belongs to what is being read.                   *)
LEMMA InitialNoted ==
  ASSUME StackOK, Nesting, Moves, NEW w, InitialValue(w),
         Top'.at = 2 * Len(Keys(Top.p)), Top'.e["id"] = Top.e["id"],
         NEW CONSTANT v,
         v.of = IF Top.p = "train_peripheral" THEN Caller.e.id ELSE SectionOf(Caller),
         v.id = Top.e.id
  PROVE  PendingInitial(v)'
<1>1. Len(stack') = Len(stack) /\ stack'[Len(stack)] = Top'
      /\ \A i \in 1..(Len(stack) - 1) : stack'[i] = stack[i]
  BY GotoIs DEF Moves
<1>2. Top'.p = Top.p /\ Top.p \in DOMAIN Elements /\ ~KeyDue(Top) /\ Key(Top) = "initial"
      /\ IsFrame(Top) /\ ElementOK(Top)
  BY TopIs, TopOK DEF Moves, InitialValue, FrameOK
<1>3. Top.p \in {"accessory", "dcc_accessory", "peripheral", "train_peripheral"}
  <2>1. PICK i \in 1..Len(Keys(Top.p)) : Key(Top) = Keys(Top.p)[i]
    BY <1>2, KeyIs DEF ElementOK
  <2>2. "initial" \in Range(Keys(Top.p))
    BY <1>2, <2>1, KeysAreOK DEF Range, KeysOK
  <2>3. /\ Range(Keys("aspect")) = {"id", "value"} /\ Range(Keys("port")) = {"port", "value"}
        /\ Range(Keys("dcc_aspect")) = {"id", "ports"}
        /\ Range(Keys("segment")) = {"id", "address", "length"}
        /\ Range(Keys("reverser")) = {"id", "cv"}
    BY ElementsAre, TuplesAre
  <2>4. Top.p \in ElementNames
    BY <1>2, ElementsAre
  <2> QED
    BY <2>2, <2>3, <2>4 DEF ElementNames
<1>4. Top.p # "section"
  BY <1>3
<1>5. Len(stack) = 3 /\ Caller = stack[2]
  <2>1. Len(stack) = 3
    BY <1>3, <1>4, CallerIs
  <2> QED
    BY <2>1 DEF Caller
<1>6. stack'[2] = Caller /\ stack'[3] = Top'
  BY <1>1, <1>5
<1>7. CASE Top.p = "train_peripheral"
  <2>1. Caller.p = "train" /\ Calls(Caller, Top) /\ FrameOK(Caller)
    BY <1>4, <1>5, <1>7, CallerIs, TopOK
  <2>2. Caller.at = 9
    BY <1>7, <2>1, ElementsAre DEF Calls, ElementNames
  <2> QED
    BY <1>1, <1>5, <1>6, <1>7, <2>1, <2>2 DEF PendingInitial
<1>8. CASE Top.p # "train_peripheral"
  <2>1. Caller.p = "setup"
    BY <1>3, <1>4, <1>8, CallerIs
  <2>2. /\ Len(stack') = 3 /\ stack'[2].p = "setup" /\ stack'[3].p \in DOMAIN Elements
        /\ stack'[3].at = 2 * Len(Keys(stack'[3].p))
        /\ v.of = SectionOf(stack'[2]) /\ v.id = stack'[3].e["id"]
    BY <1>1, <1>2, <1>5, <1>6, <1>8, <2>1
  <2> QED
    BY <2>2 DEF PendingInitial
<1> QED
  BY <1>7, <1>8

----------------------------------------------------------------------------
(* The collections that are open.                                           *)

LEMMA CountedIs ==
  ASSUME DocOK, doc # << >>
  PROVE  /\ IsSeq(Counted) /\ Len(Counted) = Len(doc) /\ Len(doc) \in Nat \ {0}
         /\ \A i \in 1..(Len(doc) - 1) : Counted[i] = doc[i]
         /\ Counted[Len(doc)] = DocNode(doc[Len(doc)].k, doc[Len(doc)].n + 1)
         /\ doc[Len(doc)].n \in Nat /\ doc[Len(doc)] = DocNode(doc[Len(doc)].k, doc[Len(doc)].n)
<1>1. IsSeq(doc) /\ Len(doc) \in Nat
  BY RangeIs DEF DocOK
<1>2. Len(doc) # 0
  BY <1>1 DEF IsSeq
<1>3. Len(doc) > 0 /\ Len(doc) \in 1..Len(doc)
  BY <1>1, <1>2
<1>4. doc[Len(doc)] = DocNode(doc[Len(doc)].k, doc[Len(doc)].n) /\ doc[Len(doc)].n \in Nat
  BY <1>3 DEF DocOK, DocNode
<1>5. [Last(doc) EXCEPT !.n = @ + 1] = DocNode(doc[Len(doc)].k, doc[Len(doc)].n + 1)
  BY <1>4 DEF Last, DocNode
<1> QED
  BY <1>1, <1>3, <1>4, <1>5, ReplaceLast DEF Counted

(* Nodes, one for each level, with the number of nodes in them.             *)
IsNodes(d) == IsSeq(d) /\ \A i \in 1..Len(d) : d[i] = [k |-> d[i].k, n |-> d[i].n] /\ d[i].n \in Nat

LEMMA NodesAre ==
  /\ IsNodes(<< >>) /\ IsNodes(Closed)
  /\ \A k : IsNodes(<<DocNode(k, 0)>>)
<1>1. IsSeq(<< >>) /\ Len(<< >>) = 0
  BY DEF IsSeq, Range
<1>2. ASSUME NEW k PROVE IsNodes(<<DocNode(k, 0)>>)
  <2> DEFINE d == <<DocNode(k, 0)>>
  <2>1. d \in Seq({DocNode(k, 0)}) /\ Len(d) = 1 /\ d[1] = DocNode(k, 0)
    OBVIOUS
  <2>2. IsSeq(d)
    BY <2>1, SeqIs
  <2>3. DocNode(k, 0) = [k |-> DocNode(k, 0).k, n |-> DocNode(k, 0).n] /\ DocNode(k, 0).n = 0
    BY DEF DocNode
  <2> HIDE DEF d
  <2>4. \A i \in 1..Len(d) : d[i] = DocNode(k, 0)
    BY <2>1
  <2> QED
    BY <2>2, <2>3, <2>4 DEF IsNodes, d
<1> QED
  BY <1>1, <1>2 DEF IsNodes, Closed, DocNode

LEMMA NodesLater ==
  ASSUME DocOK, doc # << >>, NEW k
  PROVE  IsNodes(Counted) /\ IsNodes(Append(Counted, DocNode(k, 0))) /\ IsNodes(Front(doc))
<1> DEFINE c == Counted
<1>1. /\ IsSeq(c) /\ Len(c) = Len(doc) /\ Len(doc) \in Nat \ {0}
      /\ \A i \in 1..(Len(doc) - 1) : c[i] = doc[i]
      /\ c[Len(doc)] = DocNode(doc[Len(doc)].k, doc[Len(doc)].n + 1)
      /\ doc[Len(doc)].n \in Nat
  BY CountedIs
<1> HIDE DEF c
<1>2. IsNodes(c)
  <2>1. ASSUME NEW i \in 1..Len(c) PROVE c[i] = [k |-> c[i].k, n |-> c[i].n] /\ c[i].n \in Nat
    <3>1. CASE i = Len(doc)
      BY <1>1, <3>1 DEF DocNode
    <3>2. CASE i # Len(doc)
      <4>1. i \in 1..(Len(doc) - 1) /\ i \in 1..Len(doc)
        BY <1>1, <3>2
      <4> QED
        BY <1>1, <4>1 DEF DocOK
    <3> QED
      BY <3>1, <3>2
  <2> QED
    BY <1>1, <2>1 DEF IsNodes
<1>3. IsNodes(Append(c, DocNode(k, 0)))
  <2> DEFINE d == Append(c, DocNode(k, 0))
  <2>1. IsSeq(d) /\ Len(d) = Len(c) + 1 /\ d[Len(c) + 1] = DocNode(k, 0) /\ \A i \in 1..Len(c) : d[i] = c[i]
    BY <1>1, AppendIs
  <2> HIDE DEF d
  <2>2. ASSUME NEW i \in 1..Len(d) PROVE d[i] = [k |-> d[i].k, n |-> d[i].n] /\ d[i].n \in Nat
    <3>1. CASE i = Len(c) + 1
      BY <2>1, <3>1 DEF DocNode
    <3>2. CASE i # Len(c) + 1
      <4>1. i \in 1..Len(c)
        BY <1>1, <2>1, <3>2
      <4> QED
        BY <1>2, <2>1, <4>1 DEF IsNodes
    <3> QED
      BY <3>1, <3>2
  <2> QED
    BY <2>1, <2>2 DEF IsNodes, d
<1>4. IsNodes(Front(doc))
  <2> DEFINE d == Front(doc)
  <2>1. IsSeq(d) /\ Len(d) = Len(doc) - 1 /\ \A i \in 1..(Len(doc) - 1) : d[i] = doc[i]
    BY <1>1, FrontIs DEF DocOK
  <2> HIDE DEF d
  <2>2. \A i \in 1..Len(d) : i \in 1..(Len(doc) - 1) /\ i \in 1..Len(doc)
    BY <1>1, <2>1
  <2> QED
    BY <2>1, <2>2 DEF IsNodes, DocOK, d
<1> QED
  BY <1>2, <1>3, <1>4 DEF c

LEMMA DocLater ==
  ASSUME NEW CONSTANT d, IsNodes(d), doc' = d
  PROVE  DocOK'
BY DEF IsNodes, DocOK

(* The next level is opened, or the last one closed.                        *)
LEMMA LayersAre ==
  ASSUME DocOK, NEW m \in Nat, m > 2, Layers(doc, m)
  PROVE  /\ doc # << >> /\ Len(doc) = m
         /\ Last(doc).k = IF m % 2 = 0 THEN "mapping" ELSE "sequence"
         /\ Layers(Counted, m)
         /\ m % 2 = 1 => Layers(Append(Counted, DocNode("mapping", 0)), m + 1)
         /\ m % 2 = 0 => Layers(Append(Counted, DocNode("sequence", 0)), m + 1)
         /\ m > 3 => Layers(Front(doc), m - 1)
<1> DEFINE c == Counted
<1>1. IsSeq(doc) /\ Len(doc) = m /\ doc # << >>
  BY DEF Layers, DocOK
<1>2. /\ IsSeq(c) /\ Len(c) = m
      /\ \A i \in 1..(m - 1) : c[i] = doc[i]
      /\ c[m] = DocNode(doc[m].k, doc[m].n + 1)
  BY <1>1, CountedIs
<1> HIDE DEF c
<1>3. m \in 3..m /\ Last(doc).k = IF m % 2 = 0 THEN "mapping" ELSE "sequence"
  BY <1>1 DEF Layers, Last
<1>4. Layers(c, m)
  <2>1. c[1] = doc[1] /\ c[2] = doc[2]
    BY <1>2
  <2>2. \A i \in 3..m : c[i].k = doc[i].k
    <3>1. c[m].k = doc[m].k
      BY <1>2 DEF DocNode
    <3>2. \A i \in 3..m : i = m \/ i \in 1..(m - 1)
      OBVIOUS
    <3> QED
      BY <1>2, <3>1, <3>2
  <2> QED
    BY <1>2, <2>1, <2>2 DEF Layers
<1>5. ASSUME NEW k, k = IF (m + 1) % 2 = 0 THEN "mapping" ELSE "sequence"
      PROVE  Layers(Append(c, DocNode(k, 0)), m + 1)
  <2> DEFINE d == Append(c, DocNode(k, 0))
  <2>1. IsSeq(d) /\ Len(d) = m + 1 /\ d[m + 1] = DocNode(k, 0) /\ \A i \in 1..m : d[i] = c[i]
    BY <1>2, AppendIs
  <2> HIDE DEF d
  <2>3. d[m + 1].k = IF (m + 1) % 2 = 0 THEN "mapping" ELSE "sequence"
    BY <1>5, <2>1 DEF DocNode
  <2>4. \A i \in 3..(m + 1) : i = m + 1 \/ (i \in 3..m /\ i \in 1..m)
    OBVIOUS
  <2>5. 1 \in 1..m /\ 2 \in 1..m
    OBVIOUS
  <2> QED
    BY <1>4, <2>1, <2>3, <2>4, <2>5 DEF Layers, d
<1>6. ASSUME m > 3 PROVE Layers(Front(doc), m - 1)
  <2> DEFINE d == Front(doc)
  <2>1. IsSeq(d) /\ Len(d) = m - 1 /\ \A i \in 1..(m - 1) : d[i] = doc[i]
    BY <1>1, FrontIs
  <2> HIDE DEF d
  <2>2. \A i \in 3..(m - 1) : i \in 3..m /\ i \in 1..(m - 1)
    OBVIOUS
  <2>3. 1 \in 1..(m - 1) /\ 2 \in 1..(m - 1)
    BY <1>6
  <2> QED
    BY <2>1, <2>2, <2>3 DEF Layers, d
<1>7. (m % 2 = 1 => (m + 1) % 2 = 0) /\ (m % 2 = 0 => (m + 1) % 2 # 0)
  OBVIOUS
<1>8. /\ m % 2 = 1 => Layers(Append(c, DocNode("mapping", 0)), m + 1)
      /\ m % 2 = 0 => Layers(Append(c, DocNode("sequence", 0)), m + 1)
  BY <1>5, <1>7
<1> QED
  BY <1>1, <1>3, <1>4, <1>6, <1>8 DEF c

LEMMA CountedOne ==
  ASSUME NEW k, NEW n \in Nat, doc = <<DocNode(k, n)>>
  PROVE  Counted = <<DocNode(k, n + 1)>>
<1>1. Front(doc) = << >> /\ Last(doc) = DocNode(k, n)
  BY DEF Front, Last
<1>2. [DocNode(k, n) EXCEPT !.n = @ + 1] = DocNode(k, n + 1)
  BY DEF DocNode
<1> QED
  BY <1>1, <1>2 DEF Counted

LEMMA TwoAre ==
  ASSUME NEW s, IsSeq(s), Len(s) = 2
  PROVE  s = <<s[1], s[2]>>
<1> DEFINE t == <<s[1], s[2]>>
<1>1. t \in Seq({s[1], s[2]}) /\ Len(t) = 2 /\ t[1] = s[1] /\ t[2] = s[2]
  OBVIOUS
<1>2. s \in Seq(Range(s))
  BY DEF IsSeq
<1> HIDE DEF t
<1>3. \A i \in 1..2 : s[i] = t[i]
  <2>1. 1..2 = {1, 2}
    OBVIOUS
  <2> QED
    BY <1>1, <2>1
<1>4. s = t
  BY <1>1, <1>2, <1>3
<1> QED
  BY <1>4 DEF t

LEMMA CountedTwo ==
  ASSUME DocOK, NEW a, NEW k, NEW n \in Nat, doc = <<a, DocNode(k, n)>>
  PROVE  Counted = <<a, DocNode(k, n + 1)>>
<1>1. Len(doc) = 2 /\ doc[1] = a /\ doc[2] = DocNode(k, n) /\ doc # << >>
  OBVIOUS
<1>2. doc[2].k = k /\ doc[2].n = n
  BY <1>1 DEF DocNode
<1>3. 1 \in 1..(Len(doc) - 1)
  BY <1>1
<1>4. IsSeq(Counted) /\ Len(Counted) = 2 /\ Counted[1] = a /\ Counted[2] = DocNode(k, n + 1)
  BY <1>1, <1>2, <1>3, CountedIs
<1> QED
  BY <1>4, TwoAre

LEMMA DepthIs ==
  ASSUME StackOK, Top.p # "section", Top.res = "run"
  PROVE  /\ Depth \in Nat /\ Depth > 2 /\ Len(stack) \in Nat /\ Len(stack) > 1
         /\ Top.p = "calibration" => Depth = 2 * Len(stack) - 1 /\ Depth % 2 = 1
         /\ Top.p # "calibration" /\ Top.seq => Depth = 2 * Len(stack) + 1 /\ Depth % 2 = 1
         /\ Top.p # "calibration" /\ ~Top.seq => Depth = 2 * Len(stack) /\ Depth % 2 = 0 /\ Depth > 3
<1>1. Len(stack) \in Nat /\ Len(stack) > 1
  BY TopIs, NestedIs
<1>2. Top.seq \in BOOLEAN
  BY TopIs DEF IsFrame
<1>3. CASE Top.p = "calibration"
  <2>1. Depth = 2 * Len(stack) - 1
    BY <1>3 DEF Depth
  <2> QED
    BY <1>1, <1>3, <2>1
<1>4. CASE Top.p # "calibration" /\ Top.seq
  <2>1. Depth = 2 * Len(stack) + 1
    BY <1>4 DEF Depth
  <2> QED
    BY <1>1, <1>4, <2>1
<1>5. CASE Top.p # "calibration" /\ ~Top.seq
  <2>1. Depth = 2 * Len(stack)
    BY <1>5 DEF Depth
  <2> QED
    BY <1>1, <1>5, <2>1
<1> QED
  BY <1>2, <1>3, <1>4, <1>5

LEMMA MovesLen ==
  ASSUME StackOK, Moves
  PROVE  Len(stack') = Len(stack) /\ Top'.p = Top.p
BY GotoIs DEF Moves

LEMMA LayersNow ==
  ASSUME StackOK, Alternating, file # "board", Top.p # "section"
  PROVE  Layers(doc, Depth)
<1>1. Len(stack) # 1
  BY TopIs
<1> QED
  BY <1>1 DEF Alternating

LEMMA LastsAre ==
  /\ \A a, k, n : Last(<<a, DocNode(k, n)>>).k = k /\ Last(<<a, DocNode(k, n)>>).n = n
  /\ \A k, n : Last(<<DocNode(k, n)>>).k = k /\ Last(<<DocNode(k, n)>>).n = n
  /\ Last(Closed).k = "closed"
BY DEF Last, DocNode, Closed

LEMMA PairIs ==
  ASSUME NEW a, NEW b
  PROVE  Append(<<a>>, b) = <<a, b>>
<1> DEFINE d == Append(<<a>>, b)
<1>1. <<a>> \in Seq({a, b}) /\ Len(<<a>>) = 1 /\ <<a>>[1] = a
  OBVIOUS
<1>2. d \in Seq({a, b}) /\ Len(d) = 2 /\ d[1] = a /\ d[2] = b
  BY <1>1
<1> HIDE DEF d
<1>3. IsSeq(d)
  BY <1>2, SeqIs
<1>4. d = <<d[1], d[2]>>
  BY <1>2, <1>3, TwoAre
<1> QED
  BY <1>2, <1>4 DEF d

(* What is open after an event, when no error has been met.                 *)
LEMMA LayersLater ==
  ASSUME Top'.p # "section", Len(stack') # 1, Layers(doc', Depth')
  PROVE  Alternating'
BY DEF Alternating

LEMMA BoardAlternates ==
  ASSUME file' = "board", Top'.p = "section" => Top'.res # "done"
  PROVE  Alternating'
BY DEF Alternating

LEMMA SectionAlternates ==
  ASSUME Top'.p = "section", Len(stack') = 1, Top'.res = "run", SectionDoc'
  PROVE  Alternating'
BY DEF Alternating

LEMMA ScalarAlternates ==
  ASSUME StackOK, DocOK, Alternating, Top.res = "run", ValueFits \/ KeyFits, Moves,
         Top'.seq = Top.seq, Top'.res = "run" \/ Top.p = "calibration",
         Top.p = "section" => Top.at = 0 /\ Top'.at = 1,
         file' = file, doc' = Counted
  PROVE  Alternating'
<1>1. Len(stack') = Len(stack) /\ Top'.p = Top.p
  BY MovesLen
<1>2. CASE file = "board"
  <2>1. Top'.p = "section" => Top'.res # "done"
    BY <1>1
  <2> QED
    BY <1>2, <2>1, BoardAlternates
<1>3. CASE file # "board" /\ Top.p # "section"
  <2>1. Layers(doc, Depth) /\ Depth \in Nat /\ Depth > 2 /\ Len(stack) > 1
    BY <1>3, DepthIs, LayersNow
  <2>2. Layers(doc', Depth)
    BY <2>1, LayersAre
  <2>3. Depth' = Depth
    BY <1>1 DEF Depth
  <2> QED
    BY <1>1, <1>3, <2>1, <2>2, <2>3, LayersLater
<1>4. CASE file # "board" /\ Top.p = "section"
  <2>1. Len(stack) = 1 /\ Top.at = 0 /\ Top'.at = 1 /\ Top'.res = "run"
    BY <1>4, TopIs
  <2>2. doc # << >>
    BY DEF ValueFits, KeyFits
  <2>3. doc \in {<<DocNode("document", 0)>>, <<DocNode("document", 1), DocNode("mapping", 0)>>}
    BY <1>4, <2>1, <2>2 DEF Alternating, SectionDoc
  <2>4. doc' \in {<<DocNode("document", 1)>>, <<DocNode("document", 1), DocNode("mapping", 1)>>}
    <3>1. 0 + 1 = 1 /\ 0 \in Nat
      OBVIOUS
    <3> QED
      BY <2>3, <3>1, CountedOne, CountedTwo
  <2>5. SectionDoc'
    BY <2>1, <2>4 DEF SectionDoc
  <2> QED
    BY <1>1, <1>4, <2>1, <2>5, SectionAlternates
<1> QED
  BY <1>2, <1>3, <1>4

LEMMA SequenceStartAlternates ==
  ASSUME StackOK, DocOK, Alternating, Top.res = "run", ValueFits, file' = file,
         doc' = Append(Counted, DocNode("sequence", 0)),
         \/ /\ Moves /\ Top'.res = "run"
            /\ Top.p = "section" => Top.at = 1 /\ Top'.at = 2
            /\ Top.p # "section" => file = "board" \/ (~Top.seq /\ Top'.seq /\ Top.p # "calibration")
         \/ Enters("calibration") /\ ~Top.seq /\ Top.p \notin {"section", "calibration"}
  PROVE  Alternating'
<1>1. CASE /\ Moves /\ Top'.res = "run"
           /\ Top.p = "section" => Top.at = 1 /\ Top'.at = 2
           /\ Top.p # "section" => file = "board" \/ (~Top.seq /\ Top'.seq /\ Top.p # "calibration")
  <2>1. Len(stack') = Len(stack) /\ Top'.p = Top.p
    BY <1>1, MovesLen
  <2>2. CASE file = "board"
    BY <1>1, <2>2, BoardAlternates
  <2>3. CASE file # "board" /\ Top.p # "section"
    <3>0. ~Top.seq /\ Top'.seq /\ Top.p # "calibration"
      BY <1>1, <2>3
    <3>1. Layers(doc, Depth) /\ Depth \in Nat /\ Depth > 2 /\ Depth % 2 = 0 /\ Len(stack) > 1
          /\ Depth = 2 * Len(stack)
      BY <2>3, <3>0, DepthIs, LayersNow
    <3>2. Layers(doc', Depth + 1)
      BY <3>1, LayersAre
    <3>3. Depth' = Depth + 1
      BY <1>1, <2>1, <3>0, <3>1 DEF Depth
    <3>4. Layers(doc', Depth')
      BY <3>2, <3>3
    <3>5. Len(stack') # 1 /\ Top'.p # "section"
      BY <1>1, <2>1, <2>3, <3>1
    <3> QED
      BY <3>4, <3>5, LayersLater
  <2>4. CASE file # "board" /\ Top.p = "section"
    <3>1. Len(stack) = 1 /\ Top.at = 1 /\ Top'.at = 2
      BY <1>1, <2>4, TopIs
    <3>2. doc \in {<<DocNode("document", 1), DocNode("mapping", 1)>>, <<DocNode("document", 1)>>}
      BY <2>4, <3>1 DEF Alternating, SectionDoc
    <3>3. doc # <<DocNode("document", 1)>>
      <4> SUFFICES ASSUME doc = <<DocNode("document", 1)>> PROVE FALSE
        OBVIOUS
      <4>1. Last(doc).k = "document" /\ Last(doc).n = 1
        BY DEF Last, DocNode
      <4> QED
        BY <4>1 DEF ValueFits
    <3>4. Counted = <<DocNode("document", 1), DocNode("mapping", 2)>>
      <4>1. 1 + 1 = 2 /\ 1 \in Nat
        OBVIOUS
      <4> QED
        BY <3>2, <3>3, <4>1, CountedTwo
    <3>5. Len(doc') = 3 /\ doc'[1] = DocNode("document", 1) /\ doc'[2] = DocNode("mapping", 2)
          /\ doc'[3].k = "sequence"
      BY <3>4 DEF DocNode
    <3>6. SectionDoc'
      BY <1>1, <3>1, <3>5 DEF SectionDoc
    <3> QED
      BY <1>1, <2>1, <2>4, <3>1, <3>6, SectionAlternates
  <2> QED
    BY <2>2, <2>3, <2>4
<1>2. CASE Enters("calibration") /\ ~Top.seq /\ Top.p \notin {"section", "calibration"}
  <2>1. "calibration" \in Parsers
    BY ElementsAre
  <2>2. Len(stack') = Len(stack) + 1 /\ Top' = NewFrame("calibration") /\ Top'.p = "calibration"
    BY <1>2, <2>1, CallIs, NewFrameOK DEF Enters
  <2>3. CASE file = "board"
    BY <2>2, <2>3, BoardAlternates
  <2>4. CASE file # "board"
    <3>1. Layers(doc, Depth) /\ Depth \in Nat /\ Depth > 2 /\ Depth % 2 = 0 /\ Len(stack) > 1
          /\ Depth = 2 * Len(stack) /\ Len(stack) \in Nat
      BY <1>2, <2>4, DepthIs, LayersNow
    <3>2. Layers(doc', Depth + 1)
      BY <3>1, LayersAre
    <3>3. Depth' = 2 * (Len(stack) + 1) - 1
      BY <2>2 DEF Depth
    <3>4. 2 * (Len(stack) + 1) - 1 = Depth + 1 /\ Len(stack') > 1
      BY <2>2, <3>1
    <3> QED
      BY <1>2, <2>2, <3>2, <3>3, <3>4, LayersLater
  <2> QED
    BY <2>3, <2>4
<1> QED
  BY <1>1, <1>2

LEMMA SequenceEndAlternates ==
  ASSUME StackOK, DocOK, Alternating, Top.res = "run", Last(doc).k = "sequence", file' = file,
         doc' = Front(doc), Moves, Top'.res = "run",
         Top.p = "section" => Top.at = 2 /\ Top'.at = 2,
         Top.p # "section" => file = "board" \/ (Top.seq /\ ~Top'.seq /\ Top.p # "calibration")
  PROVE  Alternating'
<1>1. Len(stack') = Len(stack) /\ Top'.p = Top.p
  BY MovesLen
<1>2. CASE file = "board"
  BY <1>2, BoardAlternates
<1>3. CASE file # "board" /\ Top.p # "section"
  <2>0. Top.seq /\ ~Top'.seq /\ Top.p # "calibration"
    BY <1>3
  <2>1. Layers(doc, Depth) /\ Depth \in Nat /\ Depth > 2 /\ Len(stack) > 1 /\ Len(stack) \in Nat
        /\ Depth = 2 * Len(stack) + 1
    BY <1>3, <2>0, DepthIs, LayersNow
  <2>2. Depth > 3 /\ Depth - 1 = 2 * Len(stack)
    BY <2>1
  <2>3. Layers(doc', Depth - 1)
    BY <2>1, <2>2, LayersAre
  <2>4. Depth' = 2 * Len(stack)
    BY <1>1, <2>0 DEF Depth
  <2>5. Layers(doc', Depth') /\ Len(stack') # 1
    <3>1. Depth' = Depth - 1
      BY <2>2, <2>4
    <3>2. Len(stack') # 1
      <4>1. Len(stack) # 1
        BY <1>3, TopIs
      <4> QED
        BY <1>1, <4>1
    <3> QED
      BY <2>3, <3>1, <3>2
  <2> QED
    BY <1>1, <1>3, <2>5, LayersLater
<1>4. CASE file # "board" /\ Top.p = "section"
  <2>1. Len(stack) = 1 /\ Top.at = 2 /\ Top'.at = 2
    BY <1>4, TopIs
  <2>2. \/ doc \in {<<DocNode("document", 1), DocNode("mapping", 2)>>, <<DocNode("document", 1)>>, Closed}
        \/ Len(doc) = 3 /\ doc[1] = DocNode("document", 1) /\ doc[2] = DocNode("mapping", 2)
    BY <1>4, <2>1 DEF Alternating, SectionDoc
  <2>3. doc \notin {<<DocNode("document", 1), DocNode("mapping", 2)>>, <<DocNode("document", 1)>>, Closed}
    BY LastsAre
  <2>4. IsSeq(doc')
    BY <2>2, <2>3, FrontIs DEF DocOK
  <2>5. Len(doc') = 2 /\ doc'[1] = doc[1] /\ doc'[2] = doc[2]
    <3>1. Len(doc) = 3 /\ 3 > 0 /\ 3 - 1 = 2 /\ 1 \in 1..(3 - 1) /\ 2 \in 1..(3 - 1)
      BY <2>2, <2>3
    <3>2. IsSeq(doc)
      BY DEF DocOK
    <3>3. Len(Front(doc)) = Len(doc) - 1 /\ \A i \in 1..(Len(doc) - 1) : Front(doc)[i] = doc[i]
      BY <3>1, <3>2, FrontIs
    <3> HIDE DEF DocOK
    <3> QED
      BY <3>1, <3>3
  <2>6. doc' = <<DocNode("document", 1), DocNode("mapping", 2)>>
    BY <2>2, <2>3, <2>4, <2>5, TwoAre
  <2>7. SectionDoc'
    BY <2>1, <2>6 DEF SectionDoc
  <2> QED
    BY <1>1, <1>4, <2>1, <2>7, SectionAlternates
<1> QED
  BY <1>2, <1>3, <1>4

LEMMA MappingStartAlternates ==
  ASSUME StackOK, DocOK, Alternating, Top.res = "run", ValueFits, file' = file,
         doc' = Append(Counted, DocNode("mapping", 0)),
         \/ /\ Moves /\ Top'.res = "run"
            /\ Top.p = "section" => Top.at = 0 /\ Top'.at = 0
            /\ Top.p # "section" => file = "board"
         \/ /\ \E p \in Parsers : Enters(p) /\ p # "calibration"
            /\ Top.p = "section" => Top.at = 2
            /\ Top.p # "section" => Top.seq /\ Top.p # "calibration"
  PROVE  Alternating'
<1>1. CASE /\ Moves /\ Top'.res = "run"
           /\ Top.p = "section" => Top.at = 0 /\ Top'.at = 0
           /\ Top.p # "section" => file = "board"
  <2>1. Len(stack') = Len(stack) /\ Top'.p = Top.p
    BY <1>1, MovesLen
  <2>2. CASE file = "board"
    BY <1>1, <2>2, BoardAlternates
  <2>3. CASE file # "board"
    <3>1. Len(stack) = 1 /\ Top.p = "section" /\ Top.at = 0 /\ Top'.at = 0
      BY <1>1, <2>3, TopIs
    <3>2. doc \in {<<DocNode("document", 0)>>, <<DocNode("document", 1), DocNode("mapping", 0)>>}
      BY <2>3, <3>1 DEF Alternating, SectionDoc, ValueFits
    <3>3. doc # <<DocNode("document", 1), DocNode("mapping", 0)>>
      <4> SUFFICES ASSUME doc = <<DocNode("document", 1), DocNode("mapping", 0)>> PROVE FALSE
        OBVIOUS
      <4>1. Last(doc).k = "mapping" /\ Last(doc).n = 0 /\ 0 % 2 # 1
        BY DEF Last, DocNode
      <4> QED
        BY <4>1 DEF ValueFits
    <3>4. Counted = <<DocNode("document", 1)>>
      <4>1. 0 + 1 = 1 /\ 0 \in Nat
        OBVIOUS
      <4> QED
        BY <3>2, <3>3, <4>1, CountedOne
    <3>5. doc' = <<DocNode("document", 1), DocNode("mapping", 0)>>
      BY <3>4, PairIs
    <3>6. SectionDoc'
      BY <1>1, <3>1, <3>5 DEF SectionDoc
    <3> QED
      BY <1>1, <2>1, <3>1, <3>6, SectionAlternates
  <2> QED
    BY <2>2, <2>3
<1>2. ASSUME NEW p \in Parsers, Enters(p), p # "calibration", Top.p = "section" => Top.at = 2,
             Top.p # "section" => Top.seq /\ Top.p # "calibration"
      PROVE  Alternating'
  <2>1. /\ Len(stack') = Len(stack) + 1 /\ Top' = NewFrame(p) /\ Top'.p = p /\ Top'.seq = FALSE
        /\ Top'.res = "run" /\ p # "section"
    BY <1>2, CallIs, NewFrameOK DEF Enters
  <2>2. CASE file = "board"
    BY <2>1, <2>2, BoardAlternates
  <2>3. CASE file # "board"
    <3>0. Depth' = 2 * (Len(stack) + 1)
      BY <1>2, <2>1 DEF Depth
    <3>1. CASE Top.p # "section"
      <4>1. Layers(doc, Depth) /\ Depth \in Nat /\ Depth > 2 /\ Depth % 2 = 1 /\ Len(stack) > 1
            /\ Depth = 2 * Len(stack) + 1 /\ Len(stack) \in Nat
        BY <1>2, <2>3, <3>1, DepthIs, LayersNow
      <4>2. Layers(doc', Depth + 1)
        BY <4>1, LayersAre
      <4>3. 2 * (Len(stack) + 1) = Depth + 1 /\ Len(stack') > 1
        BY <2>1, <4>1
      <4> QED
        BY <2>1, <3>0, <3>1, <4>2, <4>3, LayersLater
    <3>2. CASE Top.p = "section"
      <4>1. Len(stack) = 1 /\ Top.at = 2
        BY <1>2, <3>2, TopIs
      <4>2. \/ doc \in {<<DocNode("document", 1), DocNode("mapping", 2)>>, <<DocNode("document", 1)>>, Closed}
            \/ /\ Len(doc) = 3 /\ doc[1] = DocNode("document", 1) /\ doc[2] = DocNode("mapping", 2)
               /\ doc[3].k = "sequence"
        BY <2>3, <4>1 DEF Alternating, SectionDoc
      <4>3. doc \notin {<<DocNode("document", 1), DocNode("mapping", 2)>>, <<DocNode("document", 1)>>, Closed}
        <5>1. doc # <<DocNode("document", 1), DocNode("mapping", 2)>>
          <6> SUFFICES ASSUME doc = <<DocNode("document", 1), DocNode("mapping", 2)>> PROVE FALSE
            OBVIOUS
          <6>1. Last(doc).k = "mapping" /\ Last(doc).n = 2 /\ 2 % 2 # 1
            BY DEF Last, DocNode
          <6> QED
            BY <6>1 DEF ValueFits
        <5>2. doc # <<DocNode("document", 1)>>
          <6> SUFFICES ASSUME doc = <<DocNode("document", 1)>> PROVE FALSE
            OBVIOUS
          <6>1. Last(doc).k = "document" /\ Last(doc).n = 1
            BY DEF Last, DocNode
          <6> QED
            BY <6>1 DEF ValueFits
        <5>3. doc # Closed
          <6> SUFFICES ASSUME doc = Closed PROVE FALSE
            OBVIOUS
          <6>1. Last(doc).k = "closed"
            BY DEF Last, Closed
          <6> QED
            BY <6>1 DEF ValueFits
        <5> QED
          BY <5>1, <5>2, <5>3
      <4>4. Layers(doc, 3)
        <5>1. 3..3 = {3} /\ 3 % 2 # 0
          OBVIOUS
        <5> QED
          BY <4>2, <4>3, <5>1 DEF Layers
      <4>5. 3 \in Nat /\ 3 > 2 /\ 3 % 2 = 1 /\ 3 + 1 = 4 /\ 2 * (1 + 1) = 4 /\ 1 + 1 > 1
        OBVIOUS
      <4>6. Layers(doc', 3 + 1)
        BY <4>4, <4>5, LayersAre
      <4>7. Layers(doc', Depth') /\ Len(stack') > 1
        BY <2>1, <3>0, <4>1, <4>5, <4>6
      <4> QED
        BY <2>1, <4>7 DEF Alternating
    <3> QED
      BY <3>1, <3>2
  <2> QED
    BY <2>2, <2>3
<1> QED
  BY <1>1, <1>2

LEMMA MappingEndAlternates ==
  ASSUME StackOK, DocOK, Alternating, Top.res = "run", Last(doc).k = "mapping", file' = file,
         doc' = Front(doc), Moves,
         Top.p = "section" => Top.at = 2 /\ Top' = Top,
         Top.p # "section" => file = "board" \/ (Top'.seq = Top.seq /\ Top'.res = "done" /\ Top.p # "calibration")
  PROVE  Alternating'
<1>1. Len(stack') = Len(stack) /\ Top'.p = Top.p
  BY MovesLen
<1>2. CASE file = "board"
  BY <1>1, <1>2, BoardAlternates
<1>3. CASE file # "board" /\ Top.p # "section"
  <2>0. Top'.res = "done" /\ Top.p # "calibration"
    BY <1>3
  <2>1. Layers(doc, Depth) /\ Depth \in Nat /\ Depth > 2 /\ Len(stack) > 1 /\ Len(stack) \in Nat
    BY <1>3, DepthIs, LayersNow
  <2>2. Depth % 2 = 0
    BY <2>1, LayersAre
  <2>3. Depth = 2 * Len(stack) /\ Depth > 3
    <3>1. Top.seq \in BOOLEAN
      BY TopIs DEF IsFrame
    <3> QED
      BY <1>3, <2>0, <2>2, <3>1, DepthIs
  <2>4. Layers(doc', Depth - 1)
    BY <2>1, <2>3, LayersAre
  <2>5. Depth' = 2 * Len(stack) - 1
    BY <1>1, <2>0 DEF Depth
  <2>6. Layers(doc', Depth') /\ Len(stack') # 1
    <3>1. Depth' = Depth - 1
      BY <2>3, <2>5
    <3>2. Len(stack') # 1
      <4>1. Len(stack) # 1
        BY <1>3, TopIs
      <4> QED
        BY <1>1, <4>1
    <3> QED
      BY <2>4, <3>1, <3>2
  <2> QED
    BY <1>1, <1>3, <2>6, LayersLater
<1>4. CASE file # "board" /\ Top.p = "section"
  <2>1. Len(stack) = 1 /\ Top.at = 2 /\ Top' = Top
    BY <1>4, TopIs
  <2>2. \/ doc \in {<<DocNode("document", 1), DocNode("mapping", 2)>>, <<DocNode("document", 1)>>, Closed}
        \/ Len(doc) = 3 /\ doc[3].k = "sequence"
    BY <1>4, <2>1 DEF Alternating, SectionDoc
  <2>3. doc = <<DocNode("document", 1), DocNode("mapping", 2)>>
    <3>1. doc \notin {<<DocNode("document", 1)>>, Closed}
      BY LastsAre
    <3>2. Len(doc) = 3 => Last(doc) = doc[3]
      BY DEF Last
    <3> QED
      BY <2>2, <3>1, <3>2
  <2>4. doc' = <<DocNode("document", 1)>>
    <3>1. Front(doc) = SubSeq(doc, 1, 1) /\ doc[1] = DocNode("document", 1) /\ Len(doc) = 2
      BY <2>3 DEF Front
    <3>2. IsSeq(doc') /\ Len(doc') = 1 /\ doc'[1] = DocNode("document", 1)
      <4>1. 2 > 0 /\ 2 - 1 = 1 /\ 1 \in 1..(2 - 1)
        OBVIOUS
      <4> QED
        BY <3>1, <4>1, FrontIs, ZenonT(40) DEF DocOK
    <3> QED
      BY <3>2 DEF IsSeq
  <2>5. SectionDoc'
    BY <2>1, <2>4 DEF SectionDoc
  <2> QED
    BY <1>1, <1>4, <2>1, <2>5, SectionAlternates
<1> QED
  BY <1>2, <1>3, <1>4

----------------------------------------------------------------------------
(* Events.                                                                  *)

LEMMA ErrsOK ==
  ASSUME StackOK, Errs, document' = document, file' = file, NEW CONSTANT d, Forward(d)
  PROVE  StackOK' /\ DocOK' /\ ~Going'
<1>1. StackOK'
  BY StackMoves
<1>2. Top'.res = "error"
  BY DEF Errs
<1>3. doc' = << >>
  BY <1>2 DEF Forward, Top
<1> QED
  BY <1>1, <1>2, <1>3, NodesAre, DocLater DEF Going

LEMMA BuiltSame ==
  ASSUME StackOK, Built, boards' = boards, trains' = trains, track_state' = track_state,
         initial_values' = initial_values,
         (Moves /\ Keeps(Top, Top')) \/ \E p \in Parsers : Enters(p)
  PROVE  Built'
<1>1. TablesOK' /\ Unique' /\ ElementsLinked'
  BY TablesSame, UniqueSame, ElementsSame DEF Built, Linked
<1>2. BoosterIds' = BoosterIds
  BY DEF BoosterIds
<1>3. PendingBoosters' = PendingBoosters
  BY BoostersMoves, BoostersEnters
<1>4. BoostersLinked'
  BY <1>2, <1>3 DEF Built, Linked, BoostersLinked
<1>5. InitialLinked'
  <2>1. \A v : PendingInitial(v) => PendingInitial(v)'
    BY InitialMoves, InitialEnters
  <2> QED
    BY <2>1 DEF Built, Linked, InitialLinked
<1> QED
  BY <1>1, <1>4, <1>5 DEF Built, Linked

(* An initial value is noted.                                               *)
LEMMA BuiltInitial ==
  ASSUME StackOK, Nesting, Built, NEW w, InitialValue(w), Moves, Keeps(Top, Top'),
         Top'.at = 2 * Len(Keys(Top.p)), Top'.e["id"] = Top.e["id"]
  PROVE  Built'
<1> DEFINE r == [of |-> IF Top.p = "train_peripheral" THEN Caller.e.id ELSE SectionOf(Caller),
                 id |-> Top.e.id, value |-> w]
<1>1. /\ boards' = boards /\ trains' = trains /\ track_state' = track_state
      /\ initial_values' \in {initial_values, Append(initial_values, r)}
  BY DEF InitialValue
<1>2. IsSeq(initial_values') /\ Range(initial_values') \subseteq Range(initial_values) \cup {r}
  <2>1. IsSeq(initial_values)
    BY DEF Built, TablesOK
  <2>2. /\ IsSeq(Append(initial_values, r))
        /\ Range(Append(initial_values, r)) = Range(initial_values) \cup {r}
    BY <2>1, AppendIs
  <2> HIDE DEF r
  <2>3. CASE initial_values' = initial_values
    BY <2>1, <2>3
  <2>4. CASE initial_values' = Append(initial_values, r)
    BY <2>2, <2>4
  <2> QED
    BY <1>1, <2>3, <2>4
<1>3. TablesOK'
  BY <1>1, <1>2 DEF Built, TablesOK
<1>4. Unique' /\ ElementsLinked'
  BY <1>1, UniqueSame, ElementsSame DEF Built, Linked
<1>5. BoostersLinked'
  <2>1. BoosterIds' = BoosterIds
    BY <1>1 DEF BoosterIds
  <2>2. PendingBoosters' = PendingBoosters
    BY BoostersMoves
  <2> QED
    BY <1>1, <2>1, <2>2 DEF Built, Linked, BoostersLinked
<1>6. InitialLinked'
  <2>1. \A v : PendingInitial(v) => PendingInitial(v)'
    BY InitialMoves
  <2>2. \A v : v = r => PendingInitial(v)'
    BY InitialNoted
  <2> HIDE DEF r
  <2> QED
    BY <1>1, <1>2, <2>1, <2>2 DEF Built, Linked, InitialLinked
<1> QED
  BY <1>3, <1>4, <1>5, <1>6 DEF Built, Linked

StateWith(k, x) == [track_state EXCEPT ![k] = Append(@, x)]

LEMMA StateIs ==
  ASSUME TablesOK, NEW CONSTANT k \in StateKinds, NEW CONSTANT x, track_state' = StateWith(k, x)
  PROVE  /\ track_state' = [j \in StateKinds |-> track_state'[j]]
         /\ \A j \in StateKinds : IsSeq(track_state'[j])
         /\ Range(track_state'[k]) = Range(track_state[k]) \cup {x}
         /\ \A j \in StateKinds \ {k} : track_state'[j] = track_state[j]
<1> DEFINE g == [track_state EXCEPT ![k] = Append(@, x)]
<1>1. DOMAIN track_state = StateKinds /\ \A j \in StateKinds : IsSeq(track_state[j])
  BY DEF TablesOK
<1>2. /\ g = [j \in StateKinds |-> g[j]] /\ g[k] = Append(track_state[k], x)
      /\ \A j \in StateKinds \ {k} : g[j] = track_state[j]
  BY <1>1
<1>3. IsSeq(Append(track_state[k], x)) /\ Range(Append(track_state[k], x)) = Range(track_state[k]) \cup {x}
  BY <1>1, AppendIs
<1> HIDE DEF g
<1>4. g = [j \in StateKinds |-> g[j]]
  BY <1>2
<1>5. /\ \A j \in StateKinds : IsSeq(g[j])
      /\ Range(g[k]) = Range(track_state[k]) \cup {x}
      /\ \A j \in StateKinds \ {k} : g[j] = track_state[j]
  BY <1>1, <1>2, <1>3
<1>6. track_state' = g
  BY DEF StateWith, g
<1> QED
  BY <1>4, <1>5, <1>6

(* The unique id of a board is read.                                        *)
LEMMA BuiltUid ==
  ASSUME StackOK, Built, NEW w \in Uids, BoardUid(w), Moves, Top.p = "board", Top.e.uid = NULL,
         Top'.e.uid = w, Top'.e.id = Top.e.id,
         boards' = boards, trains' = trains, initial_values' = initial_values
  PROVE  Built'
<1> DEFINE id == Top.e.id
           t == track_state'
<1>1. t = [track_state EXCEPT
             !["boosters"] = IF w \in BoosterUids THEN Append(@, id) ELSE @,
             !["track_outputs"] = IF w \in TrackOutputUids THEN Append(@, id) ELSE @]
  BY DEF BoardUid
<1>2. TablesOK /\ "boosters" \in StateKinds /\ "track_outputs" \in StateKinds
      /\ Range(Sections) \cup {"trains"} \subseteq StateKinds
      /\ "boosters" \notin Range(Sections) /\ "track_outputs" \notin Range(Sections)
  BY SectionsAre DEF Built
<1>3. DOMAIN track_state = StateKinds /\ \A k \in StateKinds : IsSeq(track_state[k])
  BY <1>2 DEF TablesOK
<1>4. /\ t = [k \in StateKinds |-> t[k]]
      /\ t["boosters"] = IF w \in BoosterUids THEN Append(track_state["boosters"], id)
                         ELSE track_state["boosters"]
      /\ t["track_outputs"] = IF w \in TrackOutputUids THEN Append(track_state["track_outputs"], id)
                              ELSE track_state["track_outputs"]
      /\ \A k \in StateKinds \ {"boosters", "track_outputs"} : t[k] = track_state[k]
  BY <1>1, <1>2, <1>3
<1> HIDE DEF id, t
<1>5. /\ IsSeq(t["boosters"]) /\ IsSeq(t["track_outputs"])
      /\ Range(t["boosters"]) = Range(track_state["boosters"]) \cup IF w \in BoosterUids THEN {id} ELSE {}
  <2>1. ASSUME NEW s, IsSeq(s)
        PROVE  IsSeq(Append(s, id)) /\ Range(Append(s, id)) = Range(s) \cup {id}
    BY <2>1, AppendIs
  <2>2. IsSeq(track_state["boosters"]) /\ IsSeq(track_state["track_outputs"])
    BY <1>2, <1>3
  <2>3. IsSeq(t["track_outputs"])
    BY <1>4, <2>1, <2>2
  <2>4. CASE w \in BoosterUids
    BY <1>4, <2>1, <2>2, <2>3, <2>4
  <2>5. CASE w \notin BoosterUids
    BY <1>4, <2>2, <2>3, <2>5
  <2> QED
    BY <2>4, <2>5
<1>6. /\ t = [k \in StateKinds |-> t[k]] /\ \A k \in StateKinds : IsSeq(t[k])
      /\ \A k \in Range(Sections) \cup {"trains"} : t[k] = track_state[k]
  BY <1>2, <1>3, <1>4, <1>5
<1>7. TablesOK'
  BY <1>2, <1>6 DEF TablesOK, t
<1>8. Unique' /\ ElementsLinked'
  BY <1>6, UniqueSame, ElementsSame DEF Built, Linked, t
<1>9. BoostersLinked'
  <2>1. BoosterIds' = BoosterIds
    BY DEF BoosterIds
  <2>2. PendingBoosters' = PendingBoosters \cup IF w \in BoosterUids THEN {Top.e.id} ELSE {}
    BY BoostersUid
  <2> QED
    BY <1>5, <2>1, <2>2 DEF Built, Linked, BoostersLinked, t, id
<1>10. InitialLinked'
  <2>1. \A v : PendingInitial(v) => PendingInitial(v)'
    <3> SUFFICES ASSUME NEW v, PendingInitial(v) PROVE PendingInitial(v)'
      OBVIOUS
    <3>1. Len(stack') = Len(stack) /\ stack'[Len(stack)] = Top' /\ Top = stack[Len(stack)]
          /\ \A i \in 1..(Len(stack) - 1) : stack'[i] = stack[i]
      BY GotoIs, TopIs DEF Moves
    <3>2. CASE Len(stack) = 3 /\ stack[2].p = "setup" /\ stack[3].p \in DOMAIN Elements
      BY <3>1, <3>2, BoardElementIs
    <3>3. CASE Len(stack) > 1 /\ stack[2].p = "train" /\ stack[2].at >= 2 /\ v.of = stack[2].e.id
      <4>1. Len(stack) # 2
        BY <3>1, <3>3
      <4>2. 2 \in 1..(Len(stack) - 1)
        BY <3>3, <4>1, TopIs
      <4>3. stack'[2] = stack[2]
        BY <3>1, <4>2
      <4> QED
        BY <3>1, <3>3, <4>3 DEF PendingInitial
    <3> QED
      BY <3>2, <3>3 DEF PendingInitial
  <2> QED
    BY <1>6, <2>1 DEF Built, Linked, InitialLinked, t
<1> QED
  BY <1>7, <1>8, <1>9, <1>10 DEF Built, Linked

(* Whatever an event is, the parser that runs takes it or meets an error.   *)
LEMMA ScalarOK ==
  ASSUME StackOK, DocOK, Sound, NEW CONSTANT w, w \in document.words[Top.p], Scalar(w)
  PROVE  StackOK' /\ DocOK' /\ (Going' => Sound')
<1>1. /\ Top.res = "run" /\ (ValueFits \/ KeyFits) /\ Forward(Counted)
      /\ document' = document /\ file' = file
      /\ \/ ElementKey(w) \/ ElementValue(w) \/ InitialValue(w)
         \/ SetupScalar(w) \/ BoardHeadScalar(w) \/ BoardFeatureScalar(w)
         \/ TrainScalar(w) \/ CalibrationScalar(w) \/ SectionScalar(w)
  BY DEF Scalar, Reading
<1>2. Nesting /\ Alternating /\ Built /\ TablesOK
  BY DEF Sound, Built
<1>3. CASE Errs
  <2>1. PICK d : d = Counted
    OBVIOUS
  <2>2. Forward(d)
    BY <1>1, <2>1
  <2> QED
    BY <1>1, <1>3, <2>2, ErrsOK
<1>4. CASE Moves /\ ~Errs
  <2>1. /\ Top'.seq = Top.seq /\ (Top'.res = "run" \/ Top.p = "calibration")
        /\ Top.p = "section" => Top.at = 0 /\ Top'.at = 1
        /\ \/ Keeps(Top, Top') /\ UNCHANGED tables
           \/ /\ Keeps(Top, Top') /\ InitialValue(w)
              /\ Top'.at = 2 * Len(Keys(Top.p)) /\ Top'.e["id"] = Top.e["id"]
           \/ /\ Top.p = "board" /\ w \in Uids /\ BoardUid(w) /\ Top.e.uid = NULL
              /\ Top'.e.uid = w /\ Top'.e.id = Top.e.id
              /\ UNCHANGED <<boards, trains, initial_values, trains_rwlock>>
    BY <1>1, <1>2, <1>4, ScalarMoves
  <2>2. doc' = Counted /\ doc # << >>
    BY <1>1, <1>4 DEF Forward, Moves, Top, ValueFits, KeyFits
  <2>3. StackOK'
    BY <1>1, <1>4, StackMoves
  <2>4. DocOK'
    BY <2>2, NodesLater, DocLater
  <2>5. boards' = boards
    BY <2>1 DEF tables, InitialValue
  <2>6. Nesting'
    BY <1>1, <1>2, <1>4, <2>5, NestingMoves
  <2>7. Alternating'
    BY <1>1, <1>2, <1>4, <2>1, <2>2, ScalarAlternates
  <2>8. Built'
    <3>1. CASE Keeps(Top, Top') /\ UNCHANGED tables
      BY <1>2, <1>4, <3>1, BuiltSame DEF tables
    <3>2. CASE Keeps(Top, Top') /\ InitialValue(w) /\ Top'.at = 2 * Len(Keys(Top.p)) /\ Top'.e["id"] = Top.e["id"]
      BY <1>2, <1>4, <3>2, BuiltInitial
    <3>3. CASE /\ Top.p = "board" /\ w \in Uids /\ BoardUid(w) /\ Top.e.uid = NULL
               /\ Top'.e.uid = w /\ Top'.e.id = Top.e.id
               /\ UNCHANGED <<boards, trains, initial_values, trains_rwlock>>
      BY <1>2, <1>4, <3>3, BuiltUid
    <3> QED
      BY <2>1, <3>1, <3>2, <3>3
  <2> QED
    BY <2>3, <2>4, <2>6, <2>7, <2>8 DEF Sound
<1> QED
  BY <1>1, <1>2, <1>3, <1>4, ScalarMoves

LEMMA SequenceStartOK ==
  ASSUME StackOK, DocOK, Sound, SequenceStart
  PROVE  StackOK' /\ DocOK' /\ (Going' => Sound')
<1> DEFINE d == Append(Counted, DocNode("sequence", 0))
<1>1. /\ Top.res = "run" /\ ValueFits /\ Forward(d)
      /\ document' = document /\ file' = file /\ UNCHANGED tables
      /\ \/ ElementSequenceStart \/ SetupSequenceStart \/ BoardSequenceStart
         \/ TrainSequenceStart \/ CalibrationOther \/ SectionSequenceStart
  BY DEF SequenceStart, Reading, DocNode
<1>2. Nesting /\ Alternating /\ Built /\ TablesOK /\ boards' = boards
  BY <1>1 DEF Sound, Built, tables
<1> HIDE DEF d
<1>3. CASE Errs
  <2>1. PICK x : x = d
    OBVIOUS
  <2>2. Forward(x)
    BY <1>1, <2>1
  <2> QED
    BY <1>1, <1>3, <2>2, ErrsOK
<1>4. CASE ~Errs
  <2>1. \/ /\ Moves /\ Keeps(Top, Top') /\ Top'.res = "run"
           /\ Top.p = "section" => Top.at = 1 /\ Top'.at = 2
           /\ Top.p # "section" => file = "board" \/ (~Top.seq /\ Top'.seq /\ Top.p # "calibration")
        \/ Enters("calibration") /\ ~Top.seq /\ Top.p \notin {"section", "calibration"}
    BY <1>1, <1>2, <1>4, SequenceStartMoves
  <2>2. Top'.res # "error" /\ "calibration" \in Parsers
    BY <2>1, CallIs, NewFrameOK, ElementsAre DEF Enters
  <2>3. doc' = d /\ doc # << >>
    BY <1>1, <2>2 DEF Forward, Top, ValueFits
  <2>4. StackOK'
    BY <1>1, <2>1, <2>2, StackMoves, StackEnters
  <2>5. DocOK'
    BY <2>3, NodesLater, DocLater DEF d
  <2>6. Nesting'
    BY <1>1, <1>2, <2>1, <2>2, NestingMoves, NestingEnters
  <2>7. Alternating'
    BY <1>1, <1>2, <2>1, <2>3, SequenceStartAlternates DEF d
  <2>8. Built'
    BY <1>1, <1>2, <2>1, <2>2, BuiltSame DEF tables
  <2> QED
    BY <2>4, <2>5, <2>6, <2>7, <2>8 DEF Sound
<1> QED
  BY <1>3, <1>4

LEMMA SequenceEndOK ==
  ASSUME StackOK, DocOK, Sound, SequenceEnd
  PROVE  StackOK' /\ DocOK' /\ (Going' => Sound')
<1> DEFINE d == Front(doc)
<1>1. /\ Top.res = "run" /\ doc # << >> /\ Last(doc).k = "sequence" /\ Forward(d)
      /\ document' = document /\ file' = file /\ UNCHANGED tables
      /\ \/ ElementSequenceEnd \/ SetupSequenceEnd \/ BoardSequenceEnd
         \/ TrainSequenceEnd \/ CalibrationOther \/ SectionEnd
  BY DEF SequenceEnd, Reading
<1>2. Nesting /\ Alternating /\ Built /\ TablesOK /\ boards' = boards
  BY <1>1 DEF Sound, Built, tables
<1> HIDE DEF d
<1>3. CASE Errs
  <2>1. PICK x : x = d
    OBVIOUS
  <2>2. Forward(x)
    BY <1>1, <2>1
  <2> QED
    BY <1>1, <1>3, <2>2, ErrsOK
<1>4. CASE ~Errs
  <2>1. /\ Moves /\ Keeps(Top, Top') /\ Top'.res = "run"
        /\ Top.p = "section" => Top.at = 2 /\ Top'.at = 2
        /\ Top.p # "section" => file = "board" \/ (Top.seq /\ ~Top'.seq /\ Top.p # "calibration")
    BY <1>1, <1>2, <1>4, SequenceEndMoves
  <2>3. doc' = d
    BY <1>1, <2>1 DEF Forward, Top
  <2>4. StackOK'
    BY <1>1, <2>1, StackMoves
  <2>5. DocOK'
    BY <1>1, <2>3, NodesLater, DocLater DEF d
  <2>6. Nesting'
    BY <1>1, <1>2, <2>1, NestingMoves
  <2>7. Alternating'
    BY <1>1, <1>2, <2>1, <2>3, SequenceEndAlternates DEF d
  <2>8. Built'
    BY <1>1, <1>2, <2>1, BuiltSame DEF tables
  <2> QED
    BY <2>4, <2>5, <2>6, <2>7, <2>8 DEF Sound
<1> QED
  BY <1>3, <1>4

LEMMA MappingStartOK ==
  ASSUME StackOK, DocOK, Sound, MappingStart
  PROVE  StackOK' /\ DocOK' /\ (Going' => Sound')
<1> DEFINE d == Append(Counted, DocNode("mapping", 0))
<1>1. /\ Top.res = "run" /\ ValueFits /\ Forward(d)
      /\ document' = document /\ file' = file /\ UNCHANGED tables
      /\ \/ ElementMappingStart \/ SetupMappingStart \/ BoardMappingStart
         \/ TrainMappingStart \/ CalibrationOther \/ SectionMappingStart
  BY DEF MappingStart, Reading, DocNode
<1>2. Nesting /\ Alternating /\ Built /\ TablesOK /\ boards' = boards
  BY <1>1 DEF Sound, Built, tables
<1> HIDE DEF d
<1>3. CASE Errs
  <2>1. PICK x : x = d
    OBVIOUS
  <2>2. Forward(x)
    BY <1>1, <2>1
  <2> QED
    BY <1>1, <1>3, <2>2, ErrsOK
<1>4. CASE ~Errs
  <2>1. \/ /\ Moves /\ Keeps(Top, Top') /\ Top'.res = "run"
           /\ Top.p = "section" => Top.at = 0 /\ Top'.at = 0
           /\ Top.p # "section" => file = "board"
        \/ /\ \E p \in Parsers : Enters(p) /\ p # "calibration"
           /\ Top.p = "section" => Top.at = 2
           /\ Top.p # "section" => Top.seq /\ Top.p # "calibration"
    BY <1>1, <1>2, <1>4, MappingStartMoves
  <2>2. Top'.res # "error"
    BY <2>1, CallIs, NewFrameOK DEF Enters
  <2>3. doc' = d /\ doc # << >>
    BY <1>1, <2>2 DEF Forward, Top, ValueFits
  <2>4. StackOK'
    BY <1>1, <2>1, StackMoves, StackEnters
  <2>5. DocOK'
    BY <2>3, NodesLater, DocLater DEF d
  <2>6. Nesting'
    BY <1>1, <1>2, <2>1, NestingMoves, NestingEnters
  <2>7. Alternating'
    BY <1>1, <1>2, <2>1, <2>3, MappingStartAlternates DEF d
  <2>8. Built'
    BY <1>1, <1>2, <2>1, BuiltSame DEF tables
  <2> QED
    BY <2>4, <2>5, <2>6, <2>7, <2>8 DEF Sound
<1> QED
  BY <1>3, <1>4

LEMMA MappingEndOK ==
  ASSUME StackOK, DocOK, Sound, MappingEnd
  PROVE  StackOK' /\ DocOK' /\ (Going' => Sound')
<1> DEFINE d == Front(doc)
<1>1. /\ Top.res = "run" /\ doc # << >> /\ Last(doc).k = "mapping" /\ Forward(d)
      /\ document' = document /\ file' = file /\ UNCHANGED tables
      /\ \/ ElementMappingEnd \/ SetupMappingEnd \/ BoardMappingEnd
         \/ TrainMappingEnd \/ SectionEnd
  BY DEF MappingEnd, Reading
<1>2. Nesting /\ Alternating /\ Built /\ TablesOK /\ boards' = boards
  BY <1>1 DEF Sound, Built, tables
<1> HIDE DEF d
<1>3. CASE Errs
  <2>1. PICK x : x = d
    OBVIOUS
  <2>2. Forward(x)
    BY <1>1, <2>1
  <2> QED
    BY <1>1, <1>3, <2>2, ErrsOK
<1>4. CASE ~Errs
  <2>1. /\ Moves /\ Keeps(Top, Top')
        /\ Top.p = "section" => Top.at = 2 /\ Top' = Top
        /\ Top.p # "section" => file = "board" \/ (Top'.seq = Top.seq /\ Top'.res = "done" /\ Top.p # "calibration")
    BY <1>1, <1>2, <1>4, MappingEndMoves
  <2>3. doc' = d
    BY <1>1, <2>1 DEF Forward, Top, Moves
  <2>4. StackOK'
    BY <1>1, <2>1, StackMoves
  <2>5. DocOK'
    BY <1>1, <2>3, NodesLater, DocLater DEF d
  <2>6. Nesting'
    BY <1>1, <1>2, <2>1, NestingMoves
  <2>7. Alternating'
    BY <1>1, <1>2, <2>1, <2>3, MappingEndAlternates DEF d
  <2>8. Built'
    BY <1>1, <1>2, <2>1, BuiltSame DEF tables
  <2> QED
    BY <2>4, <2>5, <2>6, <2>7, <2>8 DEF Sound
<1> QED
  BY <1>3, <1>4

LEMMA SameDoc ==
  ASSUME StackOK, Sound, Moves, Keeps(Top, Top'), document' = document, file' = file, UNCHANGED tables
  PROVE  StackOK' /\ Nesting' /\ Built'
<1>1. StackOK'
  BY StackMoves
<1>2. Nesting'
  BY NestingMoves DEF Sound, Built, tables
<1>3. Built'
  BY BuiltSame DEF Sound, tables
<1> QED
  BY <1>1, <1>2, <1>3

LEMMA DocumentStartOK ==
  ASSUME StackOK, DocOK, Sound, DocumentStart
  PROVE  StackOK' /\ DocOK' /\ (Going' => Sound')
<1> DEFINE d == <<DocNode("document", 0)>>
<1>1. /\ Top.res = "run" /\ Forward(d) /\ document' = document /\ file' = file /\ UNCHANGED tables
  BY DEF DocumentStart, Reading, DocNode
<1>2. CASE Top.p = "section" /\ Top.at = 0
  <2>1. UNCHANGED stack
    BY <1>2 DEF DocumentStart
  <2>2. Moves /\ Keeps(Top, Top') /\ Top' = Top
    BY <1>1, <1>2, <2>1, SectionStays DEF Sound
  <2>3. doc' = d
    BY <1>1, <2>2 DEF Forward, Top
  <2>4. StackOK' /\ Nesting' /\ Built'
    BY <1>1, <2>2, SameDoc
  <2>5. DocOK'
    BY <2>3, NodesAre, DocLater
  <2>6. Len(stack') = 1
    BY <1>2, <2>2, MovesLen, TopIs
  <2>7. Alternating'
    BY <1>1, <1>2, <2>2, <2>3, <2>6 DEF Alternating, SectionDoc
  <2> QED
    BY <2>4, <2>5, <2>7 DEF Sound
<1>3. CASE ~(Top.p = "section" /\ Top.at = 0)
  <2>1. Errs
    BY <1>3, WrongErrs DEF DocumentStart
  <2> QED
    BY <1>1, <2>1, ErrsOK
<1> QED
  BY <1>2, <1>3

LEMMA DocumentEndOK ==
  ASSUME StackOK, DocOK, Sound, DocumentEnd
  PROVE  StackOK' /\ DocOK' /\ (Going' => Sound')
<1>1. /\ Top.res = "run" /\ Forward(Closed) /\ document' = document /\ file' = file /\ UNCHANGED tables
  BY DEF DocumentEnd, Reading
<1>2. Errs \/ (SectionEnd /\ Top.p = "section")
  BY WrongErrs DEF DocumentEnd
<1>3. CASE Errs
  BY <1>1, <1>3, ErrsOK
<1>4. CASE ~Errs
  <2>1. Moves /\ Keeps(Top, Top') /\ Top' = Top /\ Top.at = 2 /\ Top.p = "section"
    BY <1>1, <1>2, <1>4, SectionEndMoves DEF Sound
  <2>3. doc' = Closed
    BY <1>1, <2>1 DEF Forward, Top
  <2>4. StackOK' /\ Nesting' /\ Built'
    BY <1>1, <2>1, SameDoc
  <2>5. DocOK'
    BY <2>3, NodesAre, DocLater
  <2>6. Len(stack') = 1
    BY <2>1, MovesLen, TopIs
  <2>7. SectionDoc'
    <3>1. Top'.res = "run" /\ Top'.at = 2
      BY <1>1, <2>1
    <3> QED
      BY <2>3, <3>1 DEF SectionDoc
  <2>8. Alternating'
    BY <1>1, <2>1, <2>6, <2>7, SectionAlternates
  <2> QED
    BY <2>4, <2>5, <2>8 DEF Sound
<1> QED
  BY <1>3, <1>4

LEMMA StreamEndOK ==
  ASSUME StackOK, DocOK, Sound, StreamEnd
  PROVE  StackOK' /\ DocOK' /\ (Going' => Sound')
<1>1. /\ Top.res = "run" /\ doc' = << >> /\ document' = document /\ file' = file /\ UNCHANGED tables
  BY DEF StreamEnd, Reading
<1>2. DocOK'
  BY <1>1, NodesAre, DocLater
<1>3. CASE Top.p = "section"
  <2>1. Goto(Top') /\ Top' = [Top EXCEPT !.res = "done"]
    BY <1>3, FinishIs DEF StreamEnd
  <2>2. /\ IsFrame(Top') /\ Top'.p = "section" /\ Top'.res = "done" /\ Top'.at = Top.at
        /\ Top'.seq = Top.seq
    <3> DEFINE g == [Top EXCEPT !.res = "done"]
    <3>1. /\ DOMAIN g = {"p", "at", "seq", "res", "e"} /\ g = [x \in DOMAIN g |-> g[x]]
          /\ g.p = Top.p /\ g.at = Top.at /\ g.seq = Top.seq /\ g.res = "done"
          /\ Top.p \in Parsers /\ Top.at \in Nat /\ Top.seq \in BOOLEAN
      BY TopIs DEF IsFrame
    <3> HIDE DEF g
    <3>2. IsFrame(g)
      BY <3>1, FrameIs
    <3>3. Top' = g
      BY <2>1 DEF g
    <3> QED
      BY <1>3, <3>1, <3>2, <3>3
  <2>3. SectionOK(Top')
    BY <1>3, <2>2, SectionTop DEF SectionOK, Sound
  <2>4. Moves /\ Keeps(Top, Top')
    BY <1>3, <2>1, <2>2, <2>3, PlainTo
  <2>5. StackOK' /\ Nesting' /\ Built'
    BY <1>1, <2>4, SameDoc
  <2>6. Len(stack') = 1
    BY <1>3, <2>4, MovesLen, TopIs
  <2>7. Alternating'
    BY <1>1, <2>2, <2>6 DEF Alternating, SectionDoc
  <2> QED
    BY <1>2, <2>5, <2>7 DEF Sound
<1>4. CASE Top.p # "section"
  <2>1. Errs
    BY <1>4, WrongErrs DEF StreamEnd
  <2>2. Forward(<< >>)
    BY <1>1 DEF Forward
  <2> QED
    BY <1>1, <2>1, <2>2, ErrsOK
<1> QED
  BY <1>3, <1>4

LEMMA NotYamlOK ==
  ASSUME StackOK, DocOK, Sound, NotYaml
  PROVE  StackOK' /\ DocOK' /\ (Going' => Sound')
<1>1. /\ doc' = << >> /\ document' = document /\ file' = file
  BY DEF NotYaml
<1>2. Errs
  BY WrongErrs DEF NotYaml
<1>3. Forward(<< >>)
  BY <1>1 DEF Forward
<1> QED
  BY <1>1, <1>2, <1>3, ErrsOK

LEMMA EventOK ==
  ASSUME StackOK, DocOK, Sound, Event
  PROVE  StackOK' /\ DocOK' /\ (Going' => Sound') /\ status' = "parsing"
<1>1. status' = "parsing"
  BY DEF Event, Scalar, SequenceStart, SequenceEnd, MappingStart, MappingEnd,
         DocumentStart, DocumentEnd, StreamEnd, NotYaml, Reading
<1> QED
  BY <1>1, ScalarOK, SequenceStartOK, SequenceEndOK, MappingStartOK, MappingEndOK,
     DocumentStartOK, DocumentEndOK, StreamEndOK, NotYamlOK DEF Event

----------------------------------------------------------------------------
(* The return of a parser to its caller.                                    *)

Back ==
  /\ stack' = Append(SubSeq(stack, 1, Len(stack) - 2), Top')
  /\ IsFrame(Top') /\ Top'.p = Caller.p

LEMMA BackIs ==
  ASSUME StackOK, Len(stack) > 1, NEW g, stack' = Append(SubSeq(stack, 1, Len(stack) - 2), g)
  PROVE  /\ IsSeq(stack') /\ Len(stack') = Len(stack) - 1 /\ stack'[Len(stack) - 1] = g /\ Top' = g
         /\ \A i \in 1..(Len(stack) - 2) : stack'[i] = stack[i]
<1>1. IsSeq(stack)
  BY DEF StackOK
<1> QED
  BY <1>1, ReplaceTwo DEF Top

LEMMA BackOK ==
  ASSUME StackOK, DocOK, Len(stack) > 1, Back, Leaving
  PROVE  StackOK' /\ DocOK'
<1>1. document' = document /\ file' = file /\ doc' = doc
  BY DEF Leaving
<1>2. PICK n \in Nat : n = Len(stack)
  BY TopIs
<1>3. n > 1
  BY <1>2
<1>4. /\ IsSeq(stack') /\ Len(stack') = n - 1 /\ stack'[n - 1] = Top'
      /\ \A i \in 1..(n - 2) : stack'[i] = stack[i]
  BY <1>2, BackIs DEF Back
<1>5. ASSUME NEW i \in 1..(n - 1)
      PROVE  /\ IsFrame(stack'[i]) /\ (stack'[i].p = "section" <=> i = 1)
             /\ i < n - 1 => stack'[i].res = "run"
  <2>1. i \in 1..n
    OBVIOUS
  <2>2. IsFrame(stack[i]) /\ (stack[i].p = "section" <=> i = 1) /\ (i < n => stack[i].res = "run")
    BY <1>2, <2>1 DEF StackOK
  <2>3. CASE i = n - 1
    <3>1. Caller = stack[i]
      BY <1>2, <2>3 DEF Caller
    <3>2. stack'[i] = Top' /\ IsFrame(Top') /\ Top'.p = stack[i].p
      BY <1>4, <2>3, <3>1 DEF Back
    <3> QED
      BY <1>3, <2>2, <2>3, <3>2
  <2>4. CASE i # n - 1
    <3>1. i \in 1..(n - 2) /\ i < n
      BY <2>4
    <3> QED
      BY <1>4, <2>2, <3>1
  <2> QED
    BY <2>3, <2>4
<1>6. Len(stack') > 0
  BY <1>3, <1>4
<1>7. StackOK'
  BY <1>1, <1>4, <1>5, <1>6 DEF StackOK
<1>8. DocOK'
  BY <1>1 DEF DocOK
<1> QED
  BY <1>7, <1>8

(* A frame that has been changed is one.                                    *)
LEMMA ErrorFrame ==
  ASSUME NEW f, IsFrame(f), NEW r \in {"run", "done", "error"}
  PROVE  LET g == [f EXCEPT !.res = r] IN
         IsFrame(g) /\ g.p = f.p /\ g.at = f.at /\ g.seq = f.seq /\ g.e = f.e /\ g.res = r
<1> DEFINE g == [f EXCEPT !.res = r]
<1>1. /\ DOMAIN g = {"p", "at", "seq", "res", "e"} /\ g = [x \in DOMAIN g |-> g[x]]
      /\ g.p = f.p /\ g.at = f.at /\ g.seq = f.seq /\ g.e = f.e /\ g.res = r
      /\ f.p \in Parsers /\ f.at \in Nat /\ f.seq \in BOOLEAN
  BY DEF IsFrame
<1> HIDE DEF g
<1>2. IsFrame(g)
  BY <1>1, FrameIs
<1> QED
  BY <1>1, <1>2 DEF g

LEMMA ReturnIs ==
  ASSUME StackOK, DocOK, Len(stack) > 1, NEW f, IsFrame(f), f.p = Caller.p, f.res = "run",
         NEW failed \in BOOLEAN, Return(failed, f), Leaving
  PROVE  /\ Back /\ StackOK' /\ DocOK'
         /\ failed => ~Going'
         /\ ~failed => Top' = f
<1>1. CASE failed
  <2> DEFINE g == [f EXCEPT !.res = "error"]
  <2>1. stack' = Append(SubSeq(stack, 1, Len(stack) - 2), g)
    BY <1>1 DEF Return
  <2>2. IsFrame(g) /\ g.p = f.p /\ g.res = "error"
    BY ErrorFrame
  <2> HIDE DEF g
  <2>3. Top' = g
    BY <2>1, BackIs
  <2>4. Back
    BY <2>1, <2>2, <2>3 DEF Back
  <2> QED
    BY <1>1, <2>2, <2>3, <2>4, BackOK DEF Going
<1>2. CASE ~failed
  <2>1. stack' = Append(SubSeq(stack, 1, Len(stack) - 2), f)
    BY <1>2 DEF Return
  <2>2. Top' = f
    BY <2>1, BackIs
  <2>3. Back
    BY <2>1, <2>2 DEF Back
  <2> QED
    BY <1>2, <2>2, <2>3, BackOK
<1> QED
  BY <1>1, <1>2

(* The caller goes on where it has called.                                  *)
Resumes == Back /\ FrameOK(Top') /\ Top'.at = Caller.at /\ Top'.seq = Caller.seq /\ Top'.res = "run"

LEMMA CallerWaits ==
  ASSUME StackOK, Nesting, Len(stack) > 1
  PROVE  /\ Caller.p \notin {"board", "calibration", "train_peripheral", "aspect", "port"}
         /\ Caller.p = "section" => Caller.at = 2 /\ Len(stack) = 2
         /\ Caller.p # "section" => Caller.seq /\ Len(stack) > 2
<1>1. Calls(Caller, Top) /\ FrameOK(Caller)
  BY TopOK
<1>2. Caller.p = "section" <=> Len(stack) = 2
  <2>1. PICK n \in Nat : n = Len(stack)
    BY TopIs
  <2>2. n - 1 \in 1..n /\ Caller = stack[n - 1]
    BY <2>1 DEF Caller
  <2>3. Caller.p = "section" <=> n - 1 = 1
    BY <2>1, <2>2 DEF StackOK
  <2> QED
    BY <2>1, <2>3
<1>3. Caller.p # "section" => Len(stack) > 2
  <2>1. PICK n \in Nat : n = Len(stack)
    BY TopIs
  <2> QED
    BY <1>2, <2>1
<1>4. CASE Caller.p \in DOMAIN Elements /\ Caller.seq /\ AtList(Caller)
  <2>1. Caller.at <= 2 * Len(Keys(Caller.p)) /\ IsFrame(Caller)
    BY <1>1, <1>4 DEF FrameOK, ElementOK
  <2>2. Caller.p \in {"accessory", "dcc_accessory", "peripheral", "dcc_aspect"}
    BY <1>4, <2>1, ListIs
  <2> QED
    BY <1>2, <1>3, <1>4, <2>2
<1>5. CASE ~(Caller.p \in DOMAIN Elements /\ Caller.seq /\ AtList(Caller))
  BY <1>1, <1>2, <1>3, <1>5 DEF Calls
<1> QED
  BY <1>4, <1>5

LEMMA BackNesting ==
  ASSUME StackOK, Nesting, TablesOK, Len(stack) > 1, Resumes, file' = file,
         Len(boards') \in Nat, Len(boards') >= Len(boards)
  PROVE  Nesting'
<1>1. PICK n \in Nat : n = Len(stack)
  BY TopIs
<1>2. n > 1
  BY <1>1
<1>3. /\ IsSeq(stack') /\ Len(stack') = n - 1 /\ stack'[n - 1] = Top'
      /\ \A i \in 1..(n - 2) : stack'[i] = stack[i]
  BY <1>1, BackIs DEF Back, Resumes
<1>4. Caller = stack[n - 1] /\ Top'.p = Caller.p /\ Caller.p # "train_peripheral"
  BY <1>1, CallerWaits DEF Caller, Back, Resumes
<1>5. ASSUME NEW i \in 1..(n - 1) PROVE FrameOK(stack'[i])
  <2>1. CASE i = n - 1
    BY <1>3, <2>1 DEF Resumes
  <2>2. CASE i # n - 1
    <3>1. i \in 1..(n - 2) /\ i \in 1..n
      BY <2>2
    <3> QED
      BY <1>1, <1>3, <3>1 DEF Nesting
  <2> QED
    BY <2>1, <2>2
<1>6. ASSUME NEW i \in 1..((n - 1) - 1)
      PROVE  Calls(stack'[i], stack'[i + 1]) /\ BitFree(stack'[i], stack'[i + 1])
  <2>1. i \in 1..(n - 2) /\ i \in 1..(n - 1)
    OBVIOUS
  <2>2. stack'[i] = stack[i] /\ Calls(stack[i], stack[i + 1]) /\ BitFree(stack[i], stack[i + 1])
    BY <1>1, <1>3, <2>1 DEF Nesting
  <2>3. CASE i = n - 2
    <3>1. i + 1 = n - 1
      BY <2>3
    <3>2. stack[i + 1] = Caller /\ stack'[i + 1] = Top'
      BY <1>3, <1>4, <3>1
    <3>3. Calls(stack[i], Top')
      BY <1>4, <2>2, <3>2, CallsSame
    <3> QED
      BY <1>4, <2>2, <3>2, <3>3 DEF BitFree
  <2>4. CASE i # n - 2
    <3>1. i + 1 \in 1..(n - 2)
      BY <2>4
    <3> QED
      BY <1>3, <2>2, <3>1
  <2> QED
    BY <2>3, <2>4
<1>7. Len(boards) \in Nat
  BY RangeIs DEF TablesOK
<1> QED
  BY <1>3, <1>5, <1>6, <1>7, NestingLater

LEMMA BackAlternates ==
  ASSUME StackOK, DocOK, Nesting, Alternating, Len(stack) > 1, Top.res = "done", Resumes,
         file' = file, doc' = doc
  PROVE  Alternating'
<1>1. PICK n \in Nat : n = Len(stack)
  BY TopIs
<1>2. n > 1 /\ Top.p # "section"
  BY <1>1, TopIs
<1>3. Len(stack') = n - 1 /\ Top'.p = Caller.p /\ Top'.at = Caller.at /\ Top'.seq = Caller.seq
      /\ Top'.res = "run"
  BY <1>1, BackIs DEF Back, Resumes
<1>4. CASE file = "board"
  BY <1>3, <1>4, BoardAlternates
<1>5. CASE file # "board"
  <2>1. Layers(doc, Depth)
    BY <1>2, <1>5, LayersNow
  <2>2. Depth = 2 * n - 1
    BY <1>1 DEF Depth
  <2>3. CASE Caller.p = "section"
    <3>1. Caller.at = 2 /\ Len(stack) = 2
      BY <2>3, CallerWaits
    <3>2. Layers(doc, 3)
      <4>1. n = 2 /\ 2 * 2 - 1 = 3
        BY <1>1, <3>1
      <4> QED
        BY <2>1, <2>2, <4>1
    <3>3. Len(doc) = 3 /\ doc[1] = DocNode("document", 1) /\ doc[2] = DocNode("mapping", 2)
          /\ doc[3].k = "sequence"
      <4>1. 3 \in 3..3 /\ 3 % 2 # 0
        OBVIOUS
      <4> QED
        BY <3>2, <4>1 DEF Layers
    <3>4. SectionDoc'
      BY <1>3, <3>1, <3>3 DEF SectionDoc
    <3>5. Len(stack') = 1
      BY <1>1, <1>3, <3>1
    <3> QED
      BY <1>3, <2>3, <3>4, <3>5, SectionAlternates
  <2>4. CASE Caller.p # "section"
    <3>1. Caller.seq /\ Len(stack) > 2 /\ Caller.p # "calibration"
      BY <2>4, CallerWaits
    <3>2. Depth' = 2 * (n - 1) + 1
      BY <1>3, <3>1 DEF Depth
    <3>3. 2 * (n - 1) + 1 = 2 * n - 1 /\ n - 1 # 1
      <4>1. n > 2
        BY <1>1, <3>1
      <4> QED
        BY <4>1
    <3>4. Layers(doc', Depth')
      BY <2>1, <2>2, <3>2, <3>3
    <3>5. Len(stack') # 1
      BY <1>3, <3>3
    <3> QED
      BY <1>3, <2>4, <3>4, <3>5, LayersLater
  <2> QED
    BY <2>3, <2>4
<1> QED
  BY <1>4, <1>5

LEMMA BoostersBack ==
  ASSUME StackOK, Nesting, Len(stack) > 1, Back, Top.p # "board"
  PROVE  PendingBoosters' = PendingBoosters
<1>1. PICK n \in Nat : n = Len(stack)
  BY TopIs
<1>2. n > 1
  BY <1>1
<1>3. /\ Len(stack') = n - 1 /\ stack'[n - 1] = Top'
      /\ \A i \in 1..(n - 2) : stack'[i] = stack[i]
  BY <1>1, BackIs DEF Back
<1>4. Caller = stack[n - 1] /\ Top = stack[n] /\ Top'.p # "board" /\ Caller.p # "board"
  BY <1>1, CallerWaits, TopIs DEF Caller, Back
<1> DEFINE I == {j \in 1..n : BoosterNoted(stack[j])}
           J == {j \in 1..(n - 1) : BoosterNoted(stack'[j])}
<1>5. ~BoosterNoted(stack[n]) /\ ~BoosterNoted(stack[n - 1]) /\ ~BoosterNoted(stack'[n - 1])
  BY <1>3, <1>4 DEF BoosterNoted
<1>6. \A j \in 1..n : j = n \/ j = n - 1 \/ j \in 1..(n - 2)
  OBVIOUS
<1>7. \A j \in 1..(n - 2) : j \in 1..n /\ j \in 1..(n - 1)
  OBVIOUS
<1>8. \A j \in 1..(n - 1) : j \in 1..n
  OBVIOUS
<1>9. I \subseteq 1..(n - 2) /\ J \subseteq 1..(n - 2)
  BY <1>5, <1>6, <1>8, <1>2
<1>10. I = J
  BY <1>3, <1>7, <1>9
<1>11. {stack[i].e.id : i \in I} = {stack'[i].e.id : i \in J}
  BY <1>3, <1>9, <1>10
<1> QED
  BY <1>1, <1>3, <1>11, PendingBoostersAre, PendingBoostersLater

(* The caller keeps the id of a train.                                      *)
LEMMA InitialBack ==
  ASSUME StackOK, Nesting, Len(stack) > 1, Resumes, NEW CONSTANT v, PendingInitial(v),
         Caller.p = "train" => Top'.e.id = Caller.e.id
  PROVE  \/ PendingInitial(v)'
         \/ /\ Len(stack) = 3 /\ Caller.p = "setup" /\ Top.p \in DOMAIN Elements
            /\ v.of = SectionOf(Caller) /\ v.id = Top.e["id"]
         \/ Len(stack) = 2 /\ Top.p = "train" /\ v.of = Top.e.id
<1>1. PICK n \in Nat : n = Len(stack)
  BY TopIs
<1>2. n > 1
  BY <1>1
<1>3. /\ Len(stack') = n - 1 /\ stack'[n - 1] = Top'
      /\ \A i \in 1..(n - 2) : stack'[i] = stack[i]
  BY <1>1, BackIs DEF Back, Resumes
<1>4. Caller = stack[n - 1] /\ Top = stack[n]
  BY <1>1, TopIs DEF Caller
<1>5. CASE Len(stack) = 3 /\ stack[2].p = "setup" /\ stack[3].p \in DOMAIN Elements
           /\ v.of = SectionOf(stack[2]) /\ v.id = stack[3].e["id"]
  <2>1. n = 3 /\ n - 1 = 2
    BY <1>1, <1>5
  <2> QED
    BY <1>4, <1>5, <2>1
<1>6. CASE stack[2].p = "train" /\ stack[2].at >= 2 /\ v.of = stack[2].e.id
  <2>1. CASE n = 2
    BY <1>1, <1>4, <1>6, <2>1
  <2>2. CASE n = 3
    <3>1. n - 1 = 2
      BY <2>2
    <3>2. stack'[2] = Top' /\ Caller = stack[2] /\ Len(stack') = 2
      BY <1>3, <1>4, <3>1
    <3>3. stack'[2].p = "train" /\ stack'[2].at >= 2 /\ v.of = stack'[2].e.id /\ Len(stack') > 1
      BY <1>6, <3>2 DEF Resumes, Back
    <3> QED
      BY <3>3 DEF PendingInitial
  <2>3. CASE n > 3
    <3>1. 2 \in 1..(n - 2) /\ n - 1 > 1
      BY <2>3
    <3>2. stack'[2] = stack[2] /\ Len(stack') > 1
      BY <1>3, <3>1
    <3> QED
      BY <1>6, <3>2 DEF PendingInitial
  <2>4. n = 2 \/ n = 3 \/ n > 3
    BY <1>2
  <2> QED
    BY <2>1, <2>2, <2>3, <2>4
<1> QED
  BY <1>5, <1>6 DEF PendingInitial

(* What is part of an element is added to the element alone.                *)
LEMMA BackBuilt ==
  ASSUME StackOK, Nesting, Built, Len(stack) > 1, Resumes, UNCHANGED tables,
         Top.p \in {"aspect", "port", "dcc_aspect", "train_peripheral", "calibration", "setup"},
         Caller.p = "train" => Top'.e.id = Caller.e.id
  PROVE  Built'
<1>1. TablesOK' /\ Unique' /\ ElementsLinked'
  BY TablesSame, UniqueSame, ElementsSame DEF Built, Linked, tables
<1>2. BoosterIds' = BoosterIds
  BY DEF BoosterIds, tables
<1>3. PendingBoosters' = PendingBoosters
  BY BoostersBack DEF Resumes
<1>4. BoostersLinked'
  BY <1>2, <1>3 DEF Built, Linked, BoostersLinked, tables
<1>5. ~(Len(stack) = 3 /\ Caller.p = "setup" /\ Top.p \in DOMAIN Elements)
  <2>1. Top.p # "section"
    BY TopIs
  <2>2. Top.p \in {"aspect", "port", "dcc_aspect"} => Len(stack) # 3
    <3>1. Top.p \in {"aspect", "port", "dcc_aspect"} => Caller.p # "setup"
      BY <2>1, CallerIs
    <3> QED
      BY <2>1, CallerIs, TopIs
  <2>3. Top.p \in {"train_peripheral", "calibration"} => Caller.p # "setup"
    BY <2>1, CallerIs
  <2>4. "setup" \notin DOMAIN Elements
    BY ElementsAre DEF ElementNames
  <2> QED
    BY <2>2, <2>3, <2>4
<1>6. \A v : PendingInitial(v) => PendingInitial(v)'
  BY <1>5, InitialBack
<1>7. InitialLinked'
  BY <1>6 DEF Built, Linked, InitialLinked, tables
<1> QED
  BY <1>1, <1>4, <1>7 DEF Built, Linked

LEMMA BackSound ==
  ASSUME StackOK, DocOK, Sound, Len(stack) > 1, Top.res = "done", Resumes, Leaving, UNCHANGED tables,
         Top.p \in {"aspect", "port", "dcc_aspect", "train_peripheral", "calibration", "setup"},
         Caller.p = "train" => Top'.e.id = Caller.e.id
  PROVE  Sound'
<1>1. Nesting /\ Alternating /\ Built /\ TablesOK /\ boards' = boards /\ file' = file /\ doc' = doc
  BY DEF Sound, Built, tables, Leaving
<1>2. Len(boards) \in Nat
  BY <1>1, RangeIs DEF TablesOK
<1>3. Nesting'
  BY <1>1, <1>2, BackNesting
<1>4. Alternating'
  BY <1>1, BackAlternates
<1>5. Built'
  BY <1>1, BackBuilt
<1> QED
  BY <1>3, <1>4, <1>5 DEF Sound

----------------------------------------------------------------------------
(* The parsers of the elements of a list.                                   *)

AppendTo(e, k, x) == [e EXCEPT ![k] = Append(e[k], x)]
WithElement(f, k, x) == [f EXCEPT !.e[k] = Append(@, x)]

LEMMA AddedIs ==
  ASSUME NEW f, IsFrame(f), NEW k, NEW x
  PROVE  LET g == WithElement(f, k, x) IN
         /\ IsFrame(g) /\ g.p = f.p /\ g.at = f.at /\ g.seq = f.seq /\ g.res = f.res
         /\ g.e = AppendTo(f.e, k, x)
<1> DEFINE g == WithElement(f, k, x)
           y == [f.e EXCEPT ![k] = Append(f.e[k], x)]
<1>1. g = [f EXCEPT !.e = y]
  BY DEF WithElement
<1> HIDE DEF y
<1>2. /\ DOMAIN g = {"p", "at", "seq", "res", "e"} /\ g = [z \in DOMAIN g |-> g[z]]
      /\ g.p = f.p /\ g.at = f.at /\ g.seq = f.seq /\ g.res = f.res /\ g.e = y
      /\ f.p \in Parsers /\ f.at \in Nat /\ f.seq \in BOOLEAN /\ f.res \in {"run", "done", "error"}
  BY <1>1 DEF IsFrame
<1> HIDE DEF g
<1>3. IsFrame(g)
  BY <1>2, FrameIs
<1>4. y = AppendTo(f.e, k, x)
  BY DEF AppendTo, y
<1> QED
  BY <1>2, <1>3, <1>4 DEF g

LEMMA ElementAdd ==
  ASSUME NEW f, IsFrame(f), f.p \in DOMAIN Elements, ElementOK(f), f.res = "run", AtList(f),
         NEW x, Key(f) = "aspects" => x.id \notin Range(Field(f.e["aspects"], "id")),
         NEW g, IsFrame(g), g.p = f.p, g.at = f.at, g.res = "run", g.e = AppendTo(f.e, Key(f), x)
  PROVE  FrameOK(g)
<1> DEFINE keys == Keys(f.p)
           n == Len(keys)
           l == Key(f)
<1>1. n \in 2..5 /\ DOMAIN keys = 1..n /\ KeysOK(f.p) /\ f.at \in Nat /\ f.at <= 2 * n
  BY KeysAreOK DEF KeysOK, ElementOK, IsFrame
<1>2. l \in Range(keys) /\ l \in {"aspects", "ports"} /\ f.at >= 3
  BY <1>1, ListIs
<1>3. f.e = [k \in Range(keys) |-> f.e[k]]
  BY DEF ElementOK
<1>4. IsSeq(f.e[l])
  <2>1. PICK i \in 1..n : l = keys[i]
    BY <1>1, <1>2 DEF Range
  <2>2. 2 <= f.at /\ keys[i] \in Lists
    BY <1>1, <1>2, <2>1 DEF Lists
  <2> QED
    BY <2>1, <2>2 DEF ElementOK
<1>5. IsSeq(Append(f.e[l], x)) /\ Len(Append(f.e[l], x)) = Len(f.e[l]) + 1 /\ Len(f.e[l]) \in Nat
  BY <1>4, AppendIs, RangeIs
<1>6. g.e = [k \in Range(keys) |-> IF k = l THEN Append(f.e[l], x) ELSE f.e[k]]
  BY <1>2, <1>3 DEF AppendTo
<1>7. g.e = [k \in Range(keys) |-> g.e[k]]
  BY <1>6
<1>8. \A j \in 1..n : keys[j] \in Range(keys)
  BY <1>1 DEF Range
<1> HIDE DEF l
<1>9. ASSUME NEW j \in 1..n
      PROVE  /\ 2 * j <= g.at /\ keys[j] \notin Lists => g.e[keys[j]] # NULL
             /\ 2 * j <= g.at /\ keys[j] \in Lists => Len(g.e[keys[j]]) > 0
             /\ 2 <= g.at /\ keys[j] \in Lists => IsSeq(g.e[keys[j]])
  <2>1. CASE keys[j] = l
    <3>1. g.e[keys[j]] = Append(f.e[l], x) /\ l \in Lists
      BY <1>2, <1>6, <1>8, <2>1 DEF Lists
    <3> QED
      BY <1>5, <2>1, <3>1
  <2>2. CASE keys[j] # l
    <3>1. g.e[keys[j]] = f.e[keys[j]]
      BY <1>6, <1>8, <2>2
    <3> QED
      BY <3>1 DEF ElementOK
  <2> QED
    BY <2>1, <2>2
<1>10. "initial" \in Range(keys) => g.e["initial"] = f.e["initial"]
  BY <1>2, <1>6
<1>11. ASSUME "aspects" \in Range(keys)
       PROVE  /\ Once(g.e["aspects"], "id")
              /\ g.e["initial"] \in {NULL} \cup Range(Field(g.e["aspects"], "id"))
  <2>1. "initial" \in Range(keys) /\ l = "aspects"
    BY <1>1, <1>2, <1>11, ListIs DEF KeysOK, l
  <2>2. g.e["aspects"] = Append(f.e["aspects"], x)
    BY <1>6, <1>11, <2>1
  <2>3. Once(f.e["aspects"], "id") /\ f.e["initial"] \in {NULL} \cup Range(Field(f.e["aspects"], "id"))
    <3>1. 2 <= f.at
      BY <1>1, <1>2
    <3> QED
      BY <1>11, <3>1 DEF ElementOK
  <2>4. x.id \notin Range(Field(f.e["aspects"], "id")) /\ IsSeq(f.e["aspects"])
    BY <1>4, <2>1 DEF l
  <2>5. /\ Range(Field(Append(f.e["aspects"], x), "id")) = Range(Field(f.e["aspects"], "id")) \cup {x.id}
        /\ Once(Append(f.e["aspects"], x), "id")
    BY <2>3, <2>4, OnceAppend
  <2> QED
    BY <1>10, <2>1, <2>2, <2>3, <2>5
<1>12. ElementOK(g)
  <2> HIDE DEF keys
  <2>1. "initial" \in Range(keys) /\ g.at < 2 * n => g.e["initial"] = NULL
    BY <1>10 DEF ElementOK, keys
  <2> QED
    BY <1>1, <1>7, <1>9, <1>11, <2>1 DEF ElementOK, keys
<1> QED
  BY <1>12, ElementFrame

(* A list of ids in which the id of x is not.                               *)
LEMMA NotThere ==
  ASSUME NEW s, NEW k, NEW v, \A o \in Range(s) : o[k] # v
  PROVE  v \notin Range(Field(s, k))
BY DEF Range, Field

LEMMA CallerFrame ==
  ASSUME StackOK, Len(stack) > 1
  PROVE  IsFrame(Caller) /\ Caller.res = "run" /\ Top.p # "section"
BY TopIs

LEMMA ListCaller ==
  ASSUME StackOK, Nesting, Top.p \in {"aspect", "port", "dcc_aspect"}
  PROVE  /\ Len(stack) > 1 /\ Caller.p \in DOMAIN Elements /\ ElementOK(Caller) /\ AtList(Caller)
         /\ Key(Caller) = IF Top.p = "port" THEN "ports" ELSE "aspects"
         /\ Caller.p # "train"
<1>1. Len(stack) > 1 /\ Calls(Caller, Top) /\ FrameOK(Caller)
  BY TopIs, TopOK, NestedIs
<1>2. /\ Top.p = "aspect" => Caller.p \in {"accessory", "peripheral"}
      /\ Top.p = "dcc_aspect" => Caller.p = "dcc_accessory"
      /\ Top.p = "port" => Caller.p = "dcc_aspect"
  BY CallerIs
<1>3. Caller.p \in {"accessory", "peripheral", "dcc_accessory", "dcc_aspect"} /\ Caller.p \in DOMAIN Elements
  BY <1>2, ElementsAre DEF ElementNames
<1>4. AtList(Caller)
  BY <1>1, <1>3 DEF Calls
<1>5. ElementOK(Caller) /\ IsFrame(Caller) /\ Caller.at <= 2 * Len(Keys(Caller.p))
  BY <1>1, <1>3 DEF FrameOK, ElementOK
<1>6. Key(Caller) = IF Caller.p = "dcc_aspect" THEN "ports" ELSE "aspects"
  BY <1>3, <1>4, <1>5, ListIs
<1> QED
  BY <1>1, <1>2, <1>3, <1>4, <1>5, <1>6

(* An element that has been read to its end.                                *)
LEMMA DoneIs ==
  ASSUME StackOK, Nesting, Top.p \in DOMAIN Elements, Top.res = "done"
  PROVE  /\ DOMAIN Top.e = Range(Keys(Top.p)) /\ Top.e = [k \in DOMAIN Top.e |-> Top.e[k]]
         /\ \A k \in Range(Keys(Top.p)) \ ({"initial"} \cup Lists) : Top.e[k] # NULL
         /\ Top.p # "port" => Top.e["id"] # NULL
         /\ Complete(Top.e)
<1> DEFINE keys == Keys(Top.p)
           n == Len(keys)
<1>1. IsFrame(Top) /\ ElementOK(Top) /\ Top.at \in Elements[Top.p].ends
  BY TopIs, TopOK DEF FrameOK, ElementOK
<1>2. n \in 2..5 /\ DOMAIN keys = 1..n /\ KeysOK(Top.p)
  BY KeysAreOK DEF KeysOK
<1>3. Top.e = [k \in Range(keys) |-> Top.e[k]] /\ DOMAIN Top.e = Range(keys)
  BY <1>1 DEF ElementOK
<1>4. \A i \in 1..n : keys[i] # "initial" => 2 * i <= Top.at
  BY <1>1, <1>2 DEF KeysOK
<1>5. \A k \in Range(keys) : \E i \in 1..n : k = keys[i]
  BY <1>2 DEF Range
<1>6. ASSUME NEW k \in Range(keys), k # "initial", k \notin Lists PROVE Top.e[k] # NULL
  BY <1>1, <1>4, <1>5, <1>6 DEF ElementOK
<1>7. Top.p # "port" => Top.e["id"] # NULL
  <2> SUFFICES ASSUME Top.p # "port" PROVE Top.e["id"] # NULL
    OBVIOUS
  <2>1. 1 \in 1..n /\ keys[1] = "id"
    BY <1>2 DEF KeysOK
  <2>2. "id" \in Range(keys) /\ "id" # "initial" /\ "id" \notin Lists
    BY <1>2, <2>1 DEF Range, Lists
  <2> QED
    BY <1>6, <2>2
<1>8. ASSUME "aspects" \in Range(keys)
      PROVE  /\ Len(Top.e["aspects"]) > 0 /\ Once(Top.e["aspects"], "id")
             /\ Top.e["initial"] \in {NULL} \cup Range(Field(Top.e["aspects"], "id"))
  <2>1. PICK i \in 1..n : keys[i] = "aspects"
    BY <1>5, <1>8
  <2>2. 2 * i <= Top.at /\ keys[i] \in Lists
    BY <1>4, <2>1 DEF Lists
  <2>3. 2 <= Top.at
    <3>1. i >= 1 /\ Top.at \in Nat
      BY <1>1 DEF IsFrame
    <3> QED
      BY <2>2, <3>1
  <2> QED
    BY <1>1, <1>8, <2>1, <2>2, <2>3 DEF ElementOK
<1> HIDE DEF keys, n
<1>9. Complete(Top.e)
  BY <1>3, <1>6, <1>8 DEF Complete
<1>10. Top.e = [k \in DOMAIN Top.e |-> Top.e[k]]
  BY <1>3
<1> QED
  BY <1>3, <1>6, <1>7, <1>9, <1>10 DEF keys

(* What an end of a parser leads to.                                        *)
LeftOK ==
  \/ status' = "parsing" /\ StackOK' /\ DocOK' /\ (Going' => Sound')
  \/ status' = "crashed" /\ Top.res = "error"
  \/ status' = "rejected"
  \/ status' = "loaded" /\ Built' /\ stack' = << >>

LEMMA EndedIs ==
  ASSUME StackOK, NEW p, Ended(p)
  PROVE  /\ status = "parsing" /\ Top.p = p /\ Top.res \in {"done", "error"}
         /\ p # "section" => Len(stack) > 1 /\ IsFrame(Caller) /\ Caller.res = "run"
<1>1. IsFrame(Top) /\ Top.res # "run" /\ status = "parsing" /\ Top.p = p
  BY TopIs DEF Ended
<1> QED
  BY <1>1, NestedIs, CallerFrame DEF IsFrame

LEMMA ListLeft ==
  ASSUME StackOK, DocOK, Going => Sound, NEW p \in {"aspect", "port", "dcc_aspect"}, Ended(p),
         NEW k, k = IF p = "port" THEN "ports" ELSE "aspects",
         NEW failed \in BOOLEAN, Return(failed, AddTo(k, Top.e)), Leaving, UNCHANGED tables,
         status' = status, Top.res = "error" => failed,
         p # "port" /\ ~failed => \A o \in Range(Caller.e["aspects"]) : o["id"] # Top.e.id
  PROVE  LeftOK
<1>1. /\ status = "parsing" /\ Top.p = p /\ Top.res \in {"done", "error"}
      /\ Len(stack) > 1 /\ IsFrame(Caller) /\ Caller.res = "run"
  BY EndedIs
<1> DEFINE f == AddTo(k, Top.e)
<1>2. /\ IsFrame(f) /\ f.p = Caller.p /\ f.at = Caller.at /\ f.seq = Caller.seq /\ f.res = "run"
      /\ f.e = AppendTo(Caller.e, k, Top.e)
  <2> DEFINE g == WithElement(Caller, k, Top.e)
  <2>1. /\ IsFrame(g) /\ g.p = Caller.p /\ g.at = Caller.at /\ g.seq = Caller.seq /\ g.res = Caller.res
        /\ g.e = AppendTo(Caller.e, k, Top.e)
    BY <1>1, AddedIs
  <2>2. f = g
    BY DEF AddTo, WithElement
  <2> HIDE DEF f, g
  <2> QED
    BY <1>1, <2>1, <2>2
<1>3. Return(failed, f)
  OBVIOUS
<1> HIDE DEF f
<1>4. Back /\ StackOK' /\ DocOK' /\ (failed => ~Going') /\ (~failed => Top' = f)
  BY <1>1, <1>2, <1>3, ReturnIs
<1>5. CASE failed
  BY <1>1, <1>4, <1>5 DEF LeftOK
<1>6. CASE ~failed
  <2>1. Top.res = "done" /\ Sound /\ Nesting
    BY <1>1, <1>6 DEF Going, Sound
  <2>2. /\ Caller.p \in DOMAIN Elements /\ ElementOK(Caller) /\ AtList(Caller) /\ Key(Caller) = k
        /\ Caller.p # "train"
    BY <1>1, <2>1, ListCaller
  <2>3. k = "aspects" => Top.e.id \notin Range(Field(Caller.e["aspects"], "id"))
    BY <1>6, NotThere
  <2>4. FrameOK(f)
    BY <1>1, <1>2, <2>2, <2>3, ElementAdd
  <2>5. Resumes
    BY <1>2, <1>4, <1>6, <2>4 DEF Resumes
  <2>6. Sound'
    BY <1>1, <2>1, <2>2, <2>5, BackSound
  <2> QED
    BY <1>1, <1>4, <2>6 DEF LeftOK
<1> QED
  BY <1>5, <1>6

LEMMA LeaveAspectOK ==
  ASSUME StackOK, DocOK, Going => Sound, LeaveAspect
  PROVE  LeftOK
<1> DEFINE others == Range(Caller.e["aspects"])
           failed == Top.res = "error" \/ \E a \in others : a.value = Top.e.value \/ a.id = Top.e.id
<1>1. Ended("aspect") /\ Leaving
  BY DEF LeaveAspect
<1>2. Top.p = "aspect" /\ Top.res \in {"done", "error"}
  BY <1>1, EndedIs
<1>3. CASE Top.e.id = NULL /\ others # {}
  <2>1. status' = "crashed"
    BY <1>3 DEF LeaveAspect, Crash
  <2>2. Top.res = "error"
    <3> SUFFICES ASSUME Top.res = "done" PROVE FALSE
      BY <1>2
    <3>1. "aspect" \in DOMAIN Elements /\ Nesting
      BY ElementsAre DEF Going, Sound, ElementNames
    <3> QED
      BY <1>2, <1>3, <3>1, DoneIs
  <2> QED
    BY <2>1, <2>2 DEF LeftOK
<1>4. CASE ~(Top.e.id = NULL /\ others # {})
  <2>1. Return(failed, AddTo("aspects", Top.e)) /\ UNCHANGED tables /\ status' = status
    BY <1>4 DEF LeaveAspect
  <2>2. failed \in BOOLEAN /\ (Top.res = "error" => failed) /\ (~failed => \A o \in others : o["id"] # Top.e.id)
    OBVIOUS
  <2> HIDE DEF failed
  <2> QED
    BY <1>1, <2>1, <2>2, ListLeft
<1> QED
  BY <1>3, <1>4

LEMMA LeavePortOK ==
  ASSUME StackOK, DocOK, Going => Sound, LeavePort
  PROVE  LeftOK
<1> DEFINE failed == Top.res = "error" \/ \E v \in Range(Caller.e["ports"]) : v.port = Top.e.port
<1>1. Ended("port") /\ Leaving /\ Return(failed, AddTo("ports", Top.e)) /\ UNCHANGED tables /\ status' = status
  BY DEF LeavePort
<1>2. failed \in BOOLEAN /\ (Top.res = "error" => failed)
  OBVIOUS
<1> HIDE DEF failed
<1> QED
  BY <1>1, <1>2, ListLeft

LEMMA LeaveDccAspectOK ==
  ASSUME StackOK, DocOK, Going => Sound, LeaveDccAspect
  PROVE  LeftOK
<1> DEFINE others == Range(Caller.e["aspects"])
           failed == Top.res = "error" \/ \E a \in others : dcc_aspects_equal(Top.e, a)
<1>1. Ended("dcc_aspect") /\ Leaving
  BY DEF LeaveDccAspect
<1>2. Top.p = "dcc_aspect" /\ Top.res \in {"done", "error"}
  BY <1>1, EndedIs
<1>3. CASE Top.e.id = NULL /\ others # {}
  <2>1. status' = "crashed"
    BY <1>3 DEF LeaveDccAspect, Crash
  <2>2. Top.res = "error"
    <3> SUFFICES ASSUME Top.res = "done" PROVE FALSE
      BY <1>2
    <3>1. "dcc_aspect" \in DOMAIN Elements /\ Nesting
      BY ElementsAre DEF Going, Sound, ElementNames
    <3> QED
      BY <1>2, <1>3, <3>1, DoneIs
  <2> QED
    BY <2>1, <2>2 DEF LeftOK
<1>4. CASE ~(Top.e.id = NULL /\ others # {})
  <2>1. Return(failed, AddTo("aspects", Top.e)) /\ UNCHANGED tables /\ status' = status
    BY <1>4 DEF LeaveDccAspect
  <2>2. failed \in BOOLEAN /\ (Top.res = "error" => failed)
    OBVIOUS
  <2>3. ~failed => \A o \in others : o["id"] # Top.e.id
    BY DEF dcc_aspects_equal
  <2> HIDE DEF failed
  <2> QED
    BY <1>1, <2>1, <2>2, <2>3, ListLeft
<1> QED
  BY <1>3, <1>4

LEMMA TrainAdd ==
  ASSUME NEW f, FrameOK(f), f.p = "train", f.res = "run", NEW x, NEW g, IsFrame(g), g.p = f.p,
         g.at = f.at, g.seq = f.seq, g.res = "run", g.e = AppendTo(f.e, "peripherals", x),
         \A t \in Range(f.e.peripherals) : t.bit # x.bit
  PROVE  FrameOK(g) /\ g.e.id = f.e.id
<1>1. TrainOK(f)
  BY DEF FrameOK
<1>2. f.e = [id |-> f.e.id, addr |-> f.e.addr, peripherals |-> f.e.peripherals]
      /\ IsSeq(f.e.peripherals) /\ Once(f.e.peripherals, "bit")
  BY <1>1 DEF TrainOK
<1> DEFINE y == Append(f.e.peripherals, x)
<1>3. g.e = [f.e EXCEPT !["peripherals"] = y]
  BY DEF AppendTo
<1>4. IsSeq(y)
  BY <1>2, AppendIs
<1>5. x.bit \notin Range(Field(f.e.peripherals, "bit"))
  BY NotThere
<1>6. Once(y, "bit")
  <2>1. Once(f.e.peripherals, "bit") /\ x.bit \notin Range(Field(f.e.peripherals, "bit")) => Once(y, "bit")
    BY <1>2, OnceAppend
  <2> QED
    BY <1>2, <1>5, <2>1
<1> HIDE DEF y
<1>7. /\ g.e = [id |-> g.e.id, addr |-> g.e.addr, peripherals |-> g.e.peripherals]
      /\ g.e.id = f.e.id /\ g.e.addr = f.e.addr /\ g.e.peripherals = y
  BY <1>2, <1>3
<1>8. TrainOK(g)
  BY <1>1, <1>4, <1>6, <1>7 DEF TrainOK
<1>9. g.p \notin DOMAIN Elements
  BY ElementsAre DEF ElementNames
<1>10. SetupOK(g) /\ BoardOK(g) /\ SectionOK(g)
  BY DEF SetupOK, BoardOK, SectionOK
<1> QED
  BY <1>7, <1>8, <1>9, <1>10, OtherFrame

LEMMA LeaveTrainPeripheralOK ==
  ASSUME StackOK, DocOK, Going => Sound, LeaveTrainPeripheral
  PROVE  LeftOK
<1> DEFINE failed == Top.res = "error"
           x == [id |-> Top.e.id, bit |-> Top.e.bit]
           f == [Caller EXCEPT !.e.peripherals = Append(@, x)]
           g == WithElement(Caller, "peripherals", x)
<1>1. Ended("train_peripheral") /\ Leaving /\ Return(failed, f) /\ UNCHANGED tables /\ status' = status
  BY DEF LeaveTrainPeripheral
<1>2. /\ status = "parsing" /\ Top.p = "train_peripheral" /\ Top.res \in {"done", "error"}
      /\ Len(stack) > 1 /\ IsFrame(Caller) /\ Caller.res = "run"
  BY <1>1, EndedIs
<1>3. f = g /\ x.bit = Top.e.bit
  BY DEF WithElement
<1> HIDE DEF x
<1>4. /\ IsFrame(g) /\ g.p = Caller.p /\ g.at = Caller.at /\ g.seq = Caller.seq /\ g.res = Caller.res
      /\ g.e = AppendTo(Caller.e, "peripherals", x)
  BY <1>2, AddedIs
<1>5. failed \in BOOLEAN /\ (failed <=> Top.res = "error")
  OBVIOUS
<1> HIDE DEF f, g, failed
<1>6. Back /\ StackOK' /\ DocOK' /\ (failed => ~Going') /\ (~failed => Top' = f)
  BY <1>1, <1>2, <1>3, <1>4, <1>5, ReturnIs
<1>7. CASE failed
  BY <1>1, <1>2, <1>6, <1>7 DEF LeftOK
<1>8. CASE ~failed
  <2>1. Top.res = "done" /\ Sound /\ Nesting
    BY <1>2, <1>5, <1>8 DEF Going, Sound
  <2>2. FrameOK(Caller) /\ Caller.p = "train" /\ FrameOK(Top) /\ BitFree(Caller, Top)
    BY <1>2, <2>1, TopOK, CallerIs
  <2>3. Top.at >= 4
    <3>1. Top.at \in {4, 6}
      BY <1>2, <2>1, <2>2, ElementsAre DEF FrameOK, ElementOK, ElementNames
    <3> QED
      BY <3>1
  <2>4. \A t \in Range(Caller.e.peripherals) : t.bit # x.bit
    BY <1>2, <1>3, <2>2, <2>3 DEF BitFree
  <2>5. FrameOK(g) /\ g.e.id = Caller.e.id
    BY <1>2, <1>4, <2>2, <2>4, TrainAdd
  <2>6. Resumes /\ Top'.e.id = Caller.e.id
    BY <1>2, <1>3, <1>4, <1>6, <1>8, <2>5 DEF Resumes
  <2>7. Sound'
    BY <1>1, <1>2, <2>1, <2>6, BackSound
  <2> QED
    BY <1>1, <1>2, <1>6, <2>7 DEF LeftOK
<1> QED
  BY <1>7, <1>8

LEMMA PlainLeft ==
  ASSUME StackOK, DocOK, Going => Sound, NEW p \in {"calibration", "setup"}, Ended(p),
         Return(Top.res = "error", Caller), UNCHANGED tables, status' = status, Leaving
  PROVE  LeftOK
<1> DEFINE failed == Top.res = "error"
<1>1. Return(failed, Caller)
  OBVIOUS
<1>2. /\ status = "parsing" /\ Top.p = p /\ Top.res \in {"done", "error"}
      /\ Len(stack) > 1 /\ IsFrame(Caller) /\ Caller.res = "run"
  BY EndedIs
<1>5. failed \in BOOLEAN /\ (failed <=> Top.res = "error")
  OBVIOUS
<1> HIDE DEF failed
<1>6. Back /\ StackOK' /\ DocOK' /\ (failed => ~Going') /\ (~failed => Top' = Caller)
  BY <1>1, <1>2, <1>5, ReturnIs
<1>7. CASE failed
  BY <1>2, <1>6, <1>7 DEF LeftOK
<1>8. CASE ~failed
  <2>1. Top.res = "done" /\ Sound /\ Nesting
    BY <1>2, <1>5, <1>8 DEF Going, Sound
  <2>2. FrameOK(Caller)
    BY <1>2, <2>1, TopOK
  <2>6. Resumes
    BY <1>2, <1>6, <1>8, <2>2 DEF Resumes
  <2>7. Sound'
    BY <1>2, <1>6, <1>8, <2>1, <2>6, BackSound
  <2> QED
    BY <1>2, <1>6, <2>7 DEF LeftOK
<1> QED
  BY <1>7, <1>8

LEMMA LeaveCalibrationOK ==
  ASSUME StackOK, DocOK, Going => Sound, LeaveCalibration
  PROVE  LeftOK
BY PlainLeft DEF LeaveCalibration

LEMMA LeaveSetupOK ==
  ASSUME StackOK, DocOK, Going => Sound, LeaveSetup
  PROVE  LeftOK
BY PlainLeft DEF LeaveSetup

----------------------------------------------------------------------------
(* The elements of the sections of all boards.                              *)

Spots(bs, S) == UNION {{<<b, s, i>> : i \in DOMAIN bs[b].parts[s]} : b \in DOMAIN bs, s \in S}

LEMMA SpotsAre ==
  ASSUME NEW bs, NEW S
  PROVE  /\ \A b \in DOMAIN bs, s \in S : \A i \in DOMAIN bs[b].parts[s] : <<b, s, i>> \in Spots(bs, S)
         /\ \A x \in Spots(bs, S) : \E b \in DOMAIN bs, s \in S :
              \E i \in DOMAIN bs[b].parts[s] : x = <<b, s, i>>
<1>1. ASSUME NEW b \in DOMAIN bs, NEW s \in S, NEW i \in DOMAIN bs[b].parts[s]
      PROVE  <<b, s, i>> \in Spots(bs, S)
  <2> DEFINE P(c, t) == {<<c, t, j>> : j \in DOMAIN bs[c].parts[t]}
             Q == {P(c, t) : c \in DOMAIN bs, t \in S}
  <2>1. <<b, s, i>> \in P(b, s)
    OBVIOUS
  <2> HIDE DEF P
  <2>2. P(b, s) \in Q
    OBVIOUS
  <2> HIDE DEF Q
  <2>3. <<b, s, i>> \in UNION Q
    BY <2>1, <2>2
  <2> QED
    BY <2>3 DEF Q, P, Spots
<1>2. ASSUME NEW x \in Spots(bs, S)
      PROVE  \E b \in DOMAIN bs, s \in S : \E i \in DOMAIN bs[b].parts[s] : x = <<b, s, i>>
  BY DEF Spots
<1> QED
  BY <1>1, <1>2

LEMMA PlacesAre ==
  /\ \A S : Places(S) = Spots(boards, S)
  /\ \A S : Parts(S) = [x \in Spots(boards, S) |-> boards[x[1]].parts[x[2]][x[3]]]
BY DEF Places, Spots, Parts

LEMMA PlacesLater ==
  ASSUME NEW CONSTANT S
  PROVE  /\ Places(S)' = Spots(boards', S)
         /\ Parts(S)' = [x \in Spots(boards', S) |-> boards'[x[1]].parts[x[2]][x[3]]]
BY DEF Places, Spots, Parts

LEMMA PartsAre ==
  ASSUME NEW S
  PROVE  /\ DOMAIN Parts(S) = Places(S)
         /\ \A b \in DOMAIN boards, s \in S : \A i \in DOMAIN boards[b].parts[s] :
              <<b, s, i>> \in Places(S) /\ Parts(S)[<<b, s, i>>] = boards[b].parts[s][i]
         /\ \A x \in Places(S) : \E b \in DOMAIN boards, s \in S :
              \E i \in DOMAIN boards[b].parts[s] : x = <<b, s, i>>
<1>1. Places(S) = Spots(boards, S) /\ Parts(S) = [x \in Spots(boards, S) |-> boards[x[1]].parts[x[2]][x[3]]]
  BY PlacesAre
<1>2. ASSUME NEW b \in DOMAIN boards, NEW s \in S, NEW i \in DOMAIN boards[b].parts[s]
      PROVE  <<b, s, i>> \in Spots(boards, S) /\ Parts(S)[<<b, s, i>>] = boards[b].parts[s][i]
  <2>1. <<b, s, i>> \in Spots(boards, S)
    BY SpotsAre
  <2> DEFINE x == <<b, s, i>>
  <2>2. x[1] = b /\ x[2] = s /\ x[3] = i
    OBVIOUS
  <2> HIDE DEF x
  <2>3. Parts(S)[x] = boards[b].parts[s][i]
    BY <1>1, <2>1, <2>2 DEF x
  <2> QED
    BY <2>1, <2>3 DEF x
<1> QED
  BY <1>1, <1>2, SpotsAre

LEMMA PartsRange ==
  ASSUME NEW S, NEW k
  PROVE  /\ \A v : v \in Range(Field(Parts(S), k)) <=>
              \E b \in DOMAIN boards, s \in S :
                \E i \in DOMAIN boards[b].parts[s] : v = boards[b].parts[s][i][k]
         /\ \A m : m \in Range(Parts(S)) <=>
              \E b \in DOMAIN boards, s \in S :
                \E i \in DOMAIN boards[b].parts[s] : m = boards[b].parts[s][i]
<1> DEFINE F == Parts(S)
           P == Places(S)
<1>1. DOMAIN F = P /\ DOMAIN Field(F, k) = P /\ \A x \in P : Field(F, k)[x] = F[x][k]
  BY PartsAre DEF Field
<1>2. /\ \A b \in DOMAIN boards, s \in S : \A i \in DOMAIN boards[b].parts[s] :
           <<b, s, i>> \in P /\ F[<<b, s, i>>] = boards[b].parts[s][i]
      /\ \A x \in P : \E b \in DOMAIN boards, s \in S : \E i \in DOMAIN boards[b].parts[s] : x = <<b, s, i>>
  BY PartsAre
<1> HIDE DEF F, P
<1>3. ASSUME NEW v, v \in Range(Field(F, k))
      PROVE  \E b \in DOMAIN boards, s \in S :
               \E i \in DOMAIN boards[b].parts[s] : v = boards[b].parts[s][i][k]
  <2>1. PICK x \in P : v = F[x][k]
    BY <1>1, <1>3 DEF Range
  <2>2. PICK b \in DOMAIN boards, s \in S : \E i \in DOMAIN boards[b].parts[s] : x = <<b, s, i>>
    BY <1>2
  <2>3. PICK i \in DOMAIN boards[b].parts[s] : x = <<b, s, i>>
    BY <2>2
  <2>4. v = boards[b].parts[s][i][k]
    BY <1>2, <2>1, <2>3
  <2> QED
    BY <2>4
<1>4. ASSUME NEW b \in DOMAIN boards, NEW s \in S, NEW i \in DOMAIN boards[b].parts[s]
      PROVE  boards[b].parts[s][i] \in Range(F) /\ boards[b].parts[s][i][k] \in Range(Field(F, k))
  <2>1. <<b, s, i>> \in P /\ F[<<b, s, i>>] = boards[b].parts[s][i]
    BY <1>2
  <2>2. Field(F, k)[<<b, s, i>>] = boards[b].parts[s][i][k]
    BY <1>1, <2>1
  <2> QED
    BY <1>1, <2>1, <2>2 DEF Range
<1>5. ASSUME NEW m, m \in Range(F)
      PROVE  \E b \in DOMAIN boards, s \in S : \E i \in DOMAIN boards[b].parts[s] : m = boards[b].parts[s][i]
  <2>1. PICK x \in P : m = F[x]
    BY <1>1, <1>5 DEF Range
  <2>2. PICK b \in DOMAIN boards, s \in S : \E i \in DOMAIN boards[b].parts[s] : x = <<b, s, i>>
    BY <1>2
  <2>3. PICK i \in DOMAIN boards[b].parts[s] : x = <<b, s, i>>
    BY <2>2
  <2>4. m = boards[b].parts[s][i]
    BY <1>2, <2>1, <2>3
  <2> QED
    BY <2>4
<1> QED
  BY <1>3, <1>4, <1>5 DEF F

(* A mapping is added to section s of board B.                              *)
WithPart(B, s, m) == [boards EXCEPT ![B].parts[s] = Append(@, m)]

LEMMA WithPartIs ==
  ASSUME TablesOK, NEW B \in 1..Len(boards), NEW s \in Range(Sections), NEW m, boards' = WithPart(B, s, m)
  PROVE  /\ IsSeq(boards') /\ Len(boards') = Len(boards) /\ DOMAIN boards' = DOMAIN boards
         /\ \A b \in 1..Len(boards) :
              /\ boards'[b] = [id |-> boards[b].id, uid |-> boards[b].uid,
                               secack_on |-> boards[b].secack_on, features |-> boards[b].features,
                               parts |-> boards'[b].parts]
              /\ boards'[b].parts = [t \in Range(Sections) |-> boards'[b].parts[t]]
         /\ \A b \in 1..Len(boards), t \in Range(Sections) :
              b # B \/ t # s => boards'[b].parts[t] = boards[b].parts[t]
         /\ boards'[B].parts[s] = Append(boards[B].parts[s], m)
<1> DEFINE w == Append(boards[B].parts[s], m)
           y == [boards[B].parts EXCEPT ![s] = w]
           z == [boards[B] EXCEPT !.parts = y]
<1>1. boards' = [boards EXCEPT ![B] = z]
  BY DEF WithPart
<1>2. PICK n \in Nat : n = Len(boards) /\ DOMAIN boards = 1..n
  BY RangeIs DEF TablesOK
<1>3. /\ boards[B] = [id |-> boards[B].id, uid |-> boards[B].uid,
                      secack_on |-> boards[B].secack_on, features |-> boards[B].features,
                      parts |-> boards[B].parts]
      /\ boards[B].parts = [t \in Range(Sections) |-> boards[B].parts[t]]
  BY DEF TablesOK
<1> HIDE DEF w
<1>4. /\ y = [t \in Range(Sections) |-> y[t]] /\ y[s] = w
      /\ \A t \in Range(Sections) : t # s => y[t] = boards[B].parts[t]
  BY <1>3
<1> HIDE DEF y
<1>5. z = [id |-> boards[B].id, uid |-> boards[B].uid, secack_on |-> boards[B].secack_on,
           features |-> boards[B].features, parts |-> y] /\ z.parts = y
  BY <1>3
<1> HIDE DEF z
<1>6. boards \in Seq(Range(boards) \cup {z}) /\ z \in Range(boards) \cup {z}
  <2>1. boards \in Seq(Range(boards))
    BY DEF TablesOK, IsSeq
  <2> QED
    BY <2>1
<1>7. boards' \in Seq(Range(boards) \cup {z}) /\ Len(boards') = n
  BY <1>1, <1>2, <1>6
<1>8. IsSeq(boards') /\ DOMAIN boards' = 1..n
  BY <1>1, <1>2, <1>7, SeqIs
<1>9. boards'[B] = z /\ \A b \in 1..n : b # B => boards'[b] = boards[b]
  BY <1>1, <1>2
<1>10. ASSUME NEW b \in 1..n
       PROVE  /\ boards'[b] = [id |-> boards[b].id, uid |-> boards[b].uid,
                               secack_on |-> boards[b].secack_on, features |-> boards[b].features,
                               parts |-> boards'[b].parts]
              /\ boards'[b].parts = [t \in Range(Sections) |-> boards'[b].parts[t]]
              /\ \A t \in Range(Sections) : b # B \/ t # s => boards'[b].parts[t] = boards[b].parts[t]
  <2>1. CASE b = B
    <3>1. boards'[b] = z /\ boards'[b].parts = y /\ b = B
      BY <1>5, <1>9, <2>1
    <3> QED
      BY <1>4, <1>5, <3>1
  <2>2. CASE b # B
    <3>1. boards'[b] = boards[b]
      BY <1>9, <2>2
    <3> QED
      BY <1>2, <3>1 DEF TablesOK
  <2> QED
    BY <2>1, <2>2
<1>11. boards'[B].parts[s] = w
  BY <1>4, <1>5, <1>9
<1>12. \A b \in 1..n, t \in Range(Sections) :
         b # B \/ t # s => boards'[b].parts[t] = boards[b].parts[t]
  BY <1>10
<1>13. boards'[B].parts[s] = Append(boards[B].parts[s], m)
  BY <1>11 DEF w
<1> HIDE DEF WithPart
<1> QED
  BY <1>2, <1>7, <1>8, <1>10, <1>12, <1>13

LEMMA WithPartKeeps ==
  ASSUME TablesOK, NEW B \in 1..Len(boards), NEW s \in Range(Sections), NEW m, boards' = WithPart(B, s, m)
  PROVE  /\ Len(boards') = Len(boards) /\ DOMAIN boards' = DOMAIN boards
         /\ \A b \in 1..Len(boards) : boards'[b].id = boards[b].id /\ boards'[b].uid = boards[b].uid
         /\ \A b \in 1..Len(boards), t \in Range(Sections) :
              b # B \/ t # s => boards'[b].parts[t] = boards[b].parts[t]
         /\ boards'[B].parts[s] = Append(boards[B].parts[s], m)
<1>1. ASSUME NEW b \in 1..Len(boards)
      PROVE  boards'[b].id = boards[b].id /\ boards'[b].uid = boards[b].uid
  <2>1. boards'[b] = [id |-> boards[b].id, uid |-> boards[b].uid,
                      secack_on |-> boards[b].secack_on, features |-> boards[b].features,
                      parts |-> boards'[b].parts]
    BY WithPartIs
  <2> QED
    BY <2>1
<1>2. /\ Len(boards') = Len(boards) /\ DOMAIN boards' = DOMAIN boards
      /\ \A b \in 1..Len(boards), t \in Range(Sections) :
           b # B \/ t # s => boards'[b].parts[t] = boards[b].parts[t]
      /\ boards'[B].parts[s] = Append(boards[B].parts[s], m)
  BY WithPartIs
<1> QED
  BY <1>1, <1>2

LEMMA PartsMore ==
  ASSUME TablesOK, NEW B \in 1..Len(boards), NEW CONSTANT s, s \in Range(Sections), NEW m,
         boards' = WithPart(B, s, m), NEW CONSTANT S, S \subseteq Range(Sections)
  PROVE  /\ s \notin S => Parts(S)' = Parts(S)
         /\ s \in S => \A k :
              /\ Range(Field(Parts(S)', k)) = Range(Field(Parts(S), k)) \cup {m[k]}
              /\ Range(Parts(S)') = Range(Parts(S)) \cup {m}
              /\ Once(Parts(S), k) /\ m[k] \notin Range(Field(Parts(S), k)) => Once(Parts(S)', k)
<1>1. /\ Len(boards') = Len(boards) /\ DOMAIN boards' = DOMAIN boards
      /\ \A b \in 1..Len(boards), t \in Range(Sections) :
           b # B \/ t # s => boards'[b].parts[t] = boards[b].parts[t]
      /\ boards'[B].parts[s] = Append(boards[B].parts[s], m)
  BY WithPartKeeps
<1>2. DOMAIN boards = 1..Len(boards)
  BY RangeIs DEF TablesOK
<1> DEFINE old == boards[B].parts[s]
           n == Len(old) + 1
<1>3. IsSeq(old)
  BY DEF TablesOK
<1>4. /\ Len(old) \in Nat /\ DOMAIN old = 1..Len(old) /\ DOMAIN Append(old, m) = 1..n
      /\ Append(old, m)[n] = m /\ \A i \in 1..Len(old) : Append(old, m)[i] = old[i]
  BY <1>3, AppendIs, RangeIs
<1> HIDE DEF old
<1>5. n \notin DOMAIN old /\ DOMAIN Append(old, m) = DOMAIN old \cup {n}
  BY <1>4
<1>6. /\ \A x \in Places(S)' : \E b \in 1..Len(boards), t \in S :
           \E i \in DOMAIN boards'[b].parts[t] : x = <<b, t, i>>
      /\ \A b \in 1..Len(boards), t \in S : \A i \in DOMAIN boards'[b].parts[t] : <<b, t, i>> \in Places(S)'
  <2>1. Places(S)' = Spots(boards', S)
    BY PlacesLater
  <2>2. DOMAIN boards' = 1..Len(boards)
    BY <1>1, <1>2
  <2> QED
    BY <2>1, <2>2, SpotsAre
<1>7. /\ \A x \in Places(S) : \E b \in 1..Len(boards), t \in S :
           \E i \in DOMAIN boards[b].parts[t] : x = <<b, t, i>>
      /\ \A b \in 1..Len(boards), t \in S : \A i \in DOMAIN boards[b].parts[t] : <<b, t, i>> \in Places(S)
  BY <1>2, PartsAre
<1>8. ASSUME s \notin S PROVE Parts(S)' = Parts(S)
  <2>1. \A b \in 1..Len(boards), t \in S : boards'[b].parts[t] = boards[b].parts[t]
    BY <1>1, <1>8
  <2>2. Places(S)' = Places(S)
    <3>1. ASSUME NEW x \in Places(S)' PROVE x \in Places(S)
      BY <1>6, <1>7, <2>1
    <3>2. ASSUME NEW x \in Places(S) PROVE x \in Places(S)'
      BY <1>6, <1>7, <2>1
    <3> QED
      BY <3>1, <3>2
  <2>3. \A x \in Places(S) : boards'[x[1]].parts[x[2]][x[3]] = boards[x[1]].parts[x[2]][x[3]]
    BY <1>7, <2>1
  <2> QED
    BY <2>2, <2>3 DEF Parts
<1>9. ASSUME s \in S
      PROVE  \A k :
               /\ Range(Field(Parts(S)', k)) = Range(Field(Parts(S), k)) \cup {m[k]}
               /\ Range(Parts(S)') = Range(Parts(S)) \cup {m}
               /\ Once(Parts(S), k) /\ m[k] \notin Range(Field(Parts(S), k)) => Once(Parts(S)', k)
  <2> DEFINE q == <<B, s, n>>
             F == Parts(S)
             G == Parts(S)'
  <2>1. \A b \in 1..Len(boards), t \in S : b # B \/ t # s => boards'[b].parts[t] = boards[b].parts[t]
    BY <1>1
  <2>2. boards'[B].parts[s] = Append(old, m)
    BY <1>1 DEF old
  <2>3. q \notin Places(S)
    <3> SUFFICES ASSUME q \in Places(S) PROVE FALSE
      OBVIOUS
    <3>1. PICK b \in 1..Len(boards), t \in S : \E i \in DOMAIN boards[b].parts[t] : q = <<b, t, i>>
      BY <1>7
    <3>2. PICK i \in DOMAIN boards[b].parts[t] : q = <<b, t, i>>
      BY <3>1
    <3>3. b = B /\ t = s /\ i = n
      BY <3>2
    <3> QED
      BY <1>5, <3>2, <3>3 DEF old
  <2>4. ASSUME NEW x \in Places(S)' PROVE x \in Places(S) \/ x = q
    <3>1. PICK b \in 1..Len(boards), t \in S : \E i \in DOMAIN boards'[b].parts[t] : x = <<b, t, i>>
      BY <1>6
    <3>2. PICK i \in DOMAIN boards'[b].parts[t] : x = <<b, t, i>>
      BY <3>1
    <3>3. CASE b = B /\ t = s
      <4>1. i \in DOMAIN old \cup {n}
        BY <1>5, <2>2, <3>2, <3>3
      <4> QED
        BY <1>7, <3>2, <3>3, <4>1 DEF old
    <3>4. CASE b # B \/ t # s
      BY <1>7, <2>1, <3>2, <3>4
    <3> QED
      BY <3>3, <3>4
  <2>5. q \in Places(S)'
    BY <1>5, <1>6, <1>9, <2>2
  <2>6. ASSUME NEW x \in Places(S)
        PROVE  x \in Places(S)' /\ boards'[x[1]].parts[x[2]][x[3]] = boards[x[1]].parts[x[2]][x[3]]
    <3>1. PICK b \in 1..Len(boards), t \in S : \E i \in DOMAIN boards[b].parts[t] : x = <<b, t, i>>
      BY <1>7
    <3>2. PICK i \in DOMAIN boards[b].parts[t] : x = <<b, t, i>>
      BY <3>1
    <3>3. x[1] = b /\ x[2] = t /\ x[3] = i
      BY <3>2
    <3>4. i \in DOMAIN boards'[b].parts[t] /\ boards'[b].parts[t][i] = boards[b].parts[t][i]
      <4>1. CASE b = B /\ t = s
        <5>1. i \in DOMAIN old /\ boards'[b].parts[t] = Append(old, m) /\ boards[b].parts[t] = old
          BY <2>2, <3>2, <4>1 DEF old
        <5> QED
          BY <1>4, <1>5, <5>1
      <4>2. CASE b # B \/ t # s
        BY <2>1, <3>2, <4>2
      <4> QED
        BY <4>1, <4>2
    <3> QED
      BY <1>6, <3>2, <3>3, <3>4
  <2>7. DOMAIN F = Places(S) /\ DOMAIN G = Places(S)' /\ G[q] = m
    <3>1. q[1] = B /\ q[2] = s /\ q[3] = n
      OBVIOUS
    <3>2. boards'[B].parts[s][n] = m
      BY <1>4, <2>2
    <3> HIDE DEF q
    <3>3. G[q] = m
      BY <2>5, <3>1, <3>2 DEF Parts
    <3> QED
      BY <3>3 DEF Parts
  <2>8. DOMAIN G = DOMAIN F \cup {q} /\ q \notin DOMAIN F
    BY <2>3, <2>4, <2>5, <2>6, <2>7
  <2>9. \A x \in DOMAIN F : G[x] = F[x]
    BY <2>6, <2>7 DEF Parts
  <2> HIDE DEF F, G, q
  <2>10. \A k : /\ Range(Field(G, k)) = Range(Field(F, k)) \cup {G[q][k]}
                /\ Range(G) = Range(F) \cup {G[q]}
                /\ Once(F, k) /\ G[q][k] \notin Range(Field(F, k)) => Once(G, k)
    BY <2>8, <2>9, OnceMore
  <2> QED
    BY <2>7, <2>10 DEF F, G
<1> QED
  BY <1>8, <1>9

LEMMA FieldSame ==
  ASSUME NEW f, NEW g, NEW k, DOMAIN g = DOMAIN f, \A x \in DOMAIN f : g[x][k] = f[x][k]
  PROVE  Field(g, k) = Field(f, k)
BY DEF Field

LEMMA PartsTwo ==
  ASSUME NEW s, NEW t, NEW k, NEW v
  PROVE  v \in Range(Field(Parts({s, t}), k)) <=>
           v \in Range(Field(Parts({s}), k)) \/ v \in Range(Field(Parts({t}), k))
<1> DEFINE In(x, S) == \E b \in DOMAIN boards, u \in S : \E i \in DOMAIN boards[b].parts[u] : x = boards[b].parts[u][i][k]
<1>1. \A x : x \in Range(Field(Parts({s, t}), k)) <=> In(x, {s, t})
  BY PartsRange
<1>2. \A x : x \in Range(Field(Parts({s}), k)) <=> In(x, {s})
  BY PartsRange
<1>3. \A x : x \in Range(Field(Parts({t}), k)) <=> In(x, {t})
  BY PartsRange
<1>4. \A x : In(x, {s, t}) <=> In(x, {s}) \/ In(x, {t})
  OBVIOUS
<1> QED
  BY <1>1, <1>2, <1>3, <1>4

(* The ids that a new element is compared with are those of its kind.       *)
LEMMA IdsAre ==
  ASSUME ElementsLinked
  PROVE  /\ Range(Field(Parts(Points), "id")) = PointIds
         /\ Range(Field(Parts(Signals), "id")) = SignalIds
         /\ \A s \in Range(Sections) : Range(Field(Parts({s}), "id")) = Range(track_state[s])
<1>1. \A s \in Range(Sections) : Range(Field(Parts({s}), "id")) = Range(track_state[s])
  BY DEF ElementsLinked
<1>2. {"points-board", "points-dcc", "signals-board", "signals-dcc"} \subseteq Range(Sections)
  BY SectionsAre
<1>3. Range(Field(Parts(Points), "id")) = PointIds
  <2> DEFINE B == "points-board"
             D == "points-dcc"
  <2>1. \A v : v \in Range(Field(Parts({B, D}), "id")) <=>
          v \in Range(Field(Parts({B}), "id")) \/ v \in Range(Field(Parts({D}), "id"))
    BY PartsTwo
  <2>2. Range(Field(Parts({B}), "id")) = Range(track_state[B])
        /\ Range(Field(Parts({D}), "id")) = Range(track_state[D])
    BY <1>1, <1>2
  <2> DEFINE U == Range(Field(Parts({B, D}), "id"))
             V == Range(track_state[B])
             W == Range(track_state[D])
  <2>3. \A v : v \in U <=> v \in V \/ v \in W
    BY <2>1, <2>2
  <2> HIDE DEF U, V, W
  <2>4. U = V \cup W
    BY <2>3
  <2> QED
    BY <2>4 DEF U, V, W, Points, PointIds
<1>4. Range(Field(Parts(Signals), "id")) = SignalIds
  <2> DEFINE B == "signals-board"
             D == "signals-dcc"
  <2>1. \A v : v \in Range(Field(Parts({B, D}), "id")) <=>
          v \in Range(Field(Parts({B}), "id")) \/ v \in Range(Field(Parts({D}), "id"))
    BY PartsTwo
  <2>2. Range(Field(Parts({B}), "id")) = Range(track_state[B])
        /\ Range(Field(Parts({D}), "id")) = Range(track_state[D])
    BY <1>1, <1>2
  <2> DEFINE U == Range(Field(Parts({B, D}), "id"))
             V == Range(track_state[B])
             W == Range(track_state[D])
  <2>3. \A v : v \in U <=> v \in V \/ v \in W
    BY <2>1, <2>2
  <2> HIDE DEF U, V, W
  <2>4. U = V \cup W
    BY <2>3
  <2> QED
    BY <2>4 DEF U, V, W, Signals, SignalIds
<1> QED
  BY <1>1, <1>3, <1>4

LEMMA AddressesAre ==
  ASSUME NEW a, ~bidib_state_dcc_addr_in_use(a)
  PROVE  a \notin Range(Field(Parts(Dcc), "dcc-address")) /\ a \notin Range(Field(trains, "addr"))
<1>1. a \notin Range(Field(trains, "addr"))
  BY DEF bidib_state_dcc_addr_in_use, Range, Field
<1>2. ASSUME a \in Range(Field(Parts(Dcc), "dcc-address")) PROVE FALSE
  <2>1. PICK b \in DOMAIN boards, s \in Dcc :
          \E i \in DOMAIN boards[b].parts[s] : a = boards[b].parts[s][i]["dcc-address"]
    BY <1>2, PartsRange
  <2>2. PICK i \in DOMAIN boards[b].parts[s] : a = boards[b].parts[s][i]["dcc-address"]
    BY <2>1
  <2>3. boards[b] \in Range(boards) /\ boards[b].parts[s][i] \in Range(boards[b].parts[s])
    BY DEF Range
  <2>4. boards[b].parts[s][i] \in Range(boards[b].parts["points-dcc"]) \cup Range(boards[b].parts["signals-dcc"])
    BY <2>3 DEF Dcc
  <2> QED
    BY <2>2, <2>3, <2>4 DEF bidib_state_dcc_addr_in_use
<1> QED
  BY <1>1, <1>2

(* What a board numbers, and a new element of its section s.                *)
Clashes(old, s, m) ==
  \E o \in Range(old) :
    \/ s \in {"points-board", "signals-board", "peripherals"} /\ o["number"] = m["number"]
    \/ s = "peripherals" /\ o["port"] = m["port"]
    \/ s = "segments" /\ o["address"] = m["address"]
    \/ s = "reversers" /\ o["cv"] = m["cv"]

LEMMA LookupsMore ==
  ASSUME NEW b, NEW c, NEW s \in Range(Sections), NEW m, BoardLookupsUnique(b), IsSeq(b.parts[s]),
         ~Clashes(b.parts[s], s, m), c.parts[s] = Append(b.parts[s], m),
         \A t \in Range(Sections) \ {s} : c.parts[t] = b.parts[t]
  PROVE  BoardLookupsUnique(c)
<1>1. ASSUME NEW k, Once(b.parts[s], k), \A o \in Range(b.parts[s]) : o[k] # m[k]
      PROVE  Once(c.parts[s], k)
  <2>1. m[k] \notin Range(Field(b.parts[s], k))
    BY <1>1, NotThere
  <2> QED
    BY <1>1, <2>1, OnceAppend
<1>2. ASSUME NEW t \in Range(Sections), NEW k, Once(b.parts[t], k),
             t = s => \A o \in Range(b.parts[s]) : o[k] # m[k]
      PROVE  Once(c.parts[t], k)
  BY <1>1, <1>2
<1>3. Range(Sections) = {"points-board", "points-dcc", "signals-board", "signals-dcc",
                         "peripherals", "segments", "reversers"}
  BY SectionsAre
<1>4. Once(c.parts["points-board"], "number") /\ Once(c.parts["signals-board"], "number")
  BY <1>2, <1>3 DEF BoardLookupsUnique, Clashes
<1>5. Once(c.parts["peripherals"], "number") /\ Once(c.parts["peripherals"], "port")
  BY <1>2, <1>3 DEF BoardLookupsUnique, Clashes
<1>6. Once(c.parts["segments"], "address") /\ Once(c.parts["reversers"], "cv")
  BY <1>2, <1>3 DEF BoardLookupsUnique, Clashes
<1> QED
  BY <1>4, <1>5, <1>6 DEF BoardLookupsUnique

LEMMA UniqueElement ==
  ASSUME Built, NEW B \in 1..Len(boards), NEW CONSTANT s, s \in Range(Sections), NEW m,
         boards' = WithPart(B, s, m), trains' = trains,
         ~Exists(s, m["id"]), s \in Dcc => ~bidib_state_dcc_addr_in_use(m["dcc-address"]),
         ~Clashes(boards[B].parts[s], s, m)
  PROVE  Unique'
<1>1. TablesOK /\ Unique /\ ElementsLinked
  BY DEF Built, Linked
<1>2. /\ Len(boards') = Len(boards) /\ DOMAIN boards' = DOMAIN boards
      /\ \A b \in 1..Len(boards) : boards'[b].id = boards[b].id /\ boards'[b].uid = boards[b].uid
      /\ \A b \in 1..Len(boards), t \in Range(Sections) :
           b # B \/ t # s => boards'[b].parts[t] = boards[b].parts[t]
      /\ boards'[B].parts[s] = Append(boards[B].parts[s], m)
  BY <1>1, WithPartKeeps
<1>3. DOMAIN boards = 1..Len(boards)
  BY <1>1, RangeIs DEF TablesOK
<1>4. Once(boards', "id") /\ Once(boards', "uid")
  <2>1. Field(boards', "id") = Field(boards, "id")
    BY <1>2, <1>3, FieldSame
  <2>2. Field(boards', "uid") = Field(boards, "uid")
    BY <1>2, <1>3, FieldSame
  <2> QED
    BY <1>1, <2>1, <2>2 DEF Unique, Once
<1>5. s \in {"points-board", "points-dcc", "signals-board", "signals-dcc",
             "peripherals", "segments", "reversers"}
      /\ Points \subseteq Range(Sections) /\ Signals \subseteq Range(Sections) /\ Dcc \subseteq Range(Sections)
  BY SectionsAre DEF Points, Signals, Dcc
<1>6. /\ s \in Points => m["id"] \notin Range(Field(Parts(Points), "id"))
      /\ s \in Signals => m["id"] \notin Range(Field(Parts(Signals), "id"))
      /\ s \notin Points \cup Signals => m["id"] \notin Range(Field(Parts({s}), "id"))
  BY <1>1, <1>5, IdsAre DEF Exists, Points, Signals
<1>7. ASSUME NEW CONSTANT S, S \subseteq Range(Sections), NEW CONSTANT k, Once(Parts(S), k),
             s \in S => m[k] \notin Range(Field(Parts(S), k))
      PROVE  Once(Parts(S)', k)
  <2>1. /\ s \notin S => Parts(S)' = Parts(S)
        /\ s \in S => (Once(Parts(S), k) /\ m[k] \notin Range(Field(Parts(S), k)) => Once(Parts(S)', k))
    BY <1>1, <1>7, PartsMore
  <2>2. CASE s \in S
    BY <1>7, <2>1, <2>2
  <2>3. CASE s \notin S
    BY <1>7, <2>1, <2>3
  <2> QED
    BY <2>2, <2>3
<1>8. Once(Parts(Points)', "id") /\ Once(Parts(Signals)', "id")
  BY <1>1, <1>5, <1>6, <1>7 DEF Unique
<1>9. ASSUME NEW CONSTANT t, t \in {"peripherals", "segments", "reversers"} PROVE Once(Parts({t})', "id")
  <2>1. {t} \subseteq Range(Sections) /\ t \notin Points \cup Signals /\ Once(Parts({t}), "id")
    BY <1>1, <1>9, SectionsAre DEF Points, Signals, Unique
  <2>2. s \in {t} => m["id"] \notin Range(Field(Parts({t}), "id"))
    BY <1>6, <2>1
  <2> QED
    BY <1>7, <2>1, <2>2
<1>10. s \in Dcc => /\ m["dcc-address"] \notin Range(Field(Parts(Dcc), "dcc-address"))
                    /\ m["dcc-address"] \notin Range(Field(trains, "addr"))
  BY AddressesAre
<1>11. Once(Parts(Dcc)', "dcc-address")
  BY <1>1, <1>5, <1>7, <1>10 DEF Unique
<1>12. Range(Field(Parts(Dcc)', "dcc-address")) \cap Range(Field(trains, "addr")) = {}
  <2>1. Range(Field(Parts(Dcc), "dcc-address")) \cap Range(Field(trains, "addr")) = {}
    BY <1>1 DEF Unique
  <2>2. /\ s \notin Dcc => Parts(Dcc)' = Parts(Dcc)
        /\ s \in Dcc => Range(Field(Parts(Dcc)', "dcc-address")) =
                          Range(Field(Parts(Dcc), "dcc-address")) \cup {m["dcc-address"]}
    BY <1>1, <1>5, PartsMore
  <2> QED
    BY <1>10, <2>1, <2>2
<1>13. ASSUME NEW b \in 1..Len(boards) PROVE BoardLookupsUnique(boards'[b])
  <2>1. BoardLookupsUnique(boards[b])
    BY <1>1, <1>3 DEF Unique, Range
  <2>2. CASE b = B
    <3>1. IsSeq(boards[b].parts[s])
      BY <1>1 DEF TablesOK
    <3>2. \A t \in Range(Sections) \ {s} : boards'[b].parts[t] = boards[b].parts[t]
      BY <1>2
    <3> QED
      BY <1>2, <2>1, <2>2, <3>1, <3>2, LookupsMore
  <2>3. CASE b # B
    <3>1. \A t \in Range(Sections) : boards'[b].parts[t] = boards[b].parts[t]
      BY <1>2, <2>3
    <3> QED
      BY <2>1, <3>1, SectionsAre DEF BoardLookupsUnique
  <2> QED
    BY <2>2, <2>3
<1>14. \A b \in Range(boards') : BoardLookupsUnique(b)
  BY <1>2, <1>3, <1>13 DEF Range
<1>15. Once(trains', "id") /\ Once(trains', "addr")
  BY <1>1 DEF Unique
<1> QED
  BY <1>4, <1>8, <1>9, <1>11, <1>12, <1>14, <1>15 DEF Unique

(* The element has its state.                                               *)
LEMMA LinkedElement ==
  ASSUME Built, NEW B \in 1..Len(boards), NEW CONSTANT s, s \in Range(Sections), NEW CONSTANT m,
         boards' = WithPart(B, s, m), trains' = trains, initial_values' = initial_values,
         track_state' = StateWith(s, m["id"]),
         Complete(m), PendingBoosters' = PendingBoosters
  PROVE  /\ TablesOK' /\ ElementsLinked' /\ BoostersLinked'
         /\ Range(track_state'[s]) = Range(track_state[s]) \cup {m["id"]}
         /\ \A k \in StateKinds : k # s => track_state'[k] = track_state[k]
<1>1. TablesOK /\ ElementsLinked /\ BoostersLinked
  BY DEF Built, Linked
<1>2. /\ Len(boards') = Len(boards) /\ DOMAIN boards' = DOMAIN boards
      /\ \A b \in 1..Len(boards) : boards'[b].id = boards[b].id /\ boards'[b].uid = boards[b].uid
      /\ \A b \in 1..Len(boards), t \in Range(Sections) :
           b # B \/ t # s => boards'[b].parts[t] = boards[b].parts[t]
      /\ boards'[B].parts[s] = Append(boards[B].parts[s], m)
  BY <1>1, WithPartKeeps
<1>3. DOMAIN boards = 1..Len(boards)
  BY <1>1, RangeIs DEF TablesOK
<1>4. s \in StateKinds /\ s \notin {"boosters", "trains"}
  BY SectionsAre
<1>5. /\ track_state' = [j \in StateKinds |-> track_state'[j]]
      /\ \A j \in StateKinds : IsSeq(track_state'[j])
      /\ Range(track_state'[s]) = Range(track_state[s]) \cup {m["id"]}
      /\ \A j \in StateKinds \ {s} : track_state'[j] = track_state[j]
  BY <1>1, <1>4, StateIs
<1>6. TablesOK'
  <2>1. ASSUME NEW b \in 1..Len(boards')
        PROVE  /\ boards'[b] = [id |-> boards'[b].id, uid |-> boards'[b].uid,
                                secack_on |-> boards'[b].secack_on, features |-> boards'[b].features,
                                parts |-> boards'[b].parts]
               /\ boards'[b].parts = [t \in Range(Sections) |-> boards'[b].parts[t]]
               /\ \A t \in Range(Sections) : IsSeq(boards'[b].parts[t])
    <3>1. b \in 1..Len(boards)
      BY <1>2
    <3>2. /\ boards'[b] = [id |-> boards[b].id, uid |-> boards[b].uid,
                           secack_on |-> boards[b].secack_on, features |-> boards[b].features,
                           parts |-> boards'[b].parts]
          /\ boards'[b].parts = [t \in Range(Sections) |-> boards'[b].parts[t]]
      BY <1>1, <3>1, WithPartIs
    <3>3. boards'[b] = [id |-> boards'[b].id, uid |-> boards'[b].uid,
                        secack_on |-> boards'[b].secack_on, features |-> boards'[b].features,
                        parts |-> boards'[b].parts]
      BY <3>2
    <3>4. ASSUME NEW t \in Range(Sections) PROVE IsSeq(boards'[b].parts[t])
      <4>1. IsSeq(boards[b].parts[t])
        BY <1>1, <3>1 DEF TablesOK
      <4>2. CASE b = B /\ t = s
        <5>1. IsSeq(Append(boards[b].parts[t], m))
          BY <4>1, AppendIs
        <5> QED
          BY <1>2, <4>2, <5>1
      <4>3. CASE b # B \/ t # s
        BY <1>2, <3>1, <4>1, <4>3
      <4> QED
        BY <4>2, <4>3
    <3> QED
      BY <3>2, <3>3, <3>4
  <2>2. IsSeq(boards')
    BY <1>1, WithPartIs
  <2>3. IsSeq(trains') /\ IsSeq(initial_values')
    BY <1>1 DEF TablesOK
  <2> QED
    BY <1>5, <2>1, <2>2, <2>3 DEF TablesOK
<1>7. ASSUME NEW CONSTANT t, t \in Range(Sections)
      PROVE  Range(Field(Parts({t})', "id")) = Range(track_state'[t])
  <2>1. Range(Field(Parts({t}), "id")) = Range(track_state[t]) /\ {t} \subseteq Range(Sections)
    BY <1>1, <1>7 DEF ElementsLinked
  <2>2. CASE t = s
    <3>1. Range(Field(Parts({t})', "id")) = Range(Field(Parts({t}), "id")) \cup {m["id"]}
      BY <1>1, <2>1, <2>2, PartsMore
    <3> QED
      BY <1>5, <2>1, <2>2, <3>1
  <2>3. CASE t # s
    <3>1. Parts({t})' = Parts({t})
      BY <1>1, <2>1, <2>3, PartsMore
    <3>2. t \in StateKinds \ {s}
      BY <1>7, <2>3, SectionsAre
    <3> QED
      BY <1>5, <2>1, <3>1, <3>2
  <2> QED
    BY <2>2, <2>3
<1>8. \A x \in Range(Parts(Range(Sections))') : Complete(x)
  <2>1. Range(Parts(Range(Sections))') = Range(Parts(Range(Sections))) \cup {m}
    BY <1>1, PartsMore
  <2> QED
    BY <1>1, <2>1 DEF ElementsLinked
<1>9. ElementsLinked'
  <2>1. "trains" \in StateKinds \ {s}
    BY <1>4, SectionsAre
  <2>2. Range(Field(trains', "id")) = Range(track_state'["trains"])
    BY <1>1, <1>5, <2>1 DEF ElementsLinked
  <2>3. \A t \in Range(trains') : t.id # NULL /\ t.addr # NULL /\ Once(t.peripherals, "bit")
    BY <1>1 DEF ElementsLinked
  <2> QED
    BY <1>7, <1>8, <2>2, <2>3 DEF ElementsLinked
<1>10. BoosterIds' = BoosterIds
  <2>1. \A b \in DOMAIN boards : boards'[b].id = boards[b].id /\ boards'[b].uid = boards[b].uid
    BY <1>2, <1>3
  <2>2. BoosterIds = {boards[b].id : b \in {c \in DOMAIN boards : boards[c].uid \in BoosterUids}}
    BY DEF BoosterIds, Range
  <2>3. BoosterIds' = {boards'[b].id : b \in {c \in DOMAIN boards' : boards'[c].uid \in BoosterUids}}
    BY DEF BoosterIds, Range
  <2>4. {c \in DOMAIN boards' : boards'[c].uid \in BoosterUids} = {c \in DOMAIN boards : boards[c].uid \in BoosterUids}
    BY <1>2, <2>1
  <2> QED
    BY <1>2, <2>1, <2>2, <2>3, <2>4
<1>11. BoostersLinked'
  <2>1. "boosters" \in StateKinds \ {s}
    BY <1>4, SectionsAre
  <2> QED
    BY <1>1, <1>5, <1>10, <2>1 DEF BoostersLinked
<1> QED
  BY <1>5, <1>6, <1>9, <1>11

(* An element of a section has been read to its end, and nothing like it is *)
(* there.                                                                   *)
LEMMA ElementLeft ==
  ASSUME StackOK, DocOK, Sound, Top.res = "done",
         Top.p \in {"accessory", "dcc_accessory", "peripheral", "segment", "reverser"},
         NEW CONSTANT s, s = SectionOf(Caller), boards' = WithMapping(s), track_state' = WithState(s),
         trains' = trains, initial_values' = initial_values, Return(FALSE, Caller), Leaving,
         ~Exists(s, Top.e.id), s \in Dcc => ~bidib_state_dcc_addr_in_use(Top.e["dcc-address"]),
         ~Clashes(boards[Board].parts[s], s, Top.e)
  PROVE  StackOK' /\ DocOK' /\ Sound'
<1>1. Nesting /\ Alternating /\ Built /\ TablesOK /\ InitialLinked
  BY DEF Sound, Built, Linked
<1>2. /\ Len(stack) = 3 /\ Caller.p = "setup" /\ s \in Range(Sections) /\ Caller.e \in 1..Len(boards)
      /\ Top.p # "section" /\ Top.p # "board" /\ Top.p # "train" /\ Len(stack) > 1
  <2>1. Top.p # "section" /\ Top.p # "board" /\ Top.p # "train"
    OBVIOUS
  <2>2. /\ Len(stack) = 3 /\ Caller.p = "setup" /\ SectionOf(Caller) \in Range(Sections)
        /\ Caller.e \in 1..Len(boards)
    BY <1>1, <2>1, CallerIs
  <2> QED
    BY <2>1, <2>2
<1>3. IsFrame(Caller) /\ Caller.res = "run" /\ FrameOK(Caller)
  BY <1>1, <1>2, TopIs, TopOK
<1>4. Back /\ StackOK' /\ DocOK' /\ Top' = Caller
  BY <1>2, <1>3, ReturnIs
<1>5. Resumes
  BY <1>3, <1>4 DEF Resumes
<1>6. Top.p \in DOMAIN Elements /\ Complete(Top.e)
  <2>1. Top.p \in DOMAIN Elements
    BY ElementsAre DEF ElementNames
  <2> QED
    BY <1>1, <2>1, DoneIs
<1>7. PICK B \in 1..Len(boards) : B = Caller.e
  BY <1>2
<1>8. PICK m : m = Top.e
  OBVIOUS
<1>9. boards' = WithPart(B, s, m) /\ track_state' = StateWith(s, m["id"])
  BY <1>7, <1>8 DEF WithMapping, WithState, Board, WithPart, StateWith
<1>10. PendingBoosters' = PendingBoosters
  BY <1>1, <1>2, <1>5, BoostersBack DEF Resumes
<1>11. /\ ~Exists(s, m["id"]) /\ (s \in Dcc => ~bidib_state_dcc_addr_in_use(m["dcc-address"]))
       /\ ~Clashes(boards[B].parts[s], s, m) /\ Complete(m)
  BY <1>6, <1>7, <1>8 DEF Board
<1>12. Unique'
  BY <1>1, <1>2, <1>9, <1>11, UniqueElement
<1>13. /\ TablesOK' /\ ElementsLinked' /\ BoostersLinked'
       /\ Range(track_state'[s]) = Range(track_state[s]) \cup {m["id"]}
       /\ \A k \in StateKinds : k # s => track_state'[k] = track_state[k]
  BY <1>1, <1>2, <1>9, <1>10, <1>11, LinkedElement
<1>14. Len(boards) \in Nat /\ Len(boards') = Len(boards)
  <2>1. Len(boards') = Len(boards)
    BY <1>1, <1>2, <1>9, WithPartKeeps
  <2> QED
    BY <1>1, <2>1, RangeIs DEF TablesOK
<1>15. \A v : PendingInitial(v) => PendingInitial(v)' \/ (v.of = s /\ v.id = m["id"])
  <2>1. ASSUME NEW CONSTANT v, PendingInitial(v)
        PROVE  PendingInitial(v)' \/ (v.of = s /\ v.id = m["id"])
    BY <1>1, <1>2, <1>5, <1>8, <2>1, InitialBack
  <2> QED
    BY <2>1
<1>16. \A k \in StateKinds : Range(track_state[k]) \subseteq Range(track_state'[k])
  BY <1>13
<1>17. Range(Sections) \subseteq StateKinds /\ "trains" \in StateKinds
  BY SectionsAre
<1>18. InitialLinked'
  BY <1>1, <1>2, <1>13, <1>15, <1>16, <1>17 DEF InitialLinked
<1>19. Nesting' /\ Alternating'
  <2>1. file' = file /\ doc' = doc
    BY DEF Leaving
  <2>2. Nesting'
    BY <1>1, <1>2, <1>5, <1>14, <2>1, BackNesting
  <2>3. Alternating'
    BY <1>1, <1>2, <1>5, <2>1, BackAlternates
  <2> QED
    BY <2>2, <2>3
<1> QED
  BY <1>4, <1>12, <1>13, <1>18, <1>19 DEF Sound, Built, Linked

LEMMA AddElementOK ==
  ASSUME StackOK, DocOK, Going => Sound, NEW p \in {"accessory", "peripheral", "segment", "reverser"},
         Ended(p), NEW CONSTANT s, NEW CONSTANT clash \in BOOLEAN, AddElement(s, clash), Leaving,
         Sound => s = SectionOf(Caller) /\ s \notin Dcc /\ (Clashes(boards[Board].parts[s], s, Top.e) => clash)
  PROVE  LeftOK
<1> DEFINE failed == Top.res = "error" \/ clash \/ Exists(s, Top.e.id)
<1>1. /\ status = "parsing" /\ Top.p = p /\ Top.res \in {"done", "error"}
      /\ Len(stack) > 1 /\ IsFrame(Caller) /\ Caller.res = "run"
  BY EndedIs
<1>2. /\ boards' = WithMapping(s) /\ (~failed => track_state' = WithState(s)) /\ Return(failed, Caller)
      /\ trains' = trains /\ initial_values' = initial_values /\ status' = status
  BY DEF AddElement
<1>3. CASE failed
  <2>1. Return(TRUE, Caller)
    BY <1>2, <1>3 DEF Return
  <2>2. StackOK' /\ DocOK' /\ ~Going'
    BY <1>1, <2>1, ReturnIs
  <2> QED
    BY <1>1, <1>2, <2>2 DEF LeftOK
<1>4. CASE ~failed
  <2>1. Return(FALSE, Caller)
    BY <1>2, <1>4 DEF Return
  <2>2. Top.res = "done" /\ Sound /\ ~Exists(s, Top.e.id) /\ ~clash
    BY <1>1, <1>4 DEF Going
  <2>3. StackOK' /\ DocOK' /\ Sound'
    BY <1>1, <1>2, <1>4, <2>1, <2>2, ElementLeft
  <2> QED
    BY <1>1, <1>2, <2>3 DEF LeftOK
<1> QED
  BY <1>3, <1>4

(* Where the parser of an element of a section has been called.             *)
LEMMA SectionLeft ==
  ASSUME StackOK, Sound,
         Top.p \in {"accessory", "dcc_accessory", "peripheral", "segment", "reverser"}
  PROVE  /\ SectionOf(Caller) \in Range(Sections)
         /\ Top.p = "accessory" => SectionOf(Caller) \in {"points-board", "signals-board"}
         /\ Top.p = "dcc_accessory" => SectionOf(Caller) \in Dcc
         /\ Top.p = "peripheral" => SectionOf(Caller) = "peripherals"
         /\ Top.p = "segment" => SectionOf(Caller) = "segments"
         /\ Top.p = "reverser" => SectionOf(Caller) = "reversers"
<1>1. Nesting /\ Top.p # "section"
  BY DEF Sound
<1>2. SectionOf(Caller) \in Range(Sections) /\ SectionParser(SectionOf(Caller)) = Top.p
  BY <1>1, CallerIs
<1> QED
  BY <1>2, SectionParserIs DEF Dcc

(* Without an error an element has its id.                                  *)
LEMMA CrashLeft ==
  ASSUME StackOK, DocOK, Going => Sound, NEW p \in ElementNames \ {"port"}, Ended(p), Crash,
         Top.res = "done" => \E k \in {"id", "cv", "length"} : k \in Range(Keys(p)) /\ Top.e[k] = NULL
  PROVE  LeftOK
<1>1. status = "parsing" /\ Top.p = p /\ Top.res \in {"done", "error"}
  BY EndedIs
<1>2. Top.res = "error"
  <2> SUFFICES ASSUME Top.res = "done" PROVE FALSE
    BY <1>1
  <2>1. Nesting /\ Top.p \in DOMAIN Elements
    BY <1>1, ElementsAre DEF Going, Sound
  <2>2. \A k \in Range(Keys(p)) \ ({"initial"} \cup Lists) : Top.e[k] # NULL
    BY <1>1, <2>1, DoneIs
  <2> QED
    BY <2>2 DEF Lists
<1> QED
  BY <1>2 DEF LeftOK, Crash

LEMMA LeaveAccessoryOK ==
  ASSUME StackOK, DocOK, Going => Sound, LeaveAccessory
  PROVE  LeftOK
<1>1. PICK s : s = SectionOf(Caller)
  OBVIOUS
<1>2. PICK clash \in BOOLEAN : clash <=> \E m \in Mappings(s) : m.number = Top.e.number
  OBVIOUS
<1>3. Ended("accessory") /\ Leaving /\ IF clash /\ Top.e.id = NULL THEN Crash ELSE AddElement(s, clash)
  BY <1>1, <1>2 DEF LeaveAccessory, AddElement, Return
<1>4. CASE clash /\ Top.e.id = NULL
  <2>1. "accessory" \in ElementNames \ {"port"} /\ "id" \in Range(Keys("accessory"))
    BY ElementsAre, TuplesAre DEF ElementNames
  <2> QED
    BY <1>3, <1>4, <2>1, CrashLeft
<1>5. CASE ~(clash /\ Top.e.id = NULL)
  <2>1. Sound => s = SectionOf(Caller) /\ s \in {"points-board", "signals-board"}
    BY <1>1, <1>3, SectionLeft, EndedIs
  <2>2. Sound => s \notin Dcc /\ (Clashes(boards[Board].parts[s], s, Top.e) => clash)
    BY <1>2, <2>1 DEF Dcc, Clashes, Mappings
  <2> QED
    BY <1>3, <1>5, <2>1, <2>2, AddElementOK
<1> QED
  BY <1>4, <1>5

LEMMA LeavePeripheralOK ==
  ASSUME StackOK, DocOK, Going => Sound, LeavePeripheral
  PROVE  LeftOK
<1> DEFINE s == "peripherals"
<1>2. PICK clash \in BOOLEAN :
        clash <=> \E m \in Mappings(s) : m.port = Top.e.port \/ m.number = Top.e.number
  OBVIOUS
<1>3. Ended("peripheral") /\ Leaving /\ IF clash /\ Top.e.id = NULL THEN Crash ELSE AddElement(s, clash)
  BY <1>2 DEF LeavePeripheral, AddElement, Return
<1>4. CASE clash /\ Top.e.id = NULL
  <2>1. "peripheral" \in ElementNames \ {"port"} /\ "id" \in Range(Keys("peripheral"))
    BY ElementsAre, TuplesAre DEF ElementNames
  <2> QED
    BY <1>3, <1>4, <2>1, CrashLeft
<1>5. CASE ~(clash /\ Top.e.id = NULL)
  <2>1. Sound => s = SectionOf(Caller)
    BY <1>3, SectionLeft, EndedIs
  <2>2. Sound => s \notin Dcc /\ (Clashes(boards[Board].parts[s], s, Top.e) => clash)
    BY <1>2 DEF Dcc, Clashes, Mappings
  <2> QED
    BY <1>3, <1>5, <2>1, <2>2, AddElementOK
<1> QED
  BY <1>4, <1>5

LEMMA LeaveSegmentOK ==
  ASSUME StackOK, DocOK, Going => Sound, LeaveSegment
  PROVE  LeftOK
<1> DEFINE s == "segments"
<1>2. PICK clash \in BOOLEAN : clash <=> \E m \in Mappings(s) : m.address = Top.e.address
  OBVIOUS
<1>3. /\ Ended("segment") /\ Leaving
      /\ \/ AddElement(s, clash)
         \/ ((clash /\ Top.e.id = NULL) \/ (Top.res = "error" /\ Top.e.length = NULL)) /\ Crash
  BY <1>2 DEF LeaveSegment, AddElement, Return
<1>4. CASE ((clash /\ Top.e.id = NULL) \/ (Top.res = "error" /\ Top.e.length = NULL)) /\ Crash
  <2>1. "segment" \in ElementNames \ {"port"} /\ "id" \in Range(Keys("segment"))
    BY ElementsAre, TuplesAre DEF ElementNames
  <2> QED
    BY <1>3, <1>4, <2>1, CrashLeft
<1>5. CASE AddElement(s, clash)
  <2>1. Sound => s = SectionOf(Caller)
    BY <1>3, SectionLeft, EndedIs
  <2>2. Sound => s \notin Dcc /\ (Clashes(boards[Board].parts[s], s, Top.e) => clash)
    BY <1>2 DEF Dcc, Clashes, Mappings
  <2> QED
    BY <1>3, <1>5, <2>1, <2>2, AddElementOK
<1> QED
  BY <1>3, <1>4, <1>5

LEMMA LeaveReverserOK ==
  ASSUME StackOK, DocOK, Going => Sound, LeaveReverser
  PROVE  LeftOK
<1> DEFINE s == "reversers"
<1>2. PICK clash \in BOOLEAN : clash <=> \E m \in Mappings(s) : m.cv = Top.e.cv
  OBVIOUS
<1>3. /\ Ended("reverser") /\ Leaving
      /\ AddElement(s, clash) \/ (Top.e.cv = NULL /\ Crash)
  BY <1>2 DEF LeaveReverser, AddElement, Return
<1>4. CASE Top.e.cv = NULL /\ Crash
  <2>1. "reverser" \in ElementNames \ {"port"} /\ "cv" \in Range(Keys("reverser"))
    BY ElementsAre, TuplesAre DEF ElementNames
  <2> QED
    BY <1>3, <1>4, <2>1, CrashLeft
<1>5. CASE AddElement(s, clash)
  <2>1. Sound => s = SectionOf(Caller)
    BY <1>3, SectionLeft, EndedIs
  <2>2. Sound => s \notin Dcc /\ (Clashes(boards[Board].parts[s], s, Top.e) => clash)
    BY <1>2 DEF Dcc, Clashes, Mappings
  <2> QED
    BY <1>3, <1>5, <2>1, <2>2, AddElementOK
<1> QED
  BY <1>3, <1>4, <1>5

(* A point or a signal of DCC is compared with those of all boards.         *)
LEMMA LeaveDccAccessoryOK ==
  ASSUME StackOK, DocOK, Going => Sound, LeaveDccAccessory
  PROVE  LeftOK
<1>1. PICK s : s = SectionOf(Caller)
  OBVIOUS
<1> DEFINE refused == Top.res = "done" /\ DccRefused(s, Top.e["dcc-address"])
           failed == Top.res = "error" \/ refused
<1>2. /\ Ended("dcc_accessory") /\ Leaving /\ boards' = WithMapping(s) /\ (~failed => track_state' = WithState(s))
      /\ Return(failed, Caller) /\ trains' = trains /\ initial_values' = initial_values /\ status' = status
  BY <1>1 DEF LeaveDccAccessory
<1>3. /\ status = "parsing" /\ Top.p = "dcc_accessory" /\ Top.res \in {"done", "error"}
      /\ Len(stack) > 1 /\ IsFrame(Caller) /\ Caller.res = "run"
  BY <1>2, EndedIs
<1>4. CASE failed
  <2>1. Return(TRUE, Caller)
    BY <1>2, <1>4 DEF Return
  <2>2. StackOK' /\ DocOK' /\ ~Going'
    BY <1>2, <1>3, <2>1, ReturnIs
  <2> QED
    BY <1>2, <1>3, <2>2 DEF LeftOK
<1>5. CASE ~failed
  <2>1. Return(FALSE, Caller)
    BY <1>2, <1>5 DEF Return
  <2>2. Top.res = "done" /\ Sound /\ ~DccRefused(s, Top.e["dcc-address"])
    BY <1>3, <1>5 DEF Going
  <2>3. ~Exists(s, Top.e.id) /\ ~bidib_state_dcc_addr_in_use(Top.e["dcc-address"])
    BY <2>2 DEF DccRefused
  <2>4. s \in Dcc
    BY <1>1, <1>3, <2>2, SectionLeft
  <2>5. ~Clashes(boards[Board].parts[s], s, Top.e)
    BY <2>4 DEF Clashes, Dcc
  <2>6. StackOK' /\ DocOK' /\ Sound'
    BY <1>1, <1>2, <1>3, <1>5, <2>1, <2>2, <2>3, <2>5, ElementLeft
  <2> QED
    BY <1>2, <1>3, <2>6 DEF LeftOK
<1> QED
  BY <1>4, <1>5

----------------------------------------------------------------------------
(* The parsers of boards, trains and files.                                 *)

LEMMA SpotsMore ==
  ASSUME TablesOK, NEW b, boards' = Append(boards, b), \A s \in Range(Sections) : b.parts[s] = << >>,
         NEW CONSTANT S, S \subseteq Range(Sections)
  PROVE  Parts(S)' = Parts(S)
<1>1. /\ Len(boards) \in Nat /\ DOMAIN boards = 1..Len(boards) /\ DOMAIN boards' = 1..(Len(boards) + 1)
      /\ boards'[Len(boards) + 1] = b /\ \A i \in 1..Len(boards) : boards'[i] = boards[i]
  <2>1. IsSeq(boards)
    BY DEF TablesOK
  <2>2. IsSeq(boards') /\ Len(boards') = Len(boards) + 1 /\ boards'[Len(boards) + 1] = b
        /\ \A i \in 1..Len(boards) : boards'[i] = boards[i]
    BY <2>1, AppendIs
  <2> QED
    BY <2>1, <2>2, RangeIs
<1>2. Places(S)' = Places(S)
  <2>1. Places(S)' = Spots(boards', S) /\ Places(S) = Spots(boards, S)
    BY PlacesLater, PlacesAre
  <2>2. PICK d : d = boards'
    OBVIOUS
  <2> DEFINE U == Spots(d, S)
             V == Spots(boards, S)
  <2>3. ASSUME NEW x \in U PROVE x \in V
    <3>1. PICK c \in DOMAIN d, s \in S : \E i \in DOMAIN d[c].parts[s] : x = <<c, s, i>>
      BY <2>3, SpotsAre
    <3>2. PICK i \in DOMAIN d[c].parts[s] : x = <<c, s, i>>
      BY <3>1
    <3>3. c # Len(boards) + 1
      BY <1>1, <2>2, <3>2
    <3>4. c \in DOMAIN boards /\ d[c] = boards[c]
      BY <1>1, <2>2, <3>3
    <3> QED
      BY <3>2, <3>4, SpotsAre
  <2>4. ASSUME NEW x \in V PROVE x \in U
    <3>1. PICK c \in DOMAIN boards, s \in S : \E i \in DOMAIN boards[c].parts[s] : x = <<c, s, i>>
      BY <2>4, SpotsAre
    <3>2. PICK i \in DOMAIN boards[c].parts[s] : x = <<c, s, i>>
      BY <3>1
    <3>3. c \in DOMAIN d /\ d[c] = boards[c]
      BY <1>1, <2>2
    <3> QED
      BY <3>2, <3>3, SpotsAre
  <2> HIDE DEF U, V
  <2>5. U = V
    BY <2>3, <2>4
  <2> QED
    BY <2>1, <2>2, <2>5 DEF U, V
<1>3. \A x \in Places(S) : boards'[x[1]] = boards[x[1]]
  <2>1. ASSUME NEW x \in Places(S) PROVE boards'[x[1]] = boards[x[1]]
    <3>1. PICK c \in DOMAIN boards, s \in S : \E i \in DOMAIN boards[c].parts[s] : x = <<c, s, i>>
      BY <2>1, SpotsAre, PlacesAre
    <3>2. x[1] = c
      BY <3>1
    <3> QED
      BY <1>1, <3>2
  <2> QED
    BY <2>1
<1> QED
  BY <1>2, <1>3 DEF Parts

LEMMA EmptyIs ==
  /\ IsSeq(<< >>) /\ Len(<< >>) = 0
  /\ \A k : Once(<< >>, k)
<1>1. << >> \in Seq({}) /\ Len(<< >>) = 0 /\ DOMAIN << >> = {} /\ Range(<< >>) = {}
  BY DEF Range
<1>2. ASSUME NEW k PROVE Once(<< >>, k)
  <2>1. DOMAIN Field(<< >>, k) = {}
    BY <1>1 DEF Field
  <2> QED
    BY <2>1 DEF Once, IsInjective
<1> QED
  BY <1>1, <1>2 DEF IsSeq

(* A board without elements that none has been before.                      *)
LEMMA UniqueBoard ==
  ASSUME Built, NEW b, boards' = Append(boards, b), trains' = trains,
         b.parts = [s \in Range(Sections) |-> << >>],
         \A o \in Range(boards) : o.id # b.id /\ o.uid # b.uid
  PROVE  Unique'
<1>1. TablesOK /\ Unique /\ IsSeq(boards)
  BY DEF Built, TablesOK
<1>2. \A s \in Range(Sections) : b.parts[s] = << >>
  OBVIOUS
<1>3. Once(boards', "id") /\ Once(boards', "uid")
  <2>1. b["id"] \notin Range(Field(boards, "id")) /\ b["uid"] \notin Range(Field(boards, "uid"))
    BY NotThere
  <2> QED
    BY <1>1, <2>1, OnceAppend DEF Unique
<1>4. \A S \in SUBSET Range(Sections) : Parts(S)' = Parts(S)
  <2>1. ASSUME NEW CONSTANT S, S \subseteq Range(Sections) PROVE Parts(S)' = Parts(S)
    BY <1>1, <1>2, <2>1, SpotsMore
  <2> QED
    BY <2>1
<1>5. /\ Points \in SUBSET Range(Sections) /\ Signals \in SUBSET Range(Sections)
      /\ Dcc \in SUBSET Range(Sections)
      /\ \A s \in {"peripherals", "segments", "reversers"} : {s} \in SUBSET Range(Sections)
  BY SectionsAre DEF Points, Signals, Dcc
<1>6. Parts(Points)' = Parts(Points) /\ Parts(Signals)' = Parts(Signals) /\ Parts(Dcc)' = Parts(Dcc)
      /\ \A s \in {"peripherals", "segments", "reversers"} : Parts({s})' = Parts({s})
  BY <1>4, <1>5
<1>7. BoardLookupsUnique(b)
  BY <1>2, EmptyIs, SectionsAre DEF BoardLookupsUnique
<1>8. \A o \in Range(boards') : BoardLookupsUnique(o)
  <2>1. Range(boards') = Range(boards) \cup {b}
    BY <1>1, AppendIs
  <2> QED
    BY <1>1, <1>7, <2>1 DEF Unique
<1> QED
  BY <1>1, <1>3, <1>6, <1>8 DEF Unique

LEMMA LinkedBoard ==
  ASSUME Built, NEW b, boards' = Append(boards, b), trains' = trains, initial_values' = initial_values,
         track_state' = track_state, b.parts = [s \in Range(Sections) |-> << >>],
         b = [id |-> b.id, uid |-> b.uid, secack_on |-> b.secack_on, features |-> b.features, parts |-> b.parts],
         BoosterIds \cup PendingBoosters =
           BoosterIds \cup (IF b.uid \in BoosterUids THEN {b.id} ELSE {}) \cup PendingBoosters'
  PROVE  TablesOK' /\ ElementsLinked' /\ BoostersLinked'
<1>1. TablesOK /\ ElementsLinked /\ BoostersLinked /\ IsSeq(boards)
  BY DEF Built, Linked, TablesOK
<1>2. \A s \in Range(Sections) : b.parts[s] = << >>
  OBVIOUS
<1>3. /\ IsSeq(boards') /\ Range(boards') = Range(boards) \cup {b} /\ Len(boards') = Len(boards) + 1
      /\ boards'[Len(boards) + 1] = b /\ \A i \in 1..Len(boards) : boards'[i] = boards[i]
      /\ Len(boards) \in Nat
  BY <1>1, AppendIs, RangeIs
<1>4. TablesOK'
  <2>1. ASSUME NEW i \in 1..Len(boards')
        PROVE  /\ boards'[i] = [id |-> boards'[i].id, uid |-> boards'[i].uid,
                                secack_on |-> boards'[i].secack_on, features |-> boards'[i].features,
                                parts |-> boards'[i].parts]
               /\ boards'[i].parts = [s \in Range(Sections) |-> boards'[i].parts[s]]
               /\ \A s \in Range(Sections) : IsSeq(boards'[i].parts[s])
    <3>1. CASE i = Len(boards) + 1
      <4>1. boards'[i] = b
        BY <1>3, <3>1
      <4>2. b.parts = [s \in Range(Sections) |-> b.parts[s]] /\ \A s \in Range(Sections) : IsSeq(b.parts[s])
        BY <1>2, EmptyIs
      <4> QED
        BY <4>1, <4>2
    <3>2. CASE i # Len(boards) + 1
      <4>1. i \in 1..Len(boards) /\ boards'[i] = boards[i]
        BY <1>3, <3>2
      <4> QED
        BY <1>1, <4>1 DEF TablesOK
    <3> QED
      BY <3>1, <3>2
  <2>2. /\ IsSeq(trains') /\ IsSeq(initial_values')
        /\ track_state' = [k \in StateKinds |-> track_state'[k]] /\ \A k \in StateKinds : IsSeq(track_state'[k])
    BY <1>1 DEF TablesOK
  <2> QED
    BY <1>3, <2>1, <2>2 DEF TablesOK
<1>5. ElementsLinked'
  <2>1. ASSUME NEW CONSTANT S, S \subseteq Range(Sections) PROVE Parts(S)' = Parts(S)
    BY <1>1, <1>2, <2>1, SpotsMore
  <2>2. ASSUME NEW CONSTANT t, t \in Range(Sections)
        PROVE  Range(Field(Parts({t})', "id")) = Range(track_state'[t])
    <3>1. Parts({t})' = Parts({t})
      BY <2>1, <2>2
    <3> QED
      BY <1>1, <2>2, <3>1 DEF ElementsLinked
  <2>3. \A m \in Range(Parts(Range(Sections))') : Complete(m)
    <3>1. Parts(Range(Sections))' = Parts(Range(Sections))
      BY <2>1
    <3> QED
      BY <1>1, <3>1 DEF ElementsLinked
  <2>4. Range(Field(trains', "id")) = Range(track_state'["trains"])
        /\ \A t \in Range(trains') : t.id # NULL /\ t.addr # NULL /\ Once(t.peripherals, "bit")
    BY <1>1 DEF ElementsLinked
  <2> QED
    BY <2>2, <2>3, <2>4 DEF ElementsLinked
<1>6. BoosterIds' = BoosterIds \cup IF b.uid \in BoosterUids THEN {b.id} ELSE {}
  BY <1>3 DEF BoosterIds
<1>7. BoostersLinked'
  BY <1>1, <1>6 DEF BoostersLinked
<1> QED
  BY <1>4, <1>5, <1>7

(* The parser of the file notes nothing.                                    *)
LEMMA PendingAtSection ==
  ASSUME IsSeq(stack), Len(stack) <= 1, Len(stack) = 1 => stack[1].p = "section"
  PROVE  PendingBoosters = {} /\ \A v : ~PendingInitial(v)
<1>1. Len(stack) \in Nat
  BY RangeIs
<1>2. {j \in 1..Len(stack) : stack[j].p = "board" /\ stack[j].e.uid \in BoosterUids} = {}
  <2>1. ASSUME NEW j \in 1..Len(stack) PROVE stack[j].p # "board"
    <3>1. j = 1 /\ Len(stack) = 1
      <4>1. \A l \in Nat : l <= 1 => \A k \in 1..l : k = 1 /\ l = 1
        OBVIOUS
      <4> QED
        BY <1>1, <4>1
    <3> QED
      BY <3>1
  <2> QED
    BY <2>1
<1>3. \A v : ~PendingInitial(v)
  BY <1>1 DEF PendingInitial
<1> QED
  BY <1>2, <1>3 DEF PendingBoosters

LEMMA PendingAtSectionLater ==
  ASSUME IsSeq(stack'), Len(stack') <= 1, Len(stack') = 1 => stack'[1].p = "section"
  PROVE  PendingBoosters' = {} /\ \A v : ~PendingInitial(v)'
<1>1. Len(stack') \in Nat
  BY RangeIs
<1>2. {j \in 1..Len(stack') : BoosterNoted(stack'[j])} = {}
  <2>1. ASSUME NEW j \in 1..Len(stack') PROVE ~BoosterNoted(stack'[j])
    <3>1. j = 1 /\ Len(stack') = 1
      BY <1>1
    <3> QED
      BY <3>1 DEF BoosterNoted
  <2> QED
    BY <2>1
<1>3. \A v : ~PendingInitial(v)'
  BY <1>1 DEF PendingInitial
<1> QED
  BY <1>2, <1>3, PendingBoostersLater

LEMMA PendingAtBoard ==
  ASSUME StackOK, Len(stack) = 2, Top.p = "board"
  PROVE  /\ PendingBoosters = IF Top.e.uid \in BoosterUids THEN {Top.e.id} ELSE {}
         /\ \A v : ~PendingInitial(v)
<1>1. Top = stack[2] /\ stack[1].p = "section" /\ stack[2].p = "board"
  BY TopIs DEF StackOK
<1>2. {j \in 1..Len(stack) : BoosterNoted(stack[j])} = IF Top.e.uid \in BoosterUids THEN {2} ELSE {}
  BY <1>1 DEF BoosterNoted
<1>3. PendingBoosters = IF Top.e.uid \in BoosterUids THEN {Top.e.id} ELSE {}
  BY <1>1, <1>2, PendingBoostersAre
<1>4. \A v : ~PendingInitial(v)
  BY <1>1 DEF PendingInitial
<1> QED
  BY <1>3, <1>4

(* A board or a train has been read to its end.                             *)
LEMMA BackToSection ==
  ASSUME StackOK, DocOK, Sound, Top.res = "done", Top.p \in {"board", "train"},
         Return(FALSE, Caller), Leaving, Len(boards') \in Nat, Len(boards') >= Len(boards)
  PROVE  /\ StackOK' /\ DocOK' /\ Resumes /\ Nesting' /\ Alternating'
         /\ Len(stack) = 2 /\ Len(stack') = 1 /\ stack'[1].p = "section" /\ IsSeq(stack')
<1>1. Nesting /\ Alternating /\ Built /\ TablesOK /\ file' = file /\ doc' = doc
  BY DEF Sound, Built, Leaving
<1>2. Len(stack) = 2 /\ Caller.p = "section" /\ Len(stack) > 1 /\ Top.p # "section"
  BY <1>1, CallerIs
<1>3. IsFrame(Caller) /\ Caller.res = "run" /\ FrameOK(Caller)
  BY <1>1, <1>2, TopIs, TopOK
<1>4. Back /\ StackOK' /\ DocOK' /\ Top' = Caller
  BY <1>2, <1>3, ReturnIs
<1>5. Resumes
  BY <1>3, <1>4 DEF Resumes
<1>6. IsSeq(stack') /\ Len(stack') = 1 /\ stack'[1] = Top'
  BY <1>2, <1>4, BackIs DEF Back
<1>7. Nesting'
  BY <1>1, <1>2, <1>5, BackNesting
<1>8. Alternating'
  BY <1>1, <1>2, <1>5, BackAlternates
<1> QED
  BY <1>2, <1>4, <1>5, <1>6, <1>7, <1>8

LEMMA BoardLeft ==
  ASSUME StackOK, DocOK, Sound, Top.res = "done", Top.p = "board",
         NEW b, b = [id |-> Top.e.id, uid |-> Top.e.uid, secack_on |-> Top.e.secack_on,
                     features |-> Range(Top.e.features), parts |-> [s \in Range(Sections) |-> << >>]],
         \A o \in Range(boards) : o.id # b.id /\ o.uid # b.uid,
         boards' = Append(boards, b), trains' = trains, track_state' = track_state,
         initial_values' = initial_values, Return(FALSE, Caller), Leaving
  PROVE  StackOK' /\ DocOK' /\ Sound'
<1>1. Built /\ TablesOK /\ IsSeq(boards) /\ InitialLinked
  BY DEF Sound, Built, TablesOK, Linked
<1>2. Len(boards) \in Nat /\ Len(boards') = Len(boards) + 1
  BY <1>1, AppendIs, RangeIs
<1>3. /\ StackOK' /\ DocOK' /\ Resumes /\ Nesting' /\ Alternating'
      /\ Len(stack) = 2 /\ Len(stack') = 1 /\ stack'[1].p = "section" /\ IsSeq(stack')
  BY <1>2, BackToSection
<1>4. /\ b.id = Top.e.id /\ b.uid = Top.e.uid /\ b.parts = [s \in Range(Sections) |-> << >>]
      /\ b = [id |-> b.id, uid |-> b.uid, secack_on |-> b.secack_on, features |-> b.features, parts |-> b.parts]
  OBVIOUS
<1>5. Unique'
  BY <1>1, <1>4, UniqueBoard
<1>6. PendingBoosters = (IF b.uid \in BoosterUids THEN {b.id} ELSE {}) /\ \A v : ~PendingInitial(v)
  BY <1>3, <1>4, PendingAtBoard
<1>7. PendingBoosters' = {}
  BY <1>3, PendingAtSectionLater
<1>8. TablesOK' /\ ElementsLinked' /\ BoostersLinked'
  <2>1. BoosterIds \cup PendingBoosters =
           BoosterIds \cup (IF b.uid \in BoosterUids THEN {b.id} ELSE {}) \cup PendingBoosters'
    BY <1>6, <1>7
  <2> QED
    BY <1>1, <1>4, <2>1, LinkedBoard
<1>9. InitialLinked'
  BY <1>1, <1>6 DEF InitialLinked
<1> QED
  BY <1>3, <1>5, <1>8, <1>9 DEF Sound, Built, Linked

LEMMA LeaveBoardOK ==
  ASSUME StackOK, DocOK, Going => Sound, LeaveBoard
  PROVE  LeftOK
<1> DEFINE c == [id |-> Top.e.id, uid |-> Top.e.uid, secack_on |-> Top.e.secack_on,
                 features |-> Range(Top.e.features), parts |-> [s \in Range(Sections) |-> << >>]]
<1>1. PICK b : b = c
  OBVIOUS
<1> DEFINE known == \E o \in Range(boards) : o.id = b.id \/ o.uid = b.uid
           failed == Top.res = "error" \/ known
<1>2. /\ Ended("board") /\ Leaving
      /\ IF Top.res = "error" /\ b.id = NULL THEN Crash
         ELSE /\ boards' = IF failed THEN boards ELSE Append(boards, b)
              /\ Return(failed, Caller)
              /\ UNCHANGED <<trains, track_state, initial_values, trains_rwlock, status>>
  BY <1>1 DEF LeaveBoard
<1>3. /\ status = "parsing" /\ Top.p = "board" /\ Top.res \in {"done", "error"}
      /\ Len(stack) > 1 /\ IsFrame(Caller) /\ Caller.res = "run"
  BY <1>2, EndedIs
<1>4. CASE Top.res = "error" /\ b.id = NULL
  BY <1>2, <1>4 DEF LeftOK, Crash
<1>5. CASE ~(Top.res = "error" /\ b.id = NULL) /\ failed
  <2>1. Return(TRUE, Caller) /\ status' = status
    BY <1>2, <1>5 DEF Return
  <2>2. StackOK' /\ DocOK' /\ ~Going'
    BY <1>2, <1>3, <2>1, ReturnIs
  <2> QED
    BY <1>3, <2>1, <2>2 DEF LeftOK
<1>6. CASE ~failed
  <2>1. Return(FALSE, Caller) /\ status' = status /\ boards' = Append(boards, b)
        /\ UNCHANGED <<trains, track_state, initial_values>>
    BY <1>2, <1>6 DEF Return
  <2>2. Top.res = "done" /\ Sound /\ \A o \in Range(boards) : o.id # b.id /\ o.uid # b.uid
    BY <1>3, <1>6 DEF Going
  <2>3. StackOK' /\ DocOK' /\ Sound'
    BY <1>1, <1>2, <1>3, <2>1, <2>2, BoardLeft
  <2> QED
    BY <1>3, <2>1, <2>3 DEF LeftOK
<1> QED
  BY <1>4, <1>5, <1>6

(* A train whose id and address are those of nothing else.                  *)
LEMMA TrainLeft ==
  ASSUME StackOK, DocOK, Sound, Top.res = "done", Top.p = "train",
         ~bidib_state_dcc_addr_in_use(Top.e.addr), \A t \in Range(trains) : t.id # Top.e.id,
         trains' = Append(trains, Top.e), boards' = boards, initial_values' = initial_values,
         track_state' = IF Top.e.id \in Range(track_state["trains"])
                        THEN track_state ELSE [track_state EXCEPT !["trains"] = Append(@, Top.e.id)],
         Return(FALSE, Caller), Leaving
  PROVE  StackOK' /\ DocOK' /\ Sound'
<1>1. Nesting /\ Built /\ TablesOK /\ Unique /\ ElementsLinked /\ BoostersLinked /\ InitialLinked
      /\ IsSeq(trains) /\ IsSeq(boards)
  BY DEF Sound, Built, TablesOK, Linked
<1>2. PICK m : m = Top.e
  OBVIOUS
<1>3. /\ StackOK' /\ DocOK' /\ Resumes /\ Nesting' /\ Alternating'
      /\ Len(stack) = 2 /\ Len(stack') = 1 /\ stack'[1].p = "section" /\ IsSeq(stack')
  <2>1. Len(boards) \in Nat
    BY <1>1, RangeIs
  <2> QED
    BY <2>1, BackToSection
<1>4. m.id # NULL /\ m.addr # NULL /\ Once(m.peripherals, "bit")
  <2>1. TrainOK(Top)
    BY <1>1, TopOK DEF FrameOK
  <2>2. Top.at >= 4
    <3>1. Top.at \in {6, 10}
      BY <2>1 DEF TrainOK
    <3> QED
      BY <3>1
  <2>3. Top.at \in Nat
    BY TopIs DEF IsFrame
  <2> QED
    BY <1>2, <2>1, <2>2, <2>3 DEF TrainOK
<1>5. /\ m["id"] \notin Range(Field(trains, "id"))
      /\ m["addr"] \notin Range(Field(Parts(Dcc), "dcc-address"))
      /\ m["addr"] \notin Range(Field(trains, "addr"))
  BY <1>2, NotThere, AddressesAre
<1>6. /\ Range(Field(trains', "id")) = Range(Field(trains, "id")) \cup {m["id"]}
      /\ Range(Field(trains', "addr")) = Range(Field(trains, "addr")) \cup {m["addr"]}
      /\ Once(trains', "id") /\ Once(trains', "addr")
      /\ IsSeq(trains') /\ Range(trains') = Range(trains) \cup {m}
  <2>1. trains' = Append(trains, m) /\ Once(trains, "id") /\ Once(trains, "addr")
    BY <1>1, <1>2 DEF Unique
  <2> QED
    BY <1>1, <1>5, <2>1, OnceAppend, AppendIs
<1>7. \A S : Parts(S)' = Parts(S)
  BY PartsSame
<1>8. Unique'
  BY <1>1, <1>5, <1>6, <1>7 DEF Unique
<1>9. track_state' = StateWith("trains", m["id"])
  BY <1>1, <1>2, <1>5 DEF ElementsLinked, StateWith
<1>10. "trains" \in StateKinds /\ "boosters" \in StateKinds \ {"trains"} /\ Range(Sections) \subseteq StateKinds \ {"trains"}
  BY SectionsAre
<1>11. /\ track_state' = [j \in StateKinds |-> track_state'[j]]
       /\ \A j \in StateKinds : IsSeq(track_state'[j])
       /\ Range(track_state'["trains"]) = Range(track_state["trains"]) \cup {m["id"]}
       /\ \A j \in StateKinds \ {"trains"} : track_state'[j] = track_state[j]
  BY <1>1, <1>9, <1>10, StateIs
<1>12. TablesOK'
  BY <1>1, <1>6, <1>11 DEF TablesOK
<1>13. ElementsLinked'
  <2>1. \A s \in Range(Sections) : track_state'[s] = track_state[s]
    BY <1>10, <1>11
  <2>2. \A t \in Range(trains') : t.id # NULL /\ t.addr # NULL /\ Once(t.peripherals, "bit")
    BY <1>1, <1>4, <1>6 DEF ElementsLinked
  <2>3. Range(Field(trains', "id")) = Range(track_state'["trains"])
    BY <1>1, <1>6, <1>11 DEF ElementsLinked
  <2> QED
    BY <1>1, <1>7, <2>1, <2>2, <2>3 DEF ElementsLinked
<1>14. BoostersLinked'
  <2>1. BoosterIds' = BoosterIds
    BY DEF BoosterIds
  <2>2. PendingBoosters' = PendingBoosters
    BY <1>1, <1>3, BoostersBack DEF Resumes
  <2> QED
    BY <1>1, <1>10, <1>11, <2>1, <2>2 DEF BoostersLinked
<1>15. \A v : PendingInitial(v) => v.of = m["id"]
  <2>1. ASSUME NEW CONSTANT v, PendingInitial(v) PROVE v.of = m["id"]
    <3>1. Top = stack[2]
      BY <1>3, TopIs
    <3> QED
      BY <1>2, <1>3, <2>1, <3>1 DEF PendingInitial
  <2> QED
    BY <2>1
<1>16. InitialLinked'
  <2>1. \A j \in StateKinds : Range(track_state[j]) \subseteq Range(track_state'[j])
    BY <1>11
  <2> QED
    BY <1>1, <1>10, <1>11, <1>15, <2>1 DEF InitialLinked
<1> QED
  BY <1>3, <1>8, <1>12, <1>13, <1>14, <1>16 DEF Sound, Built, Linked

LEMMA LeaveTrainOK ==
  ASSUME StackOK, DocOK, Going => Sound, LeaveTrain
  PROVE  LeftOK
<1> DEFINE failed == \/ Top.res = "error"
                     \/ bidib_state_dcc_addr_in_use(Top.e.addr)
                     \/ \E t \in Range(trains) : t.id = Top.e.id
<1>1. /\ Ended("train") /\ Leaving /\ Return(failed, Caller)
      /\ UNCHANGED <<boards, initial_values, trains_rwlock, status>>
      /\ ~failed =>
           /\ trains' = Append(trains, Top.e)
           /\ track_state' = IF Top.e.id \in Range(track_state["trains"])
                             THEN track_state ELSE [track_state EXCEPT !["trains"] = Append(@, Top.e.id)]
  BY DEF LeaveTrain
<1>2. /\ status = "parsing" /\ Top.p = "train" /\ Top.res \in {"done", "error"}
      /\ Len(stack) > 1 /\ IsFrame(Caller) /\ Caller.res = "run"
  BY <1>1, EndedIs
<1>3. CASE failed
  <2>1. Return(TRUE, Caller)
    BY <1>1, <1>3 DEF Return
  <2>2. StackOK' /\ DocOK' /\ ~Going'
    BY <1>1, <1>2, <2>1, ReturnIs
  <2> QED
    BY <1>1, <1>2, <2>2 DEF LeftOK
<1>4. CASE ~failed
  <2>1. Return(FALSE, Caller)
    BY <1>1, <1>4 DEF Return
  <2>2. Top.res = "done" /\ Sound
    BY <1>2, <1>4 DEF Going
  <2>3. StackOK' /\ DocOK' /\ Sound'
    BY <1>1, <1>2, <1>4, <2>1, <2>2, TrainLeft
  <2> QED
    BY <1>1, <1>2, <2>3 DEF LeftOK
<1> QED
  BY <1>3, <1>4

(* The parser of a file that begins.                                        *)
AtFile ==
  /\ document \in Documents /\ file \in {"board", "track", "train"} /\ doc = << >>
  /\ stack = <<NewFrame("section")>>

FileIs == StackOK /\ DocOK /\ Nesting /\ Alternating /\ PendingBoosters = {}

LEMMA FileBegins == AtFile => FileIs
<1> SUFFICES ASSUME AtFile PROVE FileIs
  OBVIOUS
<1> USE DEF AtFile
<1> DEFINE f == NewFrame("section")
<1>1. "section" \in Parsers
  BY ElementsAre
<1>2. /\ FrameOK(f) /\ f.p = "section" /\ f.at = 0 /\ f.seq = FALSE /\ f.res = "run"
  BY <1>1, NewFrameOK
<1>3. stack = <<f>>
  OBVIOUS
<1> HIDE DEF f
<1>4. IsSeq(stack) /\ Len(stack) = 1 /\ stack[1] = f /\ Top = f
  <2>1. <<f>> \in Seq({f}) /\ Len(<<f>>) = 1 /\ <<f>>[1] = f
    OBVIOUS
  <2>2. IsSeq(<<f>>)
    BY <2>1, SeqIs
  <2> QED
    BY <1>3, <2>1, <2>2 DEF Last, Top
<1>5. StackOK
  BY <1>2, <1>4 DEF StackOK, FrameOK
<1>6. DocOK
  BY NodesAre DEF DocOK, IsNodes
<1>7. Nesting
  BY <1>2, <1>4 DEF Nesting
<1>8. Alternating
  BY <1>2, <1>4 DEF Alternating, SectionDoc
<1>9. PendingBoosters = {}
  BY <1>2, <1>4, PendingAtSection
<1> QED
  BY <1>5, <1>6, <1>7, <1>8, <1>9 DEF FileIs

LEMMA FileBeginsLater == AtFile' => FileIs'
BY FileBegins, PTL

(* What has been built stays when the parser of a file ends.                *)
LEMMA BuiltAtSection ==
  ASSUME StackOK, Built, Len(stack) = 1, UNCHANGED tables, PendingBoosters' = {}
  PROVE  Built'
<1>1. TablesOK' /\ Unique' /\ ElementsLinked'
  BY TablesSame, UniqueSame, ElementsSame DEF Built, Linked, tables
<1>2. PendingBoosters = {} /\ \A v : ~PendingInitial(v)
  BY PendingAtSection DEF StackOK
<1>3. BoosterIds' = BoosterIds
  BY DEF BoosterIds, tables
<1>4. BoostersLinked'
  BY <1>2, <1>3 DEF Built, Linked, BoostersLinked, tables
<1>5. InitialLinked'
  BY <1>2 DEF Built, Linked, InitialLinked, tables
<1> QED
  BY <1>1, <1>4, <1>5 DEF Built, Linked

LEMMA LeaveSectionOK ==
  ASSUME StackOK, DocOK, Going => Sound, LeaveSection
  PROVE  LeftOK
<1>1. Ended("section") /\ UNCHANGED tables /\ document' = document /\ doc' = doc
  BY DEF LeaveSection
<1>2. status = "parsing" /\ Top.p = "section" /\ Top.res \in {"done", "error"} /\ Len(stack) = 1
  BY <1>1, EndedIs, TopIs
<1>3. CASE Top.res = "error"
  BY <1>3 DEF LeaveSection, LeftOK
<1>4. CASE Top.res = "done"
  <2>1. Sound /\ Built /\ doc = << >>
    BY <1>2, <1>4 DEF Going, Sound, Alternating
  <2>2. CASE file = "train"
    <3>1. status' = "loaded" /\ stack' = << >>
      BY <1>4, <2>2 DEF LeaveSection
    <3>2. PendingBoosters' = {}
      BY <3>1, EmptyIs, PendingAtSectionLater
    <3>3. Built'
      BY <1>1, <1>2, <2>1, <3>2, BuiltAtSection
    <3> QED
      BY <3>1, <3>3 DEF LeftOK
  <2>3. CASE file # "train"
    <3>1. /\ status' = status /\ stack' = <<NewFrame("section")>>
          /\ file' = IF file = "board" THEN "track" ELSE "train"
      BY <1>4, <2>3 DEF LeaveSection
    <3>2. AtFile'
      BY <1>1, <2>1, <3>1 DEF StackOK, AtFile
    <3>3. StackOK' /\ DocOK' /\ Nesting' /\ Alternating' /\ PendingBoosters' = {}
      BY <3>2, FileBeginsLater DEF FileIs
    <3>4. Built'
      BY <1>1, <1>2, <2>1, <3>3, BuiltAtSection
    <3> QED
      BY <1>2, <3>1, <3>3, <3>4 DEF LeftOK, Sound
  <2> QED
    BY <2>2, <2>3
<1> QED
  BY <1>2, <1>3, <1>4

LEMMA LeaveOK ==
  ASSUME StackOK, DocOK, Going => Sound, Leave
  PROVE  LeftOK
BY LeaveAspectOK, LeavePortOK, LeaveDccAspectOK, LeaveAccessoryOK, LeaveDccAccessoryOK,
   LeavePeripheralOK, LeaveSegmentOK, LeaveReverserOK, LeaveTrainPeripheralOK,
   LeaveCalibrationOK, LeaveSetupOK, LeaveBoardOK, LeaveTrainOK, LeaveSectionOK DEF Leave

----------------------------------------------------------------------------
(* The configuration as a whole.                                            *)

LEMMA NoneAre ==
  ASSUME NEW f, DOMAIN f = {}
  PROVE  /\ Range(f) = {}
         /\ \A k : Once(f, k) /\ Range(Field(f, k)) = {}
<1>1. \A k : DOMAIN Field(f, k) = {}
  BY DEF Field
<1> QED
  BY <1>1 DEF Once, IsInjective, Range

(* Before anything has been read.                                           *)
Idle == Empty /\ (stack = << >> \/ stack = <<NewFrame("section")>>)

LEMMA EmptyBuilt == Idle => Built
<1> SUFFICES ASSUME Idle PROVE Built
  OBVIOUS
<1>1. /\ boards = << >> /\ trains = << >> /\ initial_values = << >>
      /\ track_state = [k \in StateKinds |-> << >>]
  BY DEF Idle, Empty
<1>2. DOMAIN boards = {} /\ DOMAIN trains = {} /\ DOMAIN initial_values = {}
      /\ Range(boards) = {} /\ Range(trains) = {} /\ Range(initial_values) = {}
  BY <1>1, NoneAre
<1>3. TablesOK
  BY <1>1, EmptyIs DEF TablesOK
<1>4. \A S : DOMAIN Parts(S) = {}
  BY <1>2 DEF Parts, Places
<1>5. \A S : Range(Parts(S)) = {} /\ \A k : Once(Parts(S), k) /\ Range(Field(Parts(S), k)) = {}
  BY <1>4, NoneAre
<1>6. \A k : /\ Once(boards, k) /\ Once(trains, k) /\ Range(Field(trains, k)) = {}
             /\ Range(Field(boards, k)) = {}
  BY <1>2, NoneAre
<1>7. Unique
  BY <1>2, <1>5, <1>6 DEF Unique
<1>8. \A k \in StateKinds : Range(track_state[k]) = {}
  <2>1. Range(<< >>) = {}
    BY NoneAre
  <2> QED
    BY <1>1, <2>1
<1>9. Range(Sections) \cup {"trains", "boosters"} \subseteq StateKinds
  BY SectionsAre
<1>10. ElementsLinked
  BY <1>2, <1>5, <1>6, <1>8, <1>9 DEF ElementsLinked
<1>11. PendingBoosters = {}
  <2>1. CASE stack = << >>
    <3>1. IsSeq(stack) /\ Len(stack) = 0
      BY <2>1, EmptyIs
    <3> QED
      BY <3>1, PendingAtSection
  <2>2. CASE stack = <<NewFrame("section")>>
    <3>1. PICK f : f = NewFrame("section")
      OBVIOUS
    <3>2. f.p = "section"
      BY <3>1, ElementsAre, NewFrameOK
    <3>3. <<f>> \in Seq({f}) /\ Len(<<f>>) = 1 /\ <<f>>[1] = f
      OBVIOUS
    <3>4. IsSeq(<<f>>)
      BY <3>3, SeqIs
    <3> QED
      BY <2>2, <3>1, <3>2, <3>3, <3>4, PendingAtSection
  <2> QED
    BY <2>1, <2>2 DEF Idle
<1>12. BoostersLinked
  BY <1>2, <1>8, <1>9, <1>11 DEF BoostersLinked, BoosterIds
<1>13. InitialLinked
  BY <1>2 DEF InitialLinked
<1> QED
  BY <1>3, <1>7, <1>10, <1>12, <1>13 DEF Built, Linked

(* The state in which the library begins to read the files, and in which it *)
(* has been freed.                                                          *)
Begun == AtFile /\ Empty /\ status = "parsing"
Freed == Empty /\ stack = << >> /\ status # "parsing"

LEMMA ConfigInvBegun == Begun => ConfigInv
<1> SUFFICES ASSUME Begun PROVE ConfigInv
  OBVIOUS
<1>1. StackOK /\ DocOK /\ Nesting /\ Alternating
  BY FileBegins DEF Begun, FileIs
<1>2. Built
  BY EmptyBuilt DEF Begun, Idle, AtFile
<1> QED
  BY <1>1, <1>2 DEF Begun, ConfigInv, Sound

LEMMA ConfigInvFreed == Freed => ConfigInv
BY EmptyBuilt DEF Freed, Idle, ConfigInv

LEMMA ConfigInvBegunLater == Begun' => ConfigInv'
BY ConfigInvBegun, PTL

LEMMA ConfigInvFreedLater == Freed' => ConfigInv'
BY ConfigInvFreed, PTL

LEMMA ConfigInvInit == ConfigInit => ConfigInv
BY ConfigInvBegun DEF ConfigInit, Begun, AtFile

LEMMA ConfigInvNext ==
  ASSUME ConfigInv, ConfigNext
  PROVE  /\ ConfigInv'
         /\ status' = "crashed" => Top.res = "error"
<1>1. CASE Event
  <2>1. Reading
    BY <1>1 DEF Event, SequenceStart, SequenceEnd, MappingStart, MappingEnd, DocumentStart,
                DocumentEnd, StreamEnd, NotYaml
  <2>2. StackOK /\ DocOK /\ Sound
    BY <2>1 DEF ConfigInv, Reading, Going
  <2>3. StackOK' /\ DocOK' /\ (Going' => Sound') /\ status' = "parsing"
    BY <1>1, <2>2, EventOK
  <2> QED
    BY <2>3 DEF ConfigInv
<1>2. CASE Leave
  <2>1. status = "parsing"
    BY <1>2 DEF Leave, Ended, LeaveAspect, LeavePort, LeaveDccAspect, LeaveAccessory,
                LeaveDccAccessory, LeavePeripheral, LeaveSegment, LeaveReverser,
                LeaveTrainPeripheral, LeaveCalibration, LeaveSetup, LeaveBoard, LeaveTrain,
                LeaveSection
  <2>2. LeftOK
    BY <1>2, <2>1, LeaveOK DEF ConfigInv
  <2> QED
    BY <2>2 DEF LeftOK, ConfigInv
<1> QED
  BY <1>1, <1>2 DEF ConfigNext

LEMMA ConfigInvSame == ConfigInv /\ UNCHANGED configVars => ConfigInv'
<1> SUFFICES ASSUME ConfigInv, UNCHANGED configVars PROVE ConfigInv'
  OBVIOUS
<1>1. /\ document' = document /\ file' = file /\ doc' = doc /\ stack' = stack /\ status' = status
      /\ UNCHANGED tables
  BY DEF configVars
<1>2. StackOK /\ DocOK => StackOK' /\ DocOK' /\ (Going' <=> Going)
  BY <1>1 DEF StackOK, DocOK, Going, Top
<1>3. ASSUME Built PROVE Built'
  <2>1. TablesOK' /\ Unique' /\ ElementsLinked'
    BY <1>1, <1>3, TablesSame, UniqueSame, ElementsSame DEF Built, Linked, tables
  <2>2. BoosterIds' = BoosterIds /\ PendingBoosters' = PendingBoosters
    BY <1>1 DEF BoosterIds, PendingBoosters, tables
  <2>3. BoostersLinked'
    BY <1>1, <1>3, <2>2 DEF Built, Linked, BoostersLinked, tables
  <2>4. \A v : PendingInitial(v)' <=> PendingInitial(v)
    BY <1>1 DEF PendingInitial
  <2>5. InitialLinked'
    BY <1>1, <1>3, <2>4 DEF Built, Linked, InitialLinked, tables
  <2> QED
    BY <2>1, <2>3, <2>5 DEF Built, Linked
<1>4. ASSUME Sound PROVE Sound'
  <2>1. boards' = boards /\ Len(boards) \in Nat
    BY <1>1, <1>4, RangeIs DEF Sound, Built, TablesOK, tables
  <2>2. Nesting'
    BY <1>1, <1>4, <2>1, NestingLater DEF Sound, Nesting
  <2>3. Alternating'
    BY <1>1, <1>4 DEF Sound, Alternating, SectionDoc, Layers, Depth, Top, Closed
  <2> QED
    BY <1>3, <1>4, <2>2, <2>3 DEF Sound
<1> QED
  BY <1>1, <1>2, <1>3, <1>4 DEF ConfigInv

----------------------------------------------------------------------------
(* What it says of a configuration that has been accepted, and of the       *)
(* parsers that run.                                                        *)

LEMMA InvLookups == ConfigInv => LookupsUnique
BY DEF ConfigInv, Built, Unique, LookupsUnique, Loaded

LEMMA InvLinks == ConfigInv => LinksComplete
<1> SUFFICES ASSUME ConfigInv, Loaded PROVE LinksComplete
  BY DEF LinksComplete
<1>1. ElementsLinked /\ BoostersLinked /\ InitialLinked /\ stack = << >>
  BY DEF ConfigInv, Loaded, Built, Linked
<1>2. PendingBoosters = {} /\ \A v : ~PendingInitial(v)
  BY <1>1, EmptyIs, PendingAtSection
<1> QED
  BY <1>1, <1>2 DEF ElementsLinked, BoostersLinked, InitialLinked, LinksComplete

(* A set of places with a set of numbers, one for each.                     *)
LEMMA SameNumber ==
  ASSUME NEW S, IsFiniteSet(S), S \subseteq Nat, NEW T, NEW c \in {0, 1},
         \A j \in S : 2 * j + c \in T, \A i \in T : \E j \in S : i = 2 * j + c
  PROVE  IsFiniteSet(T) /\ Cardinality(T) = Cardinality(S)
<1> DEFINE h == [j \in S |-> 2 * j + c]
<1>1. h \in [S -> T]
  OBVIOUS
<1>2. \A i, j \in S : h[i] = h[j] => i = j
  <2>1. ASSUME NEW i \in S, NEW j \in S, h[i] = h[j] PROVE i = j
    <3>1. i \in Nat /\ j \in Nat /\ 2 * i + c = 2 * j + c /\ c \in Nat
      BY <2>1
    <3> HIDE DEF h
    <3> QED
      BY <3>1
  <2> QED
    BY <2>1
<1>3. \A i \in T : \E j \in S : h[j] = i
  <2>1. ASSUME NEW i \in T PROVE \E j \in S : h[j] = i
    <3>1. PICK j \in S : i = 2 * j + c
      OBVIOUS
    <3> QED
      BY <3>1
  <2> QED
    BY <2>1
<1> HIDE DEF h
<1>4. h \in Bijection(S, T)
  BY <1>1, <1>2, <1>3 DEF Bijection, Injection, Surjection, IsInjective
<1>5. ExistsBijection(S, T)
  BY <1>4 DEF ExistsBijection
<1> QED
  BY <1>5, FS_Bijection

LEMMA SeqSetFinite ==
  ASSUME NEW n \in Nat, NEW S, S \subseteq 1..n
  PROVE  IsFiniteSet(S) /\ Cardinality(S) \in Nat /\ S \subseteq Nat
<1>1. IsFiniteSet(1..n)
  BY FS_Interval
<1>2. IsFiniteSet(S)
  BY <1>1, FS_Subset
<1> QED
  BY <1>2, FS_CardinalityType

(* The parser of the file has at most its own mapping open.                 *)
LEMMA OwnFile ==
  ASSUME StackOK, DocOK, Sound, Top.res = "run", file # "board", Top.p = "section"
  PROVE  Open("mapping") <= 1
<1>1. SectionDoc
  BY TopIs DEF Sound, Alternating
<1>2. \A i \in DOMAIN doc : doc[i].k = "mapping" => i = 2
  <2>1. \A a, b : DOMAIN <<a, b>> = 1..2 /\ <<a, b>>[1] = a /\ <<a, b>>[2] = b
    OBVIOUS
  <2>2. \A a : DOMAIN <<a>> = 1..1 /\ <<a>>[1] = a
    OBVIOUS
  <2>3. DOMAIN << >> = {}
    OBVIOUS
  <2>4. CASE \E n : doc \in {<<DocNode("document", 1), DocNode("mapping", n)>>}
    <3>1. doc[1].k = "document" /\ DOMAIN doc = 1..2
      BY <2>1, <2>4 DEF DocNode
    <3> QED
      BY <3>1
  <2>5. CASE (\E n : doc = <<DocNode("document", n)>>) \/ doc = Closed
    <3>1. doc[1].k # "mapping" /\ DOMAIN doc = 1..1
      BY <2>2, <2>5 DEF DocNode, Closed
    <3> QED
      BY <3>1
  <2>6. CASE Len(doc) = 3 /\ doc[1] = DocNode("document", 1) /\ doc[3].k = "sequence"
    <3>1. doc[1].k = "document" /\ DOMAIN doc = 1..3
      BY <2>6, RangeIs DEF DocNode, DocOK
    <3> QED
      BY <2>6, <3>1
  <2> QED
    BY <1>1, <2>3, <2>4, <2>5, <2>6 DEF SectionDoc
<1>3. {i \in DOMAIN doc : doc[i].k = "mapping"} \in SUBSET {2}
  BY <1>2
<1>4. IsFiniteSet({2}) /\ Cardinality({2}) = 1
  BY FS_Singleton
<1> DEFINE M == {i \in DOMAIN doc : doc[i].k = "mapping"}
<1> HIDE DEF M
<1>5. Cardinality(M) <= 1
  BY <1>3, <1>4, FS_Subset DEF M
<1> QED
  BY <1>5 DEF Open, M

(* The parsers that have called another one are in a list.                  *)
LEMMA CallersAre ==
  ASSUME StackOK, Nesting, NEW i \in 1..(Len(stack) - 1)
  PROVE  stack[i].p # "calibration" /\ (i > 1 => stack[i].seq)
<1>1. /\ i \in 1..Len(stack) /\ i + 1 \in 2..Len(stack)
      /\ FrameOK(stack[i]) /\ Calls(stack[i], stack[i + 1])
  BY RangeIs DEF StackOK, Nesting
<1>2. i > 1 => stack[i].p # "section"
  BY <1>1 DEF StackOK
<1> QED
  BY <1>1, <1>2, ElementsAre DEF Calls, ElementNames

LEMMA OwnLayers ==
  ASSUME StackOK, DocOK, Sound, Top.res = "run", file # "board", Top.p # "section"
  PROVE  /\ Open("mapping") = Cardinality({i \in DOMAIN stack : stack[i].p # "calibration"})
         /\ Open("sequence") = 1 + Cardinality({i \in DOMAIN stack : stack[i].seq})
<1>1. Nesting /\ Alternating
  BY DEF Sound
<1>2. PICK L \in Nat : L = Len(stack) /\ L > 1 /\ DOMAIN stack = 1..L /\ Top = stack[L]
  BY TopIs, NestedIs, RangeIs DEF StackOK
<1>3. PICK D \in Nat : D = Depth
  BY DepthIs
<1>4. /\ D = IF Top.p = "calibration" THEN 2 * L - 1 ELSE IF Top.seq THEN 2 * L + 1 ELSE 2 * L
      /\ Layers(doc, D)
  BY <1>1, <1>2, <1>3, LayersNow DEF Depth
<1>5. /\ DOMAIN doc = 1..D /\ doc[1].k = "document" /\ doc[2].k = "mapping"
      /\ \A i \in 3..D : doc[i].k = IF i % 2 = 0 THEN "mapping" ELSE "sequence"
  BY <1>4, RangeIs DEF Layers, DocOK, DocNode
<1>6. \A j \in 1..(L - 1) : stack[j].p # "calibration" /\ (j > 1 => stack[j].seq)
  BY <1>1, <1>2, CallersAre
<1>7. ~stack[1].seq /\ (Top.p = "calibration" => ~Top.seq) /\ stack[1].p = "section"
  <2>1. FrameOK(stack[1]) /\ FrameOK(Top) /\ stack[1].p = "section"
    BY <1>1, <1>2, TopOK DEF Nesting, StackOK
  <2> QED
    BY <2>1 DEF FrameOK, SectionOK
<1> DEFINE M == {i \in DOMAIN doc : doc[i].k = "mapping"}
           C == {i \in DOMAIN stack : stack[i].p # "calibration"}
           Q == {i \in DOMAIN doc : doc[i].k = "sequence"}
           S == {i \in DOMAIN stack : stack[i].seq}
<1>8. Cardinality(M) = Cardinality(C)
  <2>1. \A j \in 1..L : j \in C <=> 2 * j <= D
    <3>1. ASSUME NEW j \in 1..L PROVE j \in C <=> 2 * j <= D
      <4>1. CASE j = L
        <5>1. j \in C <=> Top.p # "calibration"
          BY <1>2, <4>1
        <5>2. 2 * j <= D <=> Top.p # "calibration"
          BY <1>4, <4>1
        <5> QED
          BY <5>1, <5>2
      <4>2. CASE j # L
        <5>1. j \in 1..(L - 1)
          BY <4>2
        <5>2. j \in C
          BY <1>2, <1>6, <5>1
        <5>3. 2 * j <= D
          BY <1>2, <1>4, <5>1
        <5> QED
          BY <5>2, <5>3
      <4> QED
        BY <4>1, <4>2
    <3> QED
      BY <3>1
  <2>2. \A i \in 1..D : i \in M <=> i % 2 = 0
    <3>1. ASSUME NEW i \in 1..D PROVE i \in M <=> i % 2 = 0
      <4>1. CASE i = 1
        BY <1>5, <4>1
      <4>2. CASE i = 2
        BY <1>5, <4>2
      <4>3. CASE i > 2
        BY <1>5, <4>3
      <4> QED
        BY <4>1, <4>2, <4>3
    <3> QED
      BY <3>1
  <2>3. C \subseteq 1..L /\ M \subseteq 1..D
    BY <1>2, <1>5
  <2> HIDE DEF C, M
  <2>4. \A j \in C : 2 * j + 0 \in M
    <3>1. ASSUME NEW j \in C PROVE 2 * j + 0 \in M
      <4>1. j \in 1..L /\ 2 * j <= D
        BY <2>1, <2>3
      <4>2. 2 * j + 0 \in 1..D /\ (2 * j + 0) % 2 = 0
        BY <4>1
      <4> QED
        BY <2>2, <4>2
    <3> QED
      BY <3>1
  <2>5. \A i \in M : \E j \in C : i = 2 * j + 0
    <3>1. ASSUME NEW i \in M PROVE \E j \in C : i = 2 * j + 0
      <4>1. i \in 1..D /\ i % 2 = 0
        BY <2>2, <2>3
      <4>2. PICK j \in Nat : j = i \div 2 /\ i = 2 * j + 0 /\ j >= 1
        BY <4>1
      <4>3. j \in 1..L /\ 2 * j + 0 <= D
        BY <1>4, <4>1, <4>2
      <4>4. j \in C
        BY <2>1, <4>3
      <4> QED
        BY <4>2, <4>4
    <3> QED
      BY <3>1
  <2>6. IsFiniteSet(C) /\ C \subseteq Nat
    BY <2>3, SeqSetFinite
  <2> QED
    BY <2>4, <2>5, <2>6, SameNumber
<1>9. Cardinality(Q) = Cardinality(S \cup {1})
  <2> DEFINE T == S \cup {1}
  <2>1. \A j \in 1..L : j \in T <=> 2 * j + 1 <= D
    <3>1. ASSUME NEW j \in 1..L PROVE j \in T <=> 2 * j + 1 <= D
      <4>1. CASE j = L
        <5>1. j \in T <=> Top.seq
          BY <1>2, <4>1
        <5>2. 2 * j + 1 <= D <=> Top.seq
          BY <1>4, <1>7, <4>1
        <5> QED
          BY <5>1, <5>2
      <4>2. CASE j # L
        <5>1. j \in 1..(L - 1)
          BY <4>2
        <5>2. j \in T
          BY <1>2, <1>6, <5>1
        <5>3. 2 * j + 1 <= D
          BY <1>2, <1>4, <5>1
        <5> QED
          BY <5>2, <5>3
      <4> QED
        BY <4>1, <4>2
    <3> QED
      BY <3>1
  <2>2. \A i \in 1..D : i \in Q <=> i % 2 = 1 /\ i > 1
    <3>1. ASSUME NEW i \in 1..D PROVE i \in Q <=> i % 2 = 1 /\ i > 1
      <4>1. CASE i = 1
        BY <1>5, <4>1
      <4>2. CASE i = 2
        BY <1>5, <4>2
      <4>3. CASE i > 2
        BY <1>5, <4>3
      <4> QED
        BY <4>1, <4>2, <4>3
    <3> QED
      BY <3>1
  <2>3. T \subseteq 1..L /\ Q \subseteq 1..D
    BY <1>2, <1>5
  <2> HIDE DEF T, Q
  <2>4. \A j \in T : 2 * j + 1 \in Q
    <3>1. ASSUME NEW j \in T PROVE 2 * j + 1 \in Q
      <4>1. j \in 1..L /\ 2 * j + 1 <= D
        BY <2>1, <2>3
      <4>2. 2 * j + 1 \in 1..D /\ (2 * j + 1) % 2 = 1 /\ 2 * j + 1 > 1
        BY <4>1
      <4> QED
        BY <2>2, <4>2
    <3> QED
      BY <3>1
  <2>5. \A i \in Q : \E j \in T : i = 2 * j + 1
    <3>1. ASSUME NEW i \in Q PROVE \E j \in T : i = 2 * j + 1
      <4>1. i \in 1..D /\ i % 2 = 1 /\ i > 1
        BY <2>2, <2>3
      <4>2. PICK j \in Nat : j = i \div 2 /\ i = 2 * j + 1 /\ j >= 1
        BY <4>1
      <4>3. j \in 1..L /\ 2 * j + 1 <= D
        BY <1>4, <4>1, <4>2
      <4>4. j \in T
        BY <2>1, <4>3
      <4> QED
        BY <4>2, <4>4
    <3> QED
      BY <3>1
  <2>6. IsFiniteSet(T) /\ T \subseteq Nat
    BY <2>3, SeqSetFinite
  <2>7. Cardinality(Q) = Cardinality(T)
    BY <2>4, <2>5, <2>6, SameNumber
  <2> QED
    BY <2>7 DEF T
<1>10. Cardinality(S \cup {1}) = 1 + Cardinality(S)
  <2>1. S \subseteq 1..L /\ 1 \notin S
    BY <1>2, <1>7
  <2> HIDE DEF S
  <2>2. IsFiniteSet(S) /\ Cardinality(S) \in Nat
    BY <2>1, SeqSetFinite
  <2>3. Cardinality(S \cup {1}) = Cardinality(S) + 1
    BY <2>1, <2>2, FS_AddElement
  <2> QED
    BY <2>2, <2>3
<1> HIDE DEF M, C, Q, S
<1> QED
  BY <1>8, <1>9, <1>10 DEF Open, M, C, Q, S

LEMMA InvElement == ConfigInv => OwnElement
<1> SUFFICES ASSUME ConfigInv, Reading, file # "board"
    PROVE  /\ IF Top.p = "section" THEN Open("mapping") <= 1
              ELSE Open("mapping") = Cardinality({i \in DOMAIN stack : stack[i].p # "calibration"})
           /\ Top.p # "section" =>
                Open("sequence") = 1 + Cardinality({i \in DOMAIN stack : stack[i].seq})
  BY DEF OwnElement
<1>1. StackOK /\ DocOK /\ Sound /\ Top.res = "run"
  BY DEF ConfigInv, Reading, Going
<1> QED
  BY <1>1, OwnFile, OwnLayers

----------------------------------------------------------------------------
(* Starts and stops.                                                        *)

Threads == {"receiver", "heartbeat"} \cup IF flush_interval THEN {"autoflush"} ELSE {}

\* While a start connects and resets, and after it has succeeded, all of its
\* threads run and can write; it has failed already if the configuration was bad.
Created ==
  pc \in {"connect", "reset", "reset_trains", "initial_values", "started"} =>
    /\ threads = Threads /\ write_bytes
    /\ status \in {"loaded", "rejected"}
    /\ status = "rejected" => error

\* Threads end only when they have been told to, which is after the last call
\* that needs them.
ToldToEnd ==
  pc \in {"config", "connect", "reset", "reset_trains", "initial_values", "started", "stop",
          "stop_trains"} => bidib_running

\* A start begins without threads, and a stop waits for those it finds: the
\* handle of each is one it joins.
Joinable ==
  /\ pc \in {"idle", "config", "free"} => threads = {}
  /\ \A t \in threads : handles[t] = "live"

StartTypeOK ==
  /\ pc \in {"idle", "config", "connect", "reset", "reset_trains", "initial_values", "started",
             "stop", "stop_trains", "join", "free", "crashed"}
  /\ by \in {"pointer", "serial"}
  /\ flush_interval \in BOOLEAN /\ error \in BOOLEAN
  /\ write_bytes \in BOOLEAN /\ bidib_running \in BOOLEAN
  /\ threads \in SUBSET Thread /\ handles \in [Thread -> {"none", "live", "joined"}]

StartInv ==
  /\ StartTypeOK /\ Created /\ ToldToEnd /\ Joinable
  /\ pc = "started" => ~error

LEMMA StartInvInit == StartInit => StartInv
BY DEF StartInit, StartInv, StartTypeOK, Created, ToldToEnd, Joinable, Thread

(* bidib_init_threads.                                                      *)
LEMMA InitThreadsLemma ==
  ASSUME StartInv, pc = "config", InitThreads, flush_interval' = flush_interval
  PROVE  /\ threads' = Threads' /\ threads' \in SUBSET Thread
         /\ handles' \in [Thread -> {"none", "live", "joined"}]
         /\ \A t \in threads' : handles'[t] = "live"
BY DEF StartInv, StartTypeOK, Joinable, InitThreads, Threads, Thread

LEMMA StartInvNext == StartInv /\ [Next]_vars => StartInv'
<1> SUFFICES ASSUME StartInv, [Next]_vars PROVE StartInv'
  OBVIOUS
<1> USE DEF StartInv, StartTypeOK, Created, ToldToEnd, Joinable, Threads
<1>1. ASSUME NEW b \in {"pointer", "serial"}, NEW f \in BOOLEAN, BeginStart(b, f)
      PROVE  StartInv'
  BY <1>1 DEF BeginStart
<1>2. CASE ReadConfig
  BY <1>2 DEF ReadConfig, startVars
<1>3. CASE StartThreadsPointer
  BY <1>3, InitThreadsLemma DEF StartThreadsPointer, configVars
<1>4. CASE StartThreadsSerial
  <2>1. CASE error' = TRUE /\ pc' = "stop" /\ UNCHANGED <<write_bytes, threads, handles>>
    BY <1>4, <2>1 DEF StartThreadsSerial, configVars
  <2>2. CASE status = "loaded" /\ write_bytes' = TRUE /\ InitThreads /\ pc' = "connect" /\ UNCHANGED error
    BY <1>4, <2>2, InitThreadsLemma DEF StartThreadsSerial, configVars
  <2> QED
    BY <1>4, <2>1, <2>2 DEF StartThreadsSerial
<1>5. CASE Connect
  BY <1>5 DEF Connect, configVars
<1>6. CASE ResetNodes \/ ResetTrains
  BY <1>6 DEF ResetNodes, ResetTrains, configVars
<1>7. CASE CallStop
  BY <1>7 DEF CallStop, configVars
<1>8. CASE StopSend
  BY <1>8 DEF StopSend, configVars, Fault
<1>9. CASE StopTrains
  BY <1>9 DEF StopTrains, configVars
<1>10. ASSUME NEW t \in Thread, ThreadEnds(t) PROVE StartInv'
  BY <1>10 DEF ThreadEnds, configVars
<1>11. CASE StopJoin
  <2>1. threads = {}
    BY <1>11 DEF StopJoin
  <2> QED
    BY <1>11, <2>1 DEF StopJoin, Thread, Fault
<1>12. CASE StopFree
  BY <1>12 DEF StopFree, Fault
<1>13. CASE UNCHANGED vars
  BY <1>13 DEF vars, startVars, configVars
<1>14. CASE SetInitialValues
  BY <1>14 DEF SetInitialValues, configVars, Fault
<1>15. CASE HandleReport
  BY <1>15 DEF HandleReport, Fault
<1> QED
  BY <1>1, <1>2, <1>3, <1>4, <1>5, <1>6, <1>7, <1>8, <1>9, <1>10, <1>11, <1>12, <1>13,
     <1>14, <1>15
     DEF Next, Called, GoesOn, Answered, Halt

(* What a start has created and what a stop waits for is in step with where *)
(* the calls are, in every state.                                           *)
THEOREM StartInvariant == Spec => []StartInv
BY StartInvInit, StartInvNext, PTL DEF Spec

(* A start that has succeeded has accepted the configuration and has its    *)
(* threads, and no thread is left when bidib_stop frees what they use.      *)
THEOREM ThreadsAreInStep == Spec => []ThreadsInStep
<1>1. StartInv => ThreadsInStep
  BY DEF StartInv, Created, Joinable, ThreadsInStep, Threads, Loaded
<1> QED
  BY <1>1, StartInvariant, PTL

----------------------------------------------------------------------------
(* The configuration that the calls read.                                   *)

\* A configuration is read by a start only, with the state empty; and between
\* the starts it is empty again.
LoadInv ==
  /\ ConfigInv /\ document \in Documents
  /\ status = "parsing" => pc \in {"idle", "config"}
  /\ pc = "idle" => Empty

LEMMA LoadInvInit == StartInit => LoadInv
BY ConfigInvInit DEF StartInit, LoadInv, ConfigInit

LEMMA DocumentStays ==
  ASSUME ConfigNext
  PROVE  document' = document
<1>1. CASE Event
  BY <1>1 DEF Event, Scalar, SequenceStart, SequenceEnd, MappingStart, MappingEnd, DocumentStart,
     DocumentEnd, StreamEnd, NotYaml
<1>2. CASE Leave
  BY <1>2 DEF Leave, LeaveAspect, LeavePort, LeaveDccAspect, LeaveAccessory, LeaveDccAccessory,
     LeavePeripheral, LeaveSegment, LeaveReverser, LeaveTrainPeripheral, LeaveCalibration,
     LeaveSetup, LeaveBoard, LeaveTrain, LeaveSection, Leaving
<1> QED
  BY <1>1, <1>2 DEF ConfigNext

(* A step that leaves the configuration as it is, or crashes.               *)
LEMMA LoadInvSame ==
  ASSUME LoadInv, UNCHANGED configVars, pc # "idle", pc' # "idle",
         pc' = "config" => pc = "config", status = "parsing" => pc' = "config"
  PROVE  LoadInv'
<1>1. ConfigInv'
  BY ConfigInvSame DEF LoadInv
<1>2. document' = document /\ status' = status
  BY DEF configVars
<1> QED
  BY <1>1, <1>2 DEF LoadInv

LEMMA LoadInvCrash ==
  ASSUME LoadInv, Fault
  PROVE  LoadInv'
<1>1. status' = "crashed" /\ document' = document /\ pc' = "crashed"
  BY DEF Fault, Crash
<1>2. ConfigInv'
  BY <1>1 DEF ConfigInv
<1> QED
  BY <1>1, <1>2 DEF LoadInv

LEMMA LoadInvNext == LoadInv /\ [Next]_vars => LoadInv'
<1> SUFFICES ASSUME LoadInv, [Next]_vars PROVE LoadInv'
  OBVIOUS
<1>1. ASSUME NEW b \in {"pointer", "serial"}, NEW f \in BOOLEAN, BeginStart(b, f)
      PROVE  LoadInv'
  <2>1. Empty /\ boards' = boards /\ trains' = trains /\ track_state' = track_state
        /\ initial_values' = initial_values
    BY <1>1 DEF LoadInv, BeginStart
  <2>2. Empty'
    BY <2>1 DEF Empty
  <2>3. document' \in Documents /\ pc' = "config"
    BY <1>1 DEF LoadInv, BeginStart
  <2>4. Begun'
    BY <1>1, <2>2, <2>3 DEF BeginStart, Begun, AtFile
  <2> QED
    BY <2>3, <2>4, ConfigInvBegunLater DEF LoadInv
<1>2. CASE ReadConfig
  <2>1. ConfigInv'
    BY <1>2, ConfigInvNext DEF ReadConfig, LoadInv
  <2>2. document' = document /\ pc' = "config"
    BY <1>2, DocumentStays DEF ReadConfig, startVars
  <2> QED
    BY <2>1, <2>2 DEF LoadInv
<1>3. CASE StartThreadsPointer
  BY <1>3, LoadInvSame DEF StartThreadsPointer
<1>4. CASE StartThreadsSerial
  BY <1>4, LoadInvSame DEF StartThreadsSerial
<1>5. CASE Connect
  BY <1>5, LoadInvSame DEF Connect, LoadInv
<1>6. CASE ResetNodes \/ ResetTrains
  BY <1>6, LoadInvSame DEF ResetNodes, ResetTrains, LoadInv
<1>7. CASE CallStop
  BY <1>7, LoadInvSame DEF CallStop, LoadInv
<1>8. CASE StopSend
  <2>1. CASE write_bytes
    BY <1>8, <2>1, LoadInvSame DEF StopSend, LoadInv
  <2>2. CASE ~write_bytes
    BY <1>8, <2>2, LoadInvCrash DEF StopSend
  <2> QED
    BY <2>1, <2>2
<1>9. CASE StopTrains
  BY <1>9, LoadInvSame DEF StopTrains, LoadInv
<1>10. ASSUME NEW t \in Thread, ThreadEnds(t) PROVE LoadInv'
  <2>1. UNCHANGED configVars /\ pc' = pc
    BY <1>10 DEF ThreadEnds
  <2> QED
    BY <2>1, ConfigInvSame DEF LoadInv, configVars, tables, Empty
<1>11. CASE StopJoin
  <2>1. CASE pc' = "free" /\ UNCHANGED configVars
    BY <1>11, <2>1, LoadInvSame DEF StopJoin, LoadInv
  <2>2. CASE Fault
    BY <2>2, LoadInvCrash
  <2> QED
    BY <1>11, <2>1, <2>2 DEF StopJoin
<1>12. CASE StopFree
  <2>1. CASE NullAspects
    BY <1>12, <2>1, LoadInvCrash DEF StopFree
  <2>2. CASE ~NullAspects
    <3>1. Empty' /\ stack' = stack /\ status' = status /\ status # "parsing"
          /\ document' \in Documents
      BY <1>12, <2>2 DEF StopFree, Empty, LoadInv
    <3>2. CASE status = "loaded"
      <4>1. Freed'
        BY <3>1, <3>2 DEF LoadInv, ConfigInv, Freed
      <4> QED
        BY <3>1, <4>1, ConfigInvFreedLater DEF LoadInv
    <3>3. CASE status # "loaded"
      <4>1. ConfigInv'
        BY <3>1, <3>3 DEF ConfigInv
      <4> QED
        BY <3>1, <4>1 DEF LoadInv
    <3> QED
      BY <3>2, <3>3
  <2> QED
    BY <2>1, <2>2
<1>13. CASE UNCHANGED vars
  <2>1. UNCHANGED configVars /\ pc' = pc
    BY <1>13 DEF vars, startVars
  <2> QED
    BY <2>1, ConfigInvSame DEF LoadInv, configVars, tables, Empty
<1>14. CASE SetInitialValues
  <2>1. CASE Fault
    BY <2>1, LoadInvCrash
  <2>2. CASE UNCHANGED configVars /\ pc' \in {"stop", "started"}
    BY <1>14, <2>2, LoadInvSame DEF SetInitialValues, LoadInv
  <2> QED
    BY <1>14, <2>1, <2>2 DEF SetInitialValues
<1>15. CASE HandleReport
  BY <1>15, LoadInvCrash DEF HandleReport
<1> QED
  BY <1>1, <1>2, <1>3, <1>4, <1>5, <1>6, <1>7, <1>8, <1>9, <1>10, <1>11, <1>12, <1>13,
     <1>14, <1>15
     DEF Next, Called, GoesOn, Answered, Halt

(* Until an error, the parsers that run are nested as the collections of    *)
(* the file that are open, each has read what it has to have read where it  *)
(* is, and the state is without holes.                                      *)
THEOREM LoadInvariant == Spec => []LoadInv
BY LoadInvInit, LoadInvNext, PTL DEF Spec

(* In a configuration that has been accepted every look-up has one answer.  *)
THEOREM LookupsAreUnique == Spec => []LookupsUnique
<1>1. LoadInv => LookupsUnique
  BY InvLookups DEF LoadInv
<1> QED
  BY <1>1, LoadInvariant, PTL

(* In a configuration that has been accepted there is for each state what   *)
(* it is the state of, and everything that must have been read has been.    *)
THEOREM LinksAreComplete == Spec => []LinksComplete
<1>1. LoadInv => LinksComplete
  BY InvLinks DEF LoadInv
<1> QED
  BY <1>1, LoadInvariant, PTL

(* A parser that runs reads its own element of the file and no other.       *)
THEOREM ElementsAreOwn == Spec => []OwnElement
<1>1. LoadInv => OwnElement
  BY InvElement DEF LoadInv
<1> QED
  BY <1>1, LoadInvariant, PTL

(* While a configuration is read, only the parser of an element with an     *)
(* error follows a pointer that is NULL or has not been set.                *)
THEOREM ErrorsCrash == Spec => OnlyErrorsCrash
<1> DEFINE A == status' = "crashed" /\ status = "parsing" => Top.res = "error"
<1>1. LoadInv /\ StartInv /\ [Next]_vars => [A]_configVars
  <2> SUFFICES ASSUME LoadInv, StartInv, [Next]_vars, status = "parsing", status' = "crashed"
               PROVE  Top.res = "error"
    BY DEF A
  <2>1. pc \in {"idle", "config"} /\ threads = {} /\ status' # status
    BY DEF LoadInv, StartInv, Joinable
  <2>2. ReadConfig
    BY <2>1 DEF Next, Called, GoesOn, Answered, Halt, BeginStart, StartThreadsPointer,
       StartThreadsSerial, Connect, ResetNodes, ResetTrains, SetInitialValues, HandleReport, CallStop, StopSend, StopTrains, ThreadEnds, StopJoin, StopFree,
       vars, startVars, configVars
  <2> QED
    BY <2>2, ConfigInvNext DEF LoadInv, ReadConfig
<1> QED
  BY <1>1, LoadInvariant, StartInvariant, PTL DEF Spec, OnlyErrorsCrash
=============================================================================

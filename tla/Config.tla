------------------------------- MODULE Config --------------------------------
(****************************************************************************)
(* How the configuration is read: bidib_state_init of src/state/            *)
(* bidib_state.c with the parsers of src/parser/, which add what they read  *)
(* to the state, and bidib_state_free, which a stop runs.                   *)
(*                                                                          *)
(* libyaml turns a file into events (scalars, and the start and the end of  *)
(* sequences, mappings and the document).  Each parser is a function that   *)
(* takes events in a loop; for a nested element it calls the parser of the  *)
(* element, which goes on in the same stream.  last_scalar says how far a   *)
(* parser is: it is 2k-1 once key k has been read, and 2k after its value,  *)
(* as in the enumerations of the code.                                      *)
(****************************************************************************)
EXTENDS Integers, FiniteSets, Sequences, SequencesExt

CONSTANTS
  Documents,       \* bounds of the files, records with these fields: parser
                   \* p is given scalars of words[p], where a name is due one
                   \* of names, and lists of at most len[p] elements;
                   \* mappings have at most keys pairs
  Bytes,           \* scalars that bidib_string_to_byte converts
  Ports,           \* those of them below 32
  Bits,            \* those of them below 2
  CalibrationValues, \* those of them below 127
  Steps,           \* 14, 28 and 126
  Zero, ZeroPair,  \* 0x00 and 0x0000, bytes and ports that have not been read
  Addresses,       \* scalars that are DCC addresses
  PortPairs,       \* scalars that are ports of a peripheral
  Uids,            \* scalars that are unique ids
  BoosterUids, TrackOutputUids,   \* those with the bits of class_id
  SecAckFeature,                  \* 0x03
  CALIBRATION_STEPS,              \* 9 in the code
  NULL

ASSUME ConfigAssumption ==
  /\ Bits \subseteq Ports /\ Ports \subseteq Bytes
  /\ BoosterUids \subseteq Uids /\ TrackOutputUids \subseteq Uids
  /\ CALIBRATION_STEPS \in Nat \ {0}
  /\ NULL \notin Uids

VARIABLES
  document,        \* what the files may hold
  file,            \* the file that is read
  doc,             \* the collections of it that are open, with their lengths
  stack,           \* the parsers that run, each with last_scalar (at), in_seq
                   \* (seq), what it has read (e), and how it goes on (res)
  boards,          \* bidib_boards: id, unique id and the mappings by section
  trains,          \* bidib_trains
  track_state,     \* bidib_track_state: ids of the states, by section
  initial_values,  \* bidib_initial_values
  trains_rwlock,   \* read locks of bidib_trains_rwlock the thread holds
  status           \* "parsing", then "loaded", "rejected" or, when a parser
                   \* follows a pointer that is NULL, "crashed"

tables == <<boards, trains, track_state, initial_values, trains_rwlock>>
configVars == <<document, file, doc, stack, tables, status>>

Sections == <<"points-board", "points-dcc", "signals-board", "signals-dcc",
              "peripherals", "segments", "reversers">>
StateKinds == Range(Sections) \cup {"boosters", "track_outputs", "trains"}

----------------------------------------------------------------------------
(* The parsers of elements whose keys come in a fixed order: their keys, the*)
(* values of last_scalar at which the mapping may end, and whether scalars  *)
(* after the last key are ignored.                                          *)

AspectParser == [keys |-> <<"id", "value">>, ends |-> {4}, tolerant |-> FALSE]
PortParser == [keys |-> <<"port", "value">>, ends |-> {4}, tolerant |-> FALSE]
DccAspectParser == [keys |-> <<"id", "ports">>, ends |-> {4}, tolerant |-> FALSE]
AccessoryParser == [keys |-> <<"id", "number", "aspects", "initial">>,
                    ends |-> {6, 8}, tolerant |-> TRUE]
DccAccessoryParser == [keys |-> <<"id", "dcc-address", "extended", "aspects", "initial">>,
                       ends |-> {8, 10}, tolerant |-> FALSE]
PeripheralParser == [keys |-> <<"id", "number", "port", "aspects", "initial">>,
                     ends |-> {8, 10}, tolerant |-> TRUE]
SegmentParser == [keys |-> <<"id", "address", "length">>, ends |-> {6}, tolerant |-> TRUE]
\* Mutant: a reverser may end without a cv.
CvOptional == [keys |-> <<"id", "cv">>, ends |-> {2, 4}, tolerant |-> TRUE]
ReverserParser == [keys |-> <<"id", "cv">>, ends |-> {4}, tolerant |-> TRUE]
TrainPeripheralParser == [keys |-> <<"id", "bit", "initial">>,
                          ends |-> {4, 6}, tolerant |-> FALSE]

Elements ==
  [aspect |-> AspectParser, port |-> PortParser, dcc_aspect |-> DccAspectParser,
   accessory |-> AccessoryParser, dcc_accessory |-> DccAccessoryParser,
   peripheral |-> PeripheralParser, segment |-> SegmentParser,
   reverser |-> ReverserParser, train_peripheral |-> TrainPeripheralParser]

Parsers == {"section", "board", "setup", "train", "calibration"} \cup DOMAIN Elements

\* libyaml gives no scalar that is NULL.
ASSUME DocumentsAssumption ==
  \A d \in Documents : \A p \in Parsers : NULL \notin d.words[p]

\* Keys whose value is a list of elements, and what is NULL until it is read.
Lists == {"aspects", "ports"}
Pointers == {"id", "cv", "length", "initial"} \cup Lists

Blank(p) ==
  [k \in Range(Elements[p].keys) |->
     CASE k \in Pointers -> NULL
       [] k = "port" /\ p = "peripheral" -> ZeroPair
       [] OTHER -> Zero]

\* The parser of the elements of section s, and that of the list of parser p.
SectionParser(s) ==
  CASE s \in {"points-board", "signals-board"} -> "accessory"
    [] s \in {"points-dcc", "signals-dcc"} -> "dcc_accessory"
    [] s = "peripherals" -> "peripheral"
    [] s = "segments" -> "segment"
    [] s = "reversers" -> "reverser"
ListParser(p) ==
  CASE p \in {"accessory", "peripheral"} -> "aspect"
    [] p = "dcc_accessory" -> "dcc_aspect"
    [] p = "dcc_aspect" -> "port"

\* What a parser starts with.
NewFrame(p) ==
  [p |-> p, at |-> 0, seq |-> FALSE, res |-> "run",
   e |-> CASE p \in DOMAIN Elements -> Blank(p)
           [] p = "board" -> [id |-> NULL, uid |-> NULL, features |-> << >>,
                              secack_on |-> FALSE,
                              number |-> NULL, value |-> NULL, ready |-> TRUE]
           [] p = "train" -> [id |-> NULL, addr |-> NULL, peripherals |-> << >>]
           [] OTHER -> NULL]

Top == Last(stack)
Caller == stack[Len(stack) - 1]
Goto(frame) == stack' = Append(Front(stack), frame)
Advance(at) == Goto([Top EXCEPT !.at = at])
Wrong == Goto([Top EXCEPT !.res = "error"])
Finish == Goto([Top EXCEPT !.res = "done"])
Call(p, frame) == stack' = Append(Append(Front(stack), frame), NewFrame(p))

Key(f) == Elements[f.p].keys[(f.at + 1) \div 2]
KeyDue(f) == f.at % 2 = 0
AllKeys(f) == f.at = 2 * Len(Elements[f.p].keys)
AtList(f) == ~KeyDue(f) /\ Key(f) \in Lists

----------------------------------------------------------------------------
(* Scalars.                                                                 *)

\* A parser of elements reads a key.
ElementKey(w) ==
  /\ Top.p \in DOMAIN Elements /\ KeyDue(Top)
  /\ IF AllKeys(Top)
     THEN IF Elements[Top.p].tolerant THEN UNCHANGED stack ELSE Wrong
     ELSE IF w = Elements[Top.p].keys[Top.at \div 2 + 1] THEN Advance(Top.at + 1) ELSE Wrong
  /\ UNCHANGED tables

\* The values that are converted; train peripherals differ from each other in
\* id and bit.
Convertible(f, w) ==
  CASE Key(f) \in {"number", "address"} -> w \in Bytes
    [] Key(f) = "value" -> w \in IF f.p = "port" THEN Bits ELSE Bytes
    [] Key(f) = "extended" -> w \in Bits
    [] Key(f) = "port" -> w \in IF f.p = "port" THEN Ports ELSE PortPairs
    [] Key(f) = "dcc-address" -> w \in Addresses
    [] Key(f) = "bit" -> /\ w \in Ports
                         /\ \A t \in Range(Caller.e.peripherals) : t.bit # w /\ t.id # f.e.id
    [] OTHER -> Key(f) \notin Lists

\* Lists are allocated with the id.
Store(f, w) ==
  [k \in DOMAIN f.e |->
     IF k = Key(f) THEN w ELSE IF k \in Lists /\ f.at = 1 THEN << >> ELSE f.e[k]]

ElementValue(w) ==
  /\ Top.p \in DOMAIN Elements /\ ~KeyDue(Top) /\ Key(Top) # "initial"
  /\ IF Convertible(Top, w)
     THEN Goto([Top EXCEPT !.at = @ + 1, !.e = Store(Top, w)])
     ELSE Wrong
  /\ UNCHANGED tables

\* The section an element belongs to.
SectionOf(setup) == Sections[(setup.at - 1) \div 2]

\* An initial value is noted before it is looked up in the aspects.
InitialValue(w) ==
  /\ Top.p \in DOMAIN Elements /\ ~KeyDue(Top) /\ Key(Top) = "initial"
  /\ LET train == Top.p = "train_peripheral"
         owner == IF train THEN Caller.e.id ELSE SectionOf(Caller)
         valid == IF train THEN w \in Bits
                  ELSE \E a \in Range(Top.e["aspects"]) : a.id = w
     IN /\ initial_values' = IF valid \/ ~train
                             THEN Append(initial_values, [of |-> owner, id |-> Top.e.id, value |-> w])
                             ELSE initial_values
        /\ IF valid THEN Goto([Top EXCEPT !.at = @ + 1, !.e["initial"] = w]) ELSE Wrong
  /\ UNCHANGED <<boards, trains, track_state, trains_rwlock>>

\* The board whose setup is read has to be one of the board configuration.
BoardIndex(w) == SelectInSeq(boards, LAMBDA b : b.id = w)
BoardOfSetup(w) ==
  IF \E b \in Range(boards) : b.id = w
  THEN Goto([Top EXCEPT !.at = 2, !.e = BoardIndex(w)]) ELSE Wrong

\* The setup of a board in the track configuration: its id, then sections in
\* the order of Sections, of which any may be left out.
SetupScalar(w) ==
  /\ Top.p = "setup"
  /\ IF Top.seq THEN Wrong
     ELSE \/ Top.at = 0 /\ IF w = "id" THEN Advance(1) ELSE Wrong
          \/ Top.at = 1 /\ BoardOfSetup(w)
          \/ /\ Top.at > 1
             /\ IF \E s \in 1..Len(Sections) : KeyDue(Top) /\ Sections[s] = w /\ 2 * s + 1 > Top.at
                THEN Advance(2 * (CHOOSE s \in 1..Len(Sections) : Sections[s] = w) + 1)
                ELSE Wrong
  /\ UNCHANGED tables

\* A board with the class bits gets a booster and a track output.
BoardUid(w) ==
  /\ Goto([Top EXCEPT !.at = 4, !.e.uid = w])
  /\ track_state' =
       [track_state EXCEPT
          !["boosters"] = IF w \in BoosterUids THEN Append(@, Top.e.id) ELSE @,
          !["track_outputs"] = IF w \in TrackOutputUids THEN Append(@, Top.e.id) ELSE @]

\* id, unique-id and features of a board; last_scalar is 0 to 5 for them.
BoardHeadScalar(w) ==
  /\ Top.p = "board" /\ ~Top.seq
  /\ CASE Top.at = 1 -> Goto([Top EXCEPT !.at = 2, !.e.id = w]) /\ UNCHANGED track_state
       [] Top.at = 3 /\ w \in Uids -> BoardUid(w)
       [] Top.at \in {0, 2, 4} /\ w = <<"id", "unique-id", "features">>[Top.at \div 2 + 1] ->
            Advance(Top.at + 1) /\ UNCHANGED track_state
       [] OTHER -> Wrong /\ UNCHANGED track_state
  /\ UNCHANGED <<boards, trains, initial_values, trains_rwlock>>

\* A feature, with last_scalar 6 to 9; the number of a feature is not one of
\* another feature of the board.
BoardFeatureScalar(w) ==
  /\ Top.p = "board" /\ Top.seq
  /\ CASE Top.at \in {5, 9} /\ w = "number" /\ Top.e.ready ->
            Goto([Top EXCEPT !.at = 6, !.e.ready = FALSE])
       [] Top.at = 6 /\ w \in Bytes \ Range(Top.e.features) ->
            Goto([Top EXCEPT !.at = 7, !.e.number = w])
       [] Top.at = 7 /\ w = "value" -> Advance(8)
       [] Top.at = 8 /\ w \in Bytes -> Goto([Top EXCEPT !.at = 9, !.e.value = w])
       [] OTHER -> Wrong
  /\ UNCHANGED tables

\* A train; in a list its scalars are read by other parsers.
TrainKeys == <<"id", "dcc-address", "dcc-speed-steps", "calibration", "peripherals">>

TrainScalar(w) ==
  /\ Top.p = "train"
  /\ CASE Top.seq -> Wrong
       [] ~Top.seq /\ Top.at = 1 -> Goto([Top EXCEPT !.at = 2, !.e.id = w])
       [] ~Top.seq /\ Top.at = 3 /\ w \in Addresses -> Goto([Top EXCEPT !.at = 4, !.e.addr = w])
       [] ~Top.seq /\ Top.at = 5 /\ w \in Steps -> Advance(6)
       [] ~Top.seq /\ Top.at \in {0, 2, 4, 6, 8} /\ w = TrainKeys[Top.at \div 2 + 1] ->
            Advance(Top.at + 1)
       [] ~Top.seq /\ Top.at = 6 /\ w = "peripherals" -> Advance(9)
       [] ~Top.seq /\ Top.at \in {7, 9, 10} -> UNCHANGED stack
       [] OTHER -> Wrong
  /\ UNCHANGED tables

\* Here last_scalar counts the values.
CalibrationScalar(w) ==
  /\ Top.p = "calibration"
  /\ IF w \notin CalibrationValues THEN Wrong
     ELSE IF Top.at + 1 = CALIBRATION_STEPS
          THEN Goto([Top EXCEPT !.at = @ + 1, !.res = "done"]) ELSE Advance(Top.at + 1)
  /\ UNCHANGED tables

\* bidib_config_parse_scalar_then_section: the word, then a list of elements.
\* last_scalar is 1 when the word has been read, and 2 in and after the list.
SectionWord == [board |-> "boards", track |-> "boards", train |-> "trains"]
SectionElement == [board |-> "board", track |-> "setup", train |-> "train"]

SectionScalar(w) ==
  /\ Top.p = "section"
  /\ IF Top.at = 0 /\ w = SectionWord[file] THEN Advance(1) ELSE Wrong
  /\ UNCHANGED tables

----------------------------------------------------------------------------
(* Sequences and mappings.                                                  *)

\* The parsers of elements with a list take one sequence, wherever it starts.
ElementSequenceStart ==
  /\ Top.p \in DOMAIN Elements
  /\ IF Range(Elements[Top.p].keys) \cap Lists = {} \/ Top.seq
     THEN Wrong ELSE Goto([Top EXCEPT !.seq = TRUE])

\* Mutant: a list may be empty.
EmptyList ==
  /\ Top.p \in DOMAIN Elements
  /\ IF Top.seq /\ AtList(Top) THEN Goto([Top EXCEPT !.at = @ + 1, !.seq = FALSE]) ELSE Wrong
\* A list has at least one element.
ElementSequenceEnd ==
  /\ Top.p \in DOMAIN Elements
  /\ IF Top.seq /\ AtList(Top) /\ Top.e[Key(Top)] # << >>
     THEN Goto([Top EXCEPT !.at = @ + 1, !.seq = FALSE]) ELSE Wrong

ElementMappingStart ==
  /\ Top.p \in DOMAIN Elements
  /\ IF Top.seq /\ AtList(Top) THEN Call(ListParser(Top.p), Top) ELSE Wrong

ElementMappingEnd ==
  /\ Top.p \in DOMAIN Elements
  /\ IF ~Top.seq /\ Top.at \in Elements[Top.p].ends THEN Finish ELSE Wrong

SetupSequenceStart ==
  /\ Top.p = "setup"
  /\ IF Top.seq THEN Wrong ELSE Goto([Top EXCEPT !.seq = TRUE])

\* Mutant: in_seq is not reset.
StillInSeq ==
  /\ Top.p = "setup"
  /\ IF Top.seq /\ Top.at >= 3 /\ ~KeyDue(Top) THEN Advance(Top.at + 1) ELSE Wrong
SetupSequenceEnd ==
  /\ Top.p = "setup"
  /\ IF Top.seq /\ Top.at >= 3 /\ ~KeyDue(Top)
     THEN Goto([Top EXCEPT !.at = @ + 1, !.seq = FALSE]) ELSE Wrong

SetupMappingStart ==
  /\ Top.p = "setup"
  /\ IF Top.seq /\ Top.at >= 3 /\ ~KeyDue(Top)
     THEN Call(SectionParser(SectionOf(Top)), Top) ELSE Wrong

\* Every end of a mapping is the end of the setup.
SetupMappingEnd == Top.p = "setup" /\ Finish

BoardSequenceStart ==
  /\ Top.p = "board"
  /\ IF Top.at = 5 /\ ~Top.seq THEN Goto([Top EXCEPT !.seq = TRUE]) ELSE Wrong

BoardSequenceEnd ==
  /\ Top.p = "board"
  /\ IF Top.seq THEN UNCHANGED stack ELSE Wrong

BoardMappingStart ==
  /\ Top.p = "board"
  /\ IF Top.seq THEN UNCHANGED stack ELSE Wrong

\* After the start of the list, the end of a mapping ends a feature if one is
\* being read, and the board if none is.
BoardMappingEnd ==
  /\ Top.p = "board"
  /\ CASE Top.seq /\ Top.e.ready -> Finish
       [] Top.seq /\ ~Top.e.ready /\ Top.at = 9 ->
            Goto([Top EXCEPT !.e.features = Append(@, Top.e.number), !.e.ready = TRUE,
                    !.e.secack_on = @ \/ (Top.e.number = SecAckFeature /\ Top.e.value # Zero)])
       [] ~Top.seq /\ Top.at >= 4 -> Finish
       [] OTHER -> Wrong

TrainSequenceStart ==
  /\ Top.p = "train"
  /\ CASE ~Top.seq /\ Top.at = 7 -> Call("calibration", [Top EXCEPT !.seq = TRUE])
       [] ~Top.seq /\ Top.at = 9 -> Goto([Top EXCEPT !.seq = TRUE])
       [] OTHER -> Wrong

TrainSequenceEnd ==
  /\ Top.p = "train"
  /\ IF Top.seq THEN Goto([Top EXCEPT !.at = @ + 1, !.seq = FALSE]) ELSE Wrong

TrainMappingStart ==
  /\ Top.p = "train"
  /\ IF Top.seq /\ Top.at = 9 THEN Call("train_peripheral", Top) ELSE Wrong

\* Calibration values alone do not end a train: peripherals have to follow.
TrainMappingEnd ==
  /\ Top.p = "train"
  /\ IF Top.at \in {6, 10} THEN Finish ELSE Wrong

CalibrationOther == Top.p = "calibration" /\ Wrong

SectionSequenceStart ==
  /\ Top.p = "section"
  /\ IF Top.at = 1 THEN Advance(2) ELSE Wrong

SectionEnd ==
  /\ Top.p = "section"
  /\ IF Top.at = 2 THEN UNCHANGED stack ELSE Wrong

SectionMappingStart ==
  /\ Top.p = "section"
  /\ CASE Top.at = 0 -> UNCHANGED stack
       [] Top.at = 1 -> Wrong
       [] Top.at = 2 -> Call(SectionElement[file], Top)

----------------------------------------------------------------------------
(* The events of a file.  Keys are scalars.                                 *)

Reading == status = "parsing" /\ stack # << >> /\ Top.res = "run"

\* A node may begin: a value, an element, or the node of the document; or a key.
ValueFits ==
  /\ doc # << >>
  /\ \/ Last(doc).k = "document" /\ Last(doc).n = 0
     \/ Last(doc).k = "sequence" /\ Last(doc).n < document.len[Top.p]
     \/ Last(doc).k = "mapping" /\ Last(doc).n % 2 = 1
KeyFits ==
  doc # << >> /\ Last(doc).k = "mapping" /\ Last(doc).n % 2 = 0 /\ Last(doc).n < 2 * document.keys
Closed == <<[k |-> "closed", n |-> 0]>>
Counted == Append(Front(doc), [Last(doc) EXCEPT !.n = @ + 1])

\* After an error nothing more is read of the file.
Forward(d) == doc' = IF Last(stack').res = "error" THEN << >> ELSE d

\* Where any word would do, as an id, names are enough.
Sensible(w) ==
  (Top.p \in DOMAIN Elements /\ ~KeyDue(Top) /\ Key(Top) \in {"id", "cv", "length"})
    \/ (Top.p \in {"board", "train"} /\ Top.at = 1) => w \in document.names

Scalar(w) ==
  /\ Reading /\ (ValueFits \/ KeyFits) /\ Sensible(w)
  /\ \/ ElementKey(w) \/ ElementValue(w) \/ InitialValue(w)
     \/ SetupScalar(w) \/ BoardHeadScalar(w) \/ BoardFeatureScalar(w)
     \/ TrainScalar(w) \/ CalibrationScalar(w) \/ SectionScalar(w)
  /\ Forward(Counted)
  /\ UNCHANGED <<document, file, status>>

SequenceStart ==
  /\ Reading /\ ValueFits
  /\ \/ ElementSequenceStart \/ SetupSequenceStart \/ BoardSequenceStart
     \/ TrainSequenceStart \/ CalibrationOther \/ SectionSequenceStart
  /\ Forward(Append(Counted, [k |-> "sequence", n |-> 0]))
  /\ UNCHANGED <<document, file, tables, status>>

SequenceEnd ==
  /\ Reading /\ doc # << >> /\ Last(doc).k = "sequence"
  /\ \/ ElementSequenceEnd \/ SetupSequenceEnd \/ BoardSequenceEnd
     \/ TrainSequenceEnd \/ CalibrationOther \/ SectionEnd
  /\ Forward(Front(doc))
  /\ UNCHANGED <<document, file, tables, status>>

MappingStart ==
  /\ Reading /\ ValueFits
  /\ \/ ElementMappingStart \/ SetupMappingStart \/ BoardMappingStart
     \/ TrainMappingStart \/ CalibrationOther \/ SectionMappingStart
  /\ Forward(Append(Counted, [k |-> "mapping", n |-> 0]))
  /\ UNCHANGED <<document, file, tables, status>>

MappingEnd ==
  /\ Reading /\ doc # << >> /\ Last(doc).k = "mapping" /\ Last(doc).n % 2 = 0
  /\ \/ ElementMappingEnd \/ SetupMappingEnd \/ BoardMappingEnd
     \/ TrainMappingEnd \/ SectionEnd
  /\ Forward(Front(doc))
  /\ UNCHANGED <<document, file, tables, status>>

\* The document of a file; a file without one is accepted.
DocumentStart ==
  /\ Reading /\ doc = << >>
  /\ IF Top.p = "section" /\ Top.at = 0 THEN UNCHANGED stack ELSE Wrong
  /\ Forward(<<[k |-> "document", n |-> 0]>>)
  /\ UNCHANGED <<document, file, tables, status>>

DocumentEnd ==
  /\ Reading /\ doc # << >> /\ Last(doc).k = "document" /\ Last(doc).n = 1
  /\ IF Top.p = "section" THEN SectionEnd ELSE Wrong
  /\ Forward(Closed)
  /\ UNCHANGED <<document, file, tables, status>>

StreamEnd ==
  /\ Reading /\ doc \in {<< >>, Closed}
  /\ IF Top.p = "section" THEN Finish ELSE Wrong
  /\ doc' = << >>
  /\ UNCHANGED <<document, file, tables, status>>

\* A file that is not YAML, or an alias in it.
NotYaml ==
  /\ Reading
  /\ Wrong /\ doc' = << >>
  /\ UNCHANGED <<document, file, tables, status>>

----------------------------------------------------------------------------
(* What a parser does after its loop, and the return to its caller.         *)

\* bidib_state_add_*: what they compare with.
PointIds == Range(track_state["points-board"]) \cup Range(track_state["points-dcc"])
SignalIds == Range(track_state["signals-board"]) \cup Range(track_state["signals-dcc"])
Exists(s, id) ==
  id \in CASE s \in {"points-board", "points-dcc"} -> PointIds
           [] s \in {"signals-board", "signals-dcc"} -> SignalIds
           [] OTHER -> Range(track_state[s])

bidib_state_dcc_addr_in_use(addr) ==
  \/ \E b \in Range(boards) :
       \E m \in Range(b.parts["points-dcc"]) \cup Range(b.parts["signals-dcc"]) :
         m["dcc-address"] = addr
  \/ \E t \in Range(trains) : t.addr = addr

Ended(p) == status = "parsing" /\ stack # << >> /\ Top.p = p /\ Top.res # "run"

\* Back to the caller, which goes on, with f, unless there has been an error.
Return(error, f) ==
  stack' = Append(SubSeq(stack, 1, Len(stack) - 2), IF error THEN [f EXCEPT !.res = "error"] ELSE f)

Crash == status' = "crashed" /\ stack' = << >> /\ UNCHANGED tables

Leaving == UNCHANGED <<document, file, doc>>

AddTo(list, x) == [Caller EXCEPT !.e[list] = Append(@, x)]

\* Aspects of a list differ in id and value.  The comparison with the others
\* reads the id, which is NULL if there was an error before it.
LeaveAspect ==
  /\ Ended("aspect")
  /\ LET others == Range(Caller.e["aspects"])
         same == \E a \in others : a.value = Top.e.value \/ a.id = Top.e.id
     IN IF Top.e.id = NULL /\ others # {}
        THEN Crash
        ELSE /\ Return(Top.res = "error" \/ same, AddTo("aspects", Top.e))
             /\ UNCHANGED <<tables, status>>
  /\ Leaving

LeavePort ==
  /\ Ended("port")
  /\ Return(Top.res = "error" \/ \E v \in Range(Caller.e["ports"]) : v.port = Top.e.port,
            AddTo("ports", Top.e))
  /\ UNCHANGED <<tables, status>> /\ Leaving

\* One aspect says the same as another: the same id, or its ports are all
\* ports of the other, with the same values.
dcc_aspects_equal(a, other) ==
  a.id = other.id \/ \A v \in Range(a["ports"]) : \E o \in Range(other["ports"]) :
                        o.port = v.port /\ o.value = v.value

LeaveDccAspect ==
  /\ Ended("dcc_aspect")
  /\ LET others == Range(Caller.e["aspects"])
     IN IF Top.e.id = NULL /\ others # {}
        THEN Crash
        ELSE /\ Return(Top.res = "error" \/ \E a \in others : dcc_aspects_equal(Top.e, a),
                       AddTo("aspects", Top.e))
             /\ UNCHANGED <<tables, status>>
  /\ Leaving

\* The mapping of the element goes to the section of the board.
Board == Caller.e
WithMapping(s) == [boards EXCEPT ![Board].parts[s] = Append(@, Top.e)]
WithState(s) == [track_state EXCEPT ![s] = Append(@, Top.e.id)]
Mappings(s) == Range(boards[Board].parts[s])

\* The elements of the board clash with the new one, which is then named in
\* the log by its id; the mapping is added all the same, and the state
\* if there was no error and no element of any board has the id.
AddElement(s, clash) ==
  LET failed == Top.res = "error" \/ clash \/ Exists(s, Top.e.id) IN
  /\ boards' = WithMapping(s)
  /\ track_state' = IF failed THEN track_state ELSE WithState(s)
  /\ Return(failed, Caller)
  /\ UNCHANGED <<trains, initial_values, trains_rwlock, status>>

LeaveAccessory ==
  /\ Ended("accessory")
  /\ LET s == SectionOf(Caller)
         clash == \E m \in Mappings(s) : m.number = Top.e.number
     IN IF clash /\ Top.e.id = NULL THEN Crash ELSE AddElement(s, clash)
  /\ Leaving

\* Mutant: DCC addresses are not compared.
NoAddressCheck(s, addr) == Exists(s, Top.e.id)
\* bidib_state_add_dcc_point_state and _signal_state refuse a state.
DccRefused(s, addr) == Exists(s, Top.e.id) \/ bidib_state_dcc_addr_in_use(addr)

\* Mutant: they never unlock.
NeverUnlocked(refused) == trains_rwlock + 1
\* Then they do not unlock bidib_trains_rwlock.
LocksLeft(refused) == IF refused THEN trains_rwlock + 1 ELSE trains_rwlock

LeaveDccAccessory ==
  /\ Ended("dcc_accessory")
  /\ LET s == SectionOf(Caller)
         refused == Top.res = "done" /\ DccRefused(s, Top.e["dcc-address"])
         failed == Top.res = "error" \/ refused
     IN /\ boards' = WithMapping(s)
        /\ track_state' = IF failed THEN track_state ELSE WithState(s)
        /\ trains_rwlock' = LocksLeft(refused)
        /\ Return(failed, Caller)
  /\ UNCHANGED <<trains, initial_values, status>> /\ Leaving

LeavePeripheral ==
  /\ Ended("peripheral")
  /\ LET clash == \E m \in Mappings("peripherals") : m.port = Top.e.port \/ m.number = Top.e.number
     IN IF clash /\ Top.e.id = NULL THEN Crash ELSE AddElement("peripherals", clash)
  /\ Leaving

\* segment_state.length is not initialised: when an error comes before it is
\* read, the state is freed with whatever the pointer holds.
LeaveSegment ==
  /\ Ended("segment")
  /\ LET clash == \E m \in Mappings("segments") : m.address = Top.e.address
     IN \/ ~(clash /\ Top.e.id = NULL) /\ AddElement("segments", clash)
        \/ /\ \/ clash /\ Top.e.id = NULL
              \/ Top.res = "error" /\ Top.e.length = NULL
           /\ Crash
  /\ Leaving

LeaveReverser ==
  /\ Ended("reverser")
  /\ IF Top.e.cv = NULL /\ Mappings("reversers") # {}
     THEN Crash
     ELSE AddElement("reversers", \E m \in Mappings("reversers") : m.cv = Top.e.cv)
  /\ Leaving

LeaveTrainPeripheral ==
  /\ Ended("train_peripheral")
  /\ Return(Top.res = "error",
            [Caller EXCEPT !.e.peripherals = Append(@, [id |-> Top.e.id, bit |-> Top.e.bit])])
  /\ UNCHANGED <<tables, status>> /\ Leaving

LeaveCalibration ==
  /\ Ended("calibration")
  /\ Return(Top.res = "error", Caller)
  /\ UNCHANGED <<tables, status>> /\ Leaving

LeaveSetup ==
  /\ Ended("setup")
  /\ Return(Top.res = "error", Caller)
  /\ UNCHANGED <<tables, status>> /\ Leaving

\* A board in error is freed, and its arrays are NULL until the id is read.
LeaveBoard ==
  /\ Ended("board")
  /\ LET b == [id |-> Top.e.id, uid |-> Top.e.uid, secack_on |-> Top.e.secack_on,
               features |-> Range(Top.e.features), parts |-> [s \in Range(Sections) |-> << >>]]
         known == \E o \in Range(boards) : o.id = b.id \/ o.uid = b.uid
         failed == Top.res = "error" \/ known
     IN IF Top.res = "error" /\ b.id = NULL
        THEN Crash
        ELSE /\ boards' = IF failed THEN boards ELSE Append(boards, b)
             /\ Return(failed, Caller)
             /\ UNCHANGED <<trains, track_state, initial_values, trains_rwlock, status>>
  /\ Leaving

LeaveTrain ==
  /\ Ended("train")
  /\ LET failed == \/ Top.res = "error"
                   \/ bidib_state_dcc_addr_in_use(Top.e.addr)
                   \/ \E t \in Range(trains) : t.id = Top.e.id
     IN /\ trains' = IF failed THEN trains ELSE Append(trains, Top.e)
        /\ track_state' = IF failed \/ Top.e.id \in Range(track_state["trains"])
                          THEN track_state ELSE [track_state EXCEPT !["trains"] = Append(@, Top.e.id)]
        /\ Return(failed, Caller)
  /\ UNCHANGED <<boards, initial_values, trains_rwlock, status>> /\ Leaving

\* The files are read in the order board, track, train, up to the first error.
LeaveSection ==
  /\ Ended("section")
  /\ IF Top.res = "error"
     THEN status' = "rejected" /\ stack' = << >> /\ UNCHANGED file
     ELSE IF file = "train"
          THEN status' = "loaded" /\ stack' = << >> /\ UNCHANGED file
          ELSE /\ file' = IF file = "board" THEN "track" ELSE "train"
               /\ stack' = <<NewFrame("section")>> /\ UNCHANGED status
  /\ UNCHANGED <<document, doc, tables>>

----------------------------------------------------------------------------
Empty ==
  /\ boards = << >> /\ trains = << >> /\ initial_values = << >>
  /\ track_state = [k \in StateKinds |-> << >>]

ConfigInit ==
  /\ document \in Documents
  /\ file = "board" /\ doc = << >> /\ stack = <<NewFrame("section")>>
  /\ Empty /\ trains_rwlock = 0 /\ status = "parsing"

Leave ==
  \/ LeaveAspect \/ LeavePort \/ LeaveDccAspect \/ LeaveAccessory \/ LeaveDccAccessory
  \/ LeavePeripheral \/ LeaveSegment \/ LeaveReverser \/ LeaveTrainPeripheral
  \/ LeaveCalibration \/ LeaveSetup \/ LeaveBoard \/ LeaveTrain \/ LeaveSection

Event ==
  \/ Reading /\ \E w \in document.words[Top.p] : Scalar(w)
  \/ SequenceStart \/ SequenceEnd \/ MappingStart \/ MappingEnd
  \/ DocumentStart \/ DocumentEnd \/ StreamEnd \/ NotYaml

ConfigNext == Event \/ Leave

----------------------------------------------------------------------------
(* Properties.                                                              *)

Loaded == status = "loaded"

\* The elements of the sections S of all boards, by their places.
Places(S) ==
  UNION {{<<b, s, i>> : i \in DOMAIN boards[b].parts[s]} : b \in DOMAIN boards, s \in S}
Parts(S) == [x \in Places(S) |-> boards[x[1]].parts[x[2]][x[3]]]
Field(f, k) == [x \in DOMAIN f |-> f[x][k]]
Once(f, k) == IsInjective(Field(f, k))

Points == {"points-board", "points-dcc"}
Signals == {"signals-board", "signals-dcc"}
Dcc == {"points-dcc", "signals-dcc"}

\* What one board numbers.
BoardLookupsUnique(b) ==
  /\ Once(b.parts["points-board"], "number")
  /\ Once(b.parts["signals-board"], "number")
  /\ Once(b.parts["peripherals"], "number")
  /\ Once(b.parts["peripherals"], "port")
  /\ Once(b.parts["segments"], "address")
  /\ Once(b.parts["reversers"], "cv")

\* In a configuration that has been accepted every look-up has one answer: the
\* ids of each kind differ, as do the DCC addresses of trains, points and
\* signals of all boards, and what a board numbers (bidib_state_add_*, and the
\* comparisons at the end of the parsers, each with a part of the state only).
LookupsUnique ==
  Loaded =>
    /\ Once(boards, "id") /\ Once(boards, "uid") /\ Once(trains, "id")
    /\ Once(Parts(Points), "id") /\ Once(Parts(Signals), "id")
    /\ \A s \in {"peripherals", "segments", "reversers"} : Once(Parts({s}), "id")
    /\ Once(Parts(Dcc), "dcc-address") /\ Once(trains, "addr")
    /\ Range(Field(Parts(Dcc), "dcc-address")) \cap Range(Field(trains, "addr")) = {}
    /\ \A b \in Range(boards) : BoardLookupsUnique(b)

\* Every key of a mapping that is needed has been read.
Complete(m) ==
  /\ \A k \in DOMAIN m \ ({"initial"} \cup Lists) : m[k] # NULL
  /\ "aspects" \in DOMAIN m =>
       /\ Len(m["aspects"]) > 0
       /\ Once(m["aspects"], "id")
       /\ m["initial"] \in {NULL} \cup Range(Field(m["aspects"], "id"))

BoosterIds == {b.id : b \in {o \in Range(boards) : o.uid \in BoosterUids}}

\* An accepted configuration has no holes: each element has a state and each
\* state an element, every key that is needed has been read, and the initial
\* values are aspects of elements that exist.  The getters and setters follow
\* these links without a check.
LinksComplete ==
  Loaded =>
    /\ \A s \in Range(Sections) : Range(Field(Parts({s}), "id")) = Range(track_state[s])
    /\ Range(Field(trains, "id")) = Range(track_state["trains"])
    /\ Range(track_state["boosters"]) = BoosterIds
    /\ \A m \in Range(Parts(Range(Sections))) : Complete(m)
    /\ \A t \in Range(trains) : t.id # NULL /\ t.addr # NULL /\ Once(t.peripherals, "bit")
    /\ \A v \in Range(initial_values) :
         \/ v.of \in Range(Sections) /\ v.id \in Range(track_state[v.of])
         \/ v.of \in Range(track_state["trains"])

\* Every parser works on the element it has been called for, however wrong the
\* file is: the parsers that run are as many as the mappings that are open
\* (calibration values have none), those in a list as many as the sequences.  So nothing is
\* taken for a part of another element.  The file of the boards is left out:
\* in it the parser of a board also reads the mappings of the features, and
\* takes the end of an empty one for the end of the board.
Open(kind) == Cardinality({i \in DOMAIN doc : doc[i].k = kind})
OwnElement ==
  Reading /\ file # "board" =>
    /\ IF Top.p = "section" THEN Open("mapping") <= 1
       ELSE Open("mapping") = Cardinality({i \in DOMAIN stack : stack[i].p # "calibration"})
    /\ Top.p # "section" =>
         Open("sequence") = 1 + Cardinality({i \in DOMAIN stack : stack[i].seq})

\* A parser follows a pointer that is NULL, or has not been set, only after an
\* error in the element: a file without errors does not end the program.
OnlyErrorsCrash ==
  [][status' = "crashed" /\ status = "parsing" => Top.res = "error"]_configVars
=============================================================================

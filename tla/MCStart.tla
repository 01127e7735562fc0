------------------------------ MODULE MCStart --------------------------------
(* Instances of Start:  what the files may hold, one group of parsers at a  *)
(* time.  "x" is a word that fits nowhere.                                  *)
EXTENDS Start

\* Files with words[p] for the parsers given, and none for the others.
Files(words, len, names) ==
  [words |-> [p \in Parsers |-> IF p \in DOMAIN words THEN words[p] ELSE {}],
   len |-> [p \in Parsers |-> IF p \in DOMAIN len THEN len[p] ELSE 1],
   names |-> names, keys |-> 5, starts |-> 1, ways |-> {<<"serial", FALSE>>}]

KeysOf(p) == Range(Elements[p].keys)
OneBoard(sections) ==
  [section |-> {"boards", "trains"}, board |-> {"id", "unique-id", "b1", "u1"},
   setup |-> {"id", "b1"} \cup sections]

\* Two boards and their setups.
BoardFiles ==
  Files([section |-> {"boards", "x"},
         board |-> {"id", "unique-id", "b1", "b2", "u1", "u2", "x"},
         setup |-> {"id", "b1", "b2"}],
        [section |-> 2], {"b1", "b2"})

\* The features of a board.
FeatureFiles ==
  Files([OneBoard({}) EXCEPT !.board = @ \cup {"features", "number", "value", "0", "3", "x"}],
        [board |-> 2], {"b1"})

\* Points and signals of a board.
PointFiles ==
  Files(OneBoard({"points-board", "signals-board"})
        @@ [accessory |-> KeysOf("accessory") \cup {"p1", "p2", "0", "1"},
            aspect |-> {"id", "value", "p1", "0"}],
        [setup |-> 2], {"b1", "p1", "p2"})

\* Aspects of a point.
AspectFiles ==
  Files(OneBoard({"points-board"})
        @@ [accessory |-> KeysOf("accessory") \cup {"p1", "p2", "0"},
            aspect |-> {"id", "value", "p1", "p2", "0", "1", "x"}],
        [accessory |-> 3], {"b1", "p1", "p2"})

\* DCC accessories and trains.
DccFiles ==
  Files(OneBoard({"points-dcc", "signals-dcc"})
        @@ [dcc_accessory |-> KeysOf("dcc_accessory") \cup {"p1", "p2", "0", "a1", "a2"},
            dcc_aspect |-> {"id", "ports", "p1"}, port |-> {"port", "value", "0"},
            train |-> Range(TrainKeys) \cup {"p1", "p2", "a1", "a2", "14"}],
        [section |-> 2], {"b1", "p1", "p2"})

\* Aspects of a DCC accessory.
DccAspectFiles ==
  Files(OneBoard({"points-dcc"})
        @@ [dcc_accessory |-> KeysOf("dcc_accessory") \cup {"p1", "0", "a1"},
            dcc_aspect |-> {"id", "ports", "p1", "p2"},
            port |-> {"port", "value", "0", "1"}],
        [dcc_accessory |-> 2, dcc_aspect |-> 2], {"b1", "p1", "p2"})

\* Peripherals.
PeripheralFiles ==
  Files(OneBoard({"peripherals"})
        @@ [peripheral |-> KeysOf("peripheral") \cup {"p1", "p2", "0", "1", "00", "01"},
            aspect |-> {"id", "value", "p1", "0"}],
        [setup |-> 2], {"b1", "p1", "p2"})

\* Segments and reversers.
SegmentFiles ==
  Files(OneBoard({"segments", "reversers"})
        @@ [segment |-> KeysOf("segment") \cup {"p1", "p2", "0", "1"},
            reverser |-> KeysOf("reverser") \cup {"p1", "p2"}],
        [setup |-> 2], {"b1", "p1", "p2"})

\* A train with calibration values and peripherals.
TrainFiles ==
  Files([section |-> {"trains"},
         train |-> Range(TrainKeys) \cup {"t1", "a1", "14", "x"},
         calibration |-> {"0", "2"},
         train_peripheral |-> KeysOf("train_peripheral") \cup {"p1", "p2", "0", "1", "2"}],
        [train |-> 2, calibration |-> 3], {"t1", "p1", "p2"})

\* Small files, and all ways to start the library with them, twice.
LifeFiles ==
  [Files([OneBoard({"points-dcc"}) EXCEPT !.section = @ \cup {"x"}]
         @@ [dcc_accessory |-> KeysOf("dcc_accessory") \cup {"p1", "0", "a1"},
             dcc_aspect |-> {"id", "ports", "p1"}, port |-> {"port", "value", "0"}],
         [setup |-> 2], {"b1", "p1"})
   EXCEPT !.starts = 2, !.ways = {"pointer", "serial"} \X BOOLEAN]

\* Points of two boards that the library is started with although they are wrong.
UnfinishedFiles ==
  [Files([section |-> {"boards", "x"}, board |-> {"id", "unique-id", "b1", "b2", "u1", "u2"},
          setup |-> {"id", "b1", "b2", "points-board"},
          accessory |-> KeysOf("accessory") \cup {"p1", "0"},
          aspect |-> {"id", "value", "p1", "0"}],
         [section |-> 2], {"b1", "b2", "p1"})
   EXCEPT !.ways = {<<"pointer", FALSE>>}]

MCDocuments == {BoardFiles, FeatureFiles, PointFiles, AspectFiles, DccFiles,
                DccAspectFiles, PeripheralFiles, SegmentFiles, TrainFiles, LifeFiles,
                UnfinishedFiles}
=============================================================================

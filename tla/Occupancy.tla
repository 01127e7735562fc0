------------------------------ MODULE Occupancy -------------------------------
(****************************************************************************)
(* Which segments of the track are occupied, and by which trains: what the  *)
(* boards report (MSG_BM_OCC, _FREE, _MULTIPLE, _ADDRESS), what the handlers*)
(* of src/state/bidib_state_setter.c make of it, and where the library      *)
(* then says that a train is (bidib_state_update_train_available).          *)
(*                                                                          *)
(* The line may lose messages.  A board with the feature SecAck repeats the *)
(* occupancy of a segment until the receiver has sent back what it reported *)
(* (MSG_BM_MIRROR_OCC and others); addresses are never repeated.  A board   *)
(* that is taken off and put back begins anew, without its features.        *)
(*                                                                          *)
(* Each handler holds bidib_trains_rwlock and the mutexes of segments and   *)
(* trains to its end, as the getters do (Locks), so that it is one step.    *)
(****************************************************************************)
EXTENDS Integers, FiniteSets, SequencesExt

CONSTANTS
  Segments,        \* ids of the segments, in the order of bidib_track_state
  BoardOf,         \* BoardOf[s]: the board of segment s
  DccMain,         \* boards with bit 4 of class_id, class_dcc_main
  SecAck,          \* boards with secack_on
  Train,           \* trains, each with one decoder
  MaxMoves,        \* bound: moves of trains
  MaxFaults,       \* bound: messages lost and boards taken off
  MaxLine          \* bound: reports and mirror messages on the line

Segment == Range(Segments)
Board == {BoardOf[s] : s \in Segment}
Orientation == {"left", "right"}

ASSUME OccupancyAssumption ==
  /\ Segments \in Seq(Segment) /\ Len(Segments) = Cardinality(Segment)
  /\ DccMain \subseteq Board /\ SecAck \subseteq Board

VARIABLES
  reset,           \* bidib_send_sys_reset: "reset" done, system "enabled",
                   \* occupancy "queried"
  connected,       \* boards that are connected
  occupied,        \* occupied[s]
  dcc_addresses,   \* dcc_addresses[s]: decoders with their orientations
  on_track, orientation,   \* of the trains
  uplink,          \* reports the receiver has not handled
  mirrors,         \* mirror messages on their way to the boards
  at, facing,      \* at[t]: segments train t stands on
  plugged,         \* boards that are on the bus
  secure,          \* boards that expect mirror messages
  untold,          \* untold[b]: reports <<kind, segments>> board b has yet to send
  unmirrored,      \* segments whose last report has not been mirrored
  told,            \* history: what has been reported
  missing,         \* history: reports and mirror messages lost, of which no
                   \* later one has arrived
  moves, faults    \* history: how often a train moved, and something failed

host == <<reset, connected, occupied, dcc_addresses, on_track, orientation>>
track == <<at, facing>>
boards == <<plugged, secure, untold, unmirrored, told>>
history == <<missing, moves, faults>>
vars == <<host, uplink, mirrors, track, boards, history>>

SegmentsOf(b) == {s \in Segment : BoardOf[s] = b}

----------------------------------------------------------------------------
(* The state of the trains.                                                 *)

\* Where a segment reports train t (bidib_get_train_position_intern), and what
\* the last of these segments says of it.
Position(t, a) == {k \in DOMAIN Segments : \E e \in a[Segments[k]] : e.of = t}
Facing(t, a) == (CHOOSE e \in a[Segments[Max(Position(t, a))]] : e.of = t).type

Turn(a) ==
  orientation' = [t \in Train |-> IF Position(t, a) = {} THEN orientation[t] ELSE Facing(t, a)]

\* Mutant: a train that no segment reports is still on the track.
UpdateFound(a) ==
  /\ on_track' = [t \in Train |-> on_track[t] \/ Position(t, a) # {}]
  /\ Turn(a)

\* bidib_state_update_train_available, with the addresses a.
UpdateTrains(a) ==
  /\ on_track' = [t \in Train |-> Position(t, a) # {}]
  /\ Turn(a)

----------------------------------------------------------------------------
(* The receiver.                                                            *)

Incoming(types) == uplink # << >> /\ Head(uplink).type \in types /\ uplink' = Tail(uplink)

\* What has been reported on r arrives.
Arrived(r) == missing' = missing \ r

\* Mutant: what is free is not mirrored.
MirrorOccupied(m) ==
  mirrors' = IF m.board \in connected \cap SecAck /\ m.occ # {} THEN Append(mirrors, m) ELSE mirrors

\* After a report the receiver looks up the board again, for secack_on.
Mirror(m) ==
  mirrors' = IF m.board \in connected \cap SecAck THEN Append(mirrors, m) ELSE mirrors

\* Mutant: what is not occupied stays as it is.
OccupyOnly(m) ==
  /\ occupied' = [s \in Segment |-> occupied[s] \/ s \in m.occ]
  /\ UNCHANGED dcc_addresses

\* What m is about becomes occupied or free, and no decoder is on a free segment.
Occupy(m) ==
  /\ occupied' = [s \in Segment |-> IF s \in m.of THEN s \in m.occ ELSE occupied[s]]
  /\ dcc_addresses' = [s \in Segment |-> IF s \in m.of \ m.occ THEN {} ELSE dcc_addresses[s]]

\* bidib_state_bm_occ and bidib_state_bm_multiple; a segment of a board that is
\* not connected is not found.
HandleOccupancy ==
  /\ Incoming({"MSG_BM_OCC", "MSG_BM_FREE", "MSG_BM_MULTIPLE"})
  /\ LET m == Head(uplink) IN
       /\ IF m.board \in connected
          THEN Occupy(m) /\ UpdateTrains(dcc_addresses')
          ELSE UNCHANGED <<occupied, dcc_addresses, on_track, orientation>>
       /\ Mirror(m)
       /\ Arrived({<<"occ", {s}>> : s \in m.of})
  /\ UNCHANGED <<reset, connected, track, boards, moves, faults>>

\* bidib_state_bm_address; only trains have addresses in the reports.
HandleAddress ==
  /\ Incoming({"MSG_BM_ADDRESS"})
  /\ LET m == Head(uplink) IN
       /\ IF m.board \in connected
          THEN /\ dcc_addresses' = [s \in Segment |-> IF s \in m.of THEN m.addresses ELSE dcc_addresses[s]]
               /\ UpdateTrains(dcc_addresses')
          ELSE UNCHANGED <<dcc_addresses, on_track, orientation>>
       /\ Arrived({<<"address", m.of>>})
  /\ UNCHANGED <<reset, connected, occupied, mirrors, track, boards, moves, faults>>

\* bidib_state_node_lost and bidib_state_node_new.
HandleNode ==
  /\ Incoming({"MSG_NODE_LOST", "MSG_NODE_NEW"})
  /\ LET m == Head(uplink) IN
       connected' = IF m.type = "MSG_NODE_NEW" THEN connected \cup {m.board} ELSE connected \ {m.board}
  /\ UNCHANGED <<reset, occupied, dcc_addresses, on_track, orientation, mirrors, track, boards, history>>

----------------------------------------------------------------------------
(* The start: bidib_send_sys_reset after the state has been reset.          *)

SysEnable ==
  /\ reset = "reset" /\ reset' = "enabled"
  /\ UNCHANGED <<connected, occupied, dcc_addresses, on_track, orientation,
                 uplink, mirrors, track, boards, history>>

\* What a board is asked for: bidib_state_query_occupancy has both ranges hold
\* all of its segments.
Asked(b) == << <<"multiple", SegmentsOf(b)>> >>
            \o SetToSeq({<<"address", {s}>> : s \in SegmentsOf(b)})

QueryOccupancy ==
  /\ reset = "enabled" /\ reset' = "queried"
  /\ untold' = [b \in Board |-> IF b \in DccMain \cap connected \cap plugged
                              THEN untold[b] \o Asked(b) ELSE untold[b]]
  /\ UNCHANGED <<connected, occupied, dcc_addresses, on_track, orientation, uplink, mirrors,
                 track, plugged, secure, unmirrored, told, history>>

----------------------------------------------------------------------------
(* The track and the boards.                                                *)

Real(s) == \E t \in Train : s \in at[t]
Decoders(s) == {[of |-> t, type |-> facing[t]] : t \in {u \in Train : s \in at[u]}}

\* Train t is put on the track, rolls onto another segment, or leaves one.
Move(t) ==
  /\ moves < MaxMoves /\ moves' = moves + 1
  /\ \E s \in Segment :
       /\ at' = [at EXCEPT ![t] = IF s \in @ THEN @ \ {s} ELSE @ \cup {s}]
       /\ Cardinality(at'[t]) <= 2
       /\ IF at[t] = {} THEN \E d \in Orientation : facing' = [facing EXCEPT ![t] = d]
          ELSE UNCHANGED facing
       /\ untold' = [untold EXCEPT ![BoardOf[s]] =
            IF reset = "reset" \/ BoardOf[s] \notin plugged THEN @
            ELSE @ \o (IF Real(s)' # Real(s) THEN << <<"occ", {s}>> >> ELSE << >>)
                   \o << <<"address", {s}>> >>]
  /\ UNCHANGED <<host, uplink, mirrors, plugged, secure, unmirrored, told, missing, faults>>

Occupancy(b, type, of) ==
  [type |-> type, board |-> b, of |-> of, occ |-> {s \in of : Real(s)}]

\* Board b tells the occupancy of the segments in of.
Tell(b, type, of) ==
  /\ b \in plugged /\ Len(uplink) + Len(mirrors) < MaxLine
  /\ uplink' = Append(uplink, Occupancy(b, type, of))
  /\ unmirrored' = unmirrored \cup (IF b \in secure THEN of ELSE {})
  /\ told' = told \cup {<<"occ", {s}>> : s \in of}
  /\ UNCHANGED <<host, mirrors, track, plugged, secure, history>>

OccOrFree(s) == IF Real(s) THEN "MSG_BM_OCC" ELSE "MSG_BM_FREE"

\* The next report of a board, of what is the case by now.
TellNext(b) ==
  /\ untold[b] # << >> /\ untold' = [untold EXCEPT ![b] = Tail(@)]
  /\ LET kind == Head(untold[b])[1] of == Head(untold[b])[2] IN
       \/ kind = "multiple" /\ Tell(b, "MSG_BM_MULTIPLE", of)
       \/ kind = "occ" /\ \E s \in of : Tell(b, OccOrFree(s), of)
       \/ /\ kind = "address" /\ Len(uplink) + Len(mirrors) < MaxLine
          /\ \E s \in of : uplink' = Append(uplink, [type |-> "MSG_BM_ADDRESS", board |-> b,
                                                    of |-> of, addresses |-> Decoders(s)])
          /\ told' = told \cup {<<"address", of>>}
          /\ UNCHANGED <<host, mirrors, track, plugged, secure, unmirrored, history>>

\* A report that has not been mirrored in time is repeated.
TellAgain(b) ==
  /\ \E s \in unmirrored \cap SegmentsOf(b) : Tell(b, OccOrFree(s), {s})
  /\ UNCHANGED untold

\* A board compares the mirror message with the segments it has.
HearMirror ==
  /\ mirrors # << >> /\ mirrors' = Tail(mirrors)
  /\ LET m == Head(mirrors) IN
       /\ Arrived({<<"mirror", {s}>> : s \in m.of})
       /\ unmirrored' = IF m.board \in secure
                        THEN (unmirrored \ m.of) \cup {s \in m.of : Real(s) # (s \in m.occ)}
                        ELSE unmirrored
  /\ UNCHANGED <<host, uplink, track, plugged, secure, untold, told, moves, faults>>

\* A report or a mirror message is lost; the interface tells of nodes until it
\* gets MSG_NODE_CHANGED_ACK.
LoseReport ==
  /\ faults < MaxFaults /\ faults' = faults + 1
  /\ uplink # << >> /\ Head(uplink).type \notin {"MSG_NODE_LOST", "MSG_NODE_NEW"}
  /\ uplink' = Tail(uplink)
  /\ LET m == Head(uplink) IN
       missing' = missing \cup IF m.type = "MSG_BM_ADDRESS" THEN {<<"address", m.of>>}
                               ELSE {<<"occ", {s}>> : s \in m.of}
  /\ UNCHANGED <<host, mirrors, track, boards, moves>>

LoseMirror ==
  /\ faults < MaxFaults /\ faults' = faults + 1
  /\ mirrors # << >> /\ mirrors' = Tail(mirrors)
  /\ missing' = missing \cup {<<"mirror", {s}>> : s \in Head(mirrors).of}
  /\ UNCHANGED <<host, uplink, track, boards, moves>>

\* A board is taken off, and forgets what it had to tell.
Unplug(b) ==
  /\ reset = "queried" /\ faults < MaxFaults /\ faults' = faults + 1
  /\ b \in plugged /\ plugged' = plugged \ {b} /\ secure' = secure \ {b}
  /\ uplink' = Append(uplink, [type |-> "MSG_NODE_LOST", board |-> b])
  /\ untold' = [untold EXCEPT ![b] = << >>]
  /\ told' = {r \in told : ~(r[2] \subseteq SegmentsOf(b))}
  /\ unmirrored' = unmirrored \ SegmentsOf(b)
  /\ UNCHANGED <<host, mirrors, track, missing, moves>>

Plug(b) ==
  /\ b \in Board \ plugged /\ plugged' = plugged \cup {b}
  /\ uplink' = Append(uplink, [type |-> "MSG_NODE_NEW", board |-> b])
  /\ UNCHANGED <<host, mirrors, track, secure, untold, unmirrored, told, history>>

----------------------------------------------------------------------------
Init ==
  /\ reset = "reset" /\ connected = Board
  /\ occupied = [s \in Segment |-> FALSE] /\ dcc_addresses = [s \in Segment |-> {}]
  /\ on_track = [t \in Train |-> FALSE] /\ orientation = [t \in Train |-> "left"]
  /\ uplink = << >> /\ mirrors = << >>
  /\ at \in [Train -> {{}} \cup {{s} : s \in Segment}]
  /\ facing = [t \in Train |-> "right"]
  /\ plugged = Board /\ secure = SecAck
  /\ untold = [b \in Board |-> << >>] /\ unmirrored = {} /\ told = {} /\ missing = {}
  /\ moves = 0 /\ faults = 0

Receiver == HandleOccupancy \/ HandleAddress \/ HandleNode

Tells(b) == TellNext(b) \/ TellAgain(b)

Next ==
  \/ Receiver \/ SysEnable \/ QueryOccupancy
  \/ \E t \in Train : Move(t)
  \/ \E b \in Board : Tells(b) \/ Unplug(b) \/ Plug(b)
  \/ HearMirror \/ LoseReport \/ LoseMirror

(* The receiver and the calling thread go on; boards hear what is sent to   *)
(* them, and get the line, which they share, now and then.                  *)
Spec ==
  /\ Init /\ [][Next]_vars
  /\ WF_vars(Receiver) /\ WF_vars(SysEnable \/ QueryOccupancy) /\ WF_vars(HearMirror)
  /\ \A b \in Board : SF_vars(Tells(b))

----------------------------------------------------------------------------
(* A train is on the track exactly if a segment reports its decoder, and    *)
(* faces as a segment that reports it says, whichever message came last.    *)
TrainsFollowSegments ==
  \A t \in Train :
    LET said == {e \in UNION Range(dcc_addresses) : e.of = t} IN
      /\ on_track[t] <=> said # {}
      /\ on_track[t] => orientation[t] \in {e.type : e \in said}

Quiet == uplink = << >> /\ mirrors = << >> /\ unmirrored = {} /\ \A b \in Board : untold[b] = << >>

(* What is stored of segment s is what is on it, unless the last message    *)
(* that could tell was lost: without SecAck the last report; with SecAck    *)
(* both the last report and the last mirror message, for a board that hears *)
(* of what the library believes repeats what is wrong.                      *)
Heard(s) ==
  \/ <<"occ", {s}>> \notin missing
  \/ BoardOf[s] \in secure /\ <<"mirror", {s}>> \notin missing

(* When nothing is on its way any more, what is stored of a segment is what *)
(* is on it, for everything a board has told since it was last plugged in:  *)
(* the addresses unless the last report of them was lost, and the occupancy *)
(* unless the library and the board with SecAck have both missed the last.  *)
TrackIsKnown ==
  Quiet =>
    \A s \in Segment :
      /\ <<"occ", {s}>> \in told /\ Heard(s) => occupied[s] = Real(s)
      /\ <<"address", {s}>> \in told \ missing => dcc_addresses[s] = Decoders(s)

(* The segments of a board with SecAck that is queried by the start, or has *)
(* told of them, are shown as they are in the end, and the board need not   *)
(* repeat its reports for ever: each is mirrored.                           *)
OccupancySettles ==
  \A s \in Segment :
    <>[]( BoardOf[s] \in secure /\ (BoardOf[s] \in DccMain \/ <<"occ", {s}>> \in told)
            => s \notin unmirrored /\ (Heard(s) => occupied[s] = Real(s)) )
=============================================================================

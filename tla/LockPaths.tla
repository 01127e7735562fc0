----------------------------- MODULE LockPaths -------------------------------
(****************************************************************************)
(* What the functions of libbidib do on its locks, as sequences of the      *)
(* steps of module Locks.  A definition has the name of its function and is *)
(* the set of the sequences it can run through, one for each way out; a     *)
(* loop that sends, or writes, in each round is there with one round.       *)
(*                                                                          *)
(* The locks: "trains" bidib_trains_rwlock, "boards" bidib_boards_rwlock,   *)
(* "train_states" trackstate_trains_mutex, the other trackstate mutexes     *)
(* with the names of what they guard, "action_id", "node_states" the mutex  *)
(* of the node state table, "send_buffer", and the three uplink queues.     *)
(*                                                                          *)
(* Left out: what runs before the threads of the library exist or after     *)
(* they are joined, the reset of the bus (see README), and functions that   *)
(* take no lock.                                                            *)
(****************************************************************************)
EXTENDS Naturals, Sequences

Queues == {"uplink", "errors", "intern"}
SideStates == {"accessories", "peripherals", "reversers", "boosters", "track_outputs"}

LibLock == {"trains", "segments", "train_states", "boards", "action_id", "node_states", "send_buffer"}
        \cup SideStates \cup Queues

LibLevels == 5

\* The order in which the code takes locks together.
LibRank ==
  [l \in LibLock |-> CASE l = "trains" -> 0
                    [] l \in SideStates \cup {"segments"} -> 1
                    [] l = "train_states" -> 2
                    [] l = "boards" -> 3
                    [] l \in {"action_id", "node_states"} -> 4
                    [] OTHER -> 5]

----------------------------------------------------------------------------
(* Building blocks.                                                         *)
Do(act, l) == {<<[act |-> act, lock |-> l]>>}
Reads(l) == Do("reads", l)
Writes(l) == Do("writes", l)

A ++ B == {a \o b : a \in A, b \in B}
Opt(A) == A \cup {<< >>}

Shared(l, B) == Do("shared", l) ++ B ++ Do("release", l)
Exclusive(l, B) == Do("exclusive", l) ++ B ++ Do("release", l)

----------------------------------------------------------------------------
(* Sending.                                                                 *)
bidib_get_and_incr_action_id == Exclusive("action_id", Writes("action_id"))
bidib_flush == Exclusive("send_buffer", Writes("send_buffer"))
bidib_add_to_buffer == Exclusive("send_buffer", Writes("send_buffer"))
bidib_state_packet_capacity == Exclusive("send_buffer", Writes("send_buffer"))
bidib_node_state_get_and_incr_send_seqnum == Exclusive("node_states", Writes("node_states"))
ReceiveSeqnum == Exclusive("node_states", Writes("node_states"))
bidib_node_try_send == Exclusive("node_states", Writes("node_states"))

\* Every low-level send function.
bidib_buffer_message ==
  bidib_node_state_get_and_incr_send_seqnum ++ bidib_node_try_send ++ Opt(bidib_add_to_buffer)

\* An answer, an expired request or the end of a stall: stored messages go out.
bidib_node_state_update ==
  Exclusive("node_states", Writes("node_states") ++ Opt(bidib_add_to_buffer ++ bidib_flush))

----------------------------------------------------------------------------
(* Helpers that lock.                                                       *)
bidib_state_dcc_addr_in_use == Shared("boards", Reads("boards")) ++ Opt(Reads("trains"))

bidib_state_get_segment_state_ref_by_nodeaddr ==
  Shared("boards", Reads("boards") ++ Opt(Reads("segments")))

\* The state of a booster or of a track output.
StateByNodeaddr(l) == Shared("boards", Reads("boards") ++ Opt(Reads(l)))

bidib_state_update_train_available ==
  Reads("trains") ++ Reads("segments") ++ Writes("train_states")

\* What a command, or the hand control, does to the state of the train.
bidib_state_cs_drive ==
  Exclusive("train_states",
            Reads("trains") ++ (Writes("train_states") \cup bidib_state_dcc_addr_in_use))

\* Refused if a parameter is out of range.
bidib_send_cs_drive_intern == Opt(bidib_buffer_message ++ bidib_state_cs_drive)

bidib_send_cs_accessory_intern ==
  bidib_buffer_message ++ Reads("boards") ++ Opt(Writes("accessories"))

----------------------------------------------------------------------------
(* Getters.                                                                 *)

\* One after the other, each guarded for itself.
bidib_get_state ==
  Exclusive("accessories", Reads("accessories")) ++ Exclusive("peripherals", Reads("peripherals"))
  ++ Exclusive("segments", Reads("segments")) ++ Exclusive("reversers", Reads("reversers"))
  ++ Exclusive("train_states", Reads("train_states")) ++ Exclusive("boosters", Reads("boosters"))
  ++ Exclusive("track_outputs", Reads("track_outputs"))

\* bidib_get_boards to bidib_get_nodeaddr_by_uniqueid.
BoardGetter == Shared("boards", Reads("boards"))

\* What a board has, bidib_get_board_points to bidib_get_board_reversers.
BoardListGetter == Shared("boards", Reads("boards") ++ Opt(Reads("boards")))

\* What all connected boards have, counted and then copied.
ConnectedGetter == BoardListGetter

\* The aspects of a point, a signal or a peripheral.
AspectsGetter == BoardListGetter

\* bidib_get_boosters to bidib_get_track_output_state.
StateGetter(l) == Exclusive(l, Reads(l))

\* bidib_get_trains, bidib_get_train_id to bidib_get_train_peripherals.
TrainGetter == Shared("trains", Reads("trains"))

\* bidib_get_train_state to bidib_get_train_on_track, bidib_get_train_speed_step.
TrainStateGetter == StateGetter("train_states")

bidib_get_train_position ==
  Shared("trains", Exclusive("segments", Exclusive("train_states",
    Reads("train_states") ++ Reads("trains") ++ Opt(Reads("segments")))))

Getters ==
  bidib_get_state \cup BoardGetter \cup BoardListGetter \cup ConnectedGetter \cup AspectsGetter
  \cup TrainGetter
  \cup UNION {StateGetter(l) : l \in SideStates \cup {"segments"}}
  \cup TrainStateGetter \cup bidib_get_train_position

----------------------------------------------------------------------------
(* Setters; the early return of each is for a board that is not connected.  *)
bidib_switch_point ==
  Exclusive("accessories", Shared("boards",
    Reads("boards") ++
    Opt(bidib_get_and_incr_action_id ++
        (bidib_buffer_message \cup (bidib_send_cs_accessory_intern ++ Opt(Writes("accessories")))))))

bidib_set_signal == bidib_switch_point

\* Mutant: the early return forgets to unlock.
SetPeripheralLeaking ==
  (Do("shared", "boards") ++ Reads("boards")) \cup
  Shared("boards", Reads("boards") ++ bidib_get_and_incr_action_id ++ bidib_buffer_message)

bidib_set_peripheral ==
  Shared("boards", Reads("boards") ++ Opt(bidib_get_and_incr_action_id ++ bidib_buffer_message))

\* Looks at the board, and with B at what else it needs, then sends a command.
Command(B) ==
  Shared("boards", Reads("boards")) \cup
  (Shared("boards", Reads("boards") ++ B ++ bidib_get_and_incr_action_id) ++ bidib_buffer_message)

\* The same for a train whose state the command depends on.
TrainCommand ==
  Exclusive("train_states", Shared("boards", Reads("boards"))) \cup
  (Exclusive("train_states",
     Shared("boards", Reads("boards") ++ Reads("train_states") ++ bidib_get_and_incr_action_id))
   ++ bidib_send_cs_drive_intern)

bidib_set_train_speed == Exclusive("trains", Reads("trains") ++ TrainCommand)

bidib_set_calibrated_train_speed == Exclusive("trains", Reads("trains") ++ Opt(Reads("trains") ++ TrainCommand))

bidib_emergency_stop_train ==
  Exclusive("trains",
    Shared("boards", Reads("trains") ++ Reads("boards")) \cup
    (Shared("boards", Reads("trains") ++ Reads("boards") ++ bidib_get_and_incr_action_id)
     ++ bidib_send_cs_drive_intern))

bidib_set_train_peripheral ==
  Exclusive("trains",
    Exclusive("train_states", Shared("boards", Reads("trains") ++ Reads("boards"))) \cup
    (Exclusive("train_states",
       Shared("boards", Reads("trains") ++ Reads("boards") ++ Reads("train_states")
                        ++ bidib_get_and_incr_action_id))
     ++ bidib_send_cs_drive_intern))

\* bidib_set_booster_power_state and bidib_set_track_output_state.
PowerSetter == Command({<< >>})

\* bidib_ping, bidib_identify and the two queries for versions.
AdminCommand == Command({<< >>})

bidib_set_track_output_state_all ==
  Shared("boards", bidib_get_and_incr_action_id ++ Reads("boards") ++ Opt(bidib_buffer_message))

\* Mutant: the locks are taken the other way round.
RequestReverserCrossed ==
  Shared("boards", Exclusive("reversers",
    Reads("boards") ++ Reads("reversers") ++ Opt(Writes("reversers") ++ Reads("boards") ++ bidib_buffer_message)))

bidib_request_reverser_state ==
  Exclusive("reversers", Shared("boards",
    Reads("boards") ++ Reads("reversers") ++ Opt(Writes("reversers") ++ Reads("boards") ++ bidib_buffer_message)))

\* The two low-level functions that keep a state.
bidib_send_cs_drive == Opt(bidib_buffer_message ++ Shared("trains", bidib_state_cs_drive))
bidib_send_cs_accessory == Exclusive("accessories", Shared("boards", bidib_send_cs_accessory_intern))

\* bidib_read_message, bidib_read_error_message.
ReadMessage(q) == Exclusive(q, Writes(q))

Setters ==
  bidib_switch_point \cup bidib_set_signal \cup bidib_set_peripheral \cup bidib_set_train_speed
  \cup bidib_set_calibrated_train_speed \cup bidib_emergency_stop_train
  \cup bidib_set_train_peripheral \cup PowerSetter \cup AdminCommand
  \cup bidib_set_track_output_state_all \cup bidib_request_reverser_state
  \cup bidib_send_cs_drive \cup bidib_send_cs_accessory
  \cup bidib_buffer_message \cup bidib_flush
  \cup UNION {ReadMessage(q) : q \in {"uplink", "errors"}}

----------------------------------------------------------------------------
(* What the receiver does to the state of the track.                        *)

\* Mutant: the array of boards is changed under the lock for reading.
NodeLostReading == Shared("boards", Writes("boards"))

bidib_state_node_new == Exclusive("boards", Reads("boards") ++ Opt(Writes("boards")))
bidib_state_node_lost == Exclusive("boards", Reads("boards") ++ Opt(Writes("boards")))

\* Finds what a message is about by the mapping of the board, and updates it.
MappedUpdate(l) ==
  Exclusive(l, Shared("boards", Reads("boards") ++ Opt(Reads(l) ++ Opt(Writes(l)))))

bidib_state_vendor == MappedUpdate("reversers")
bidib_state_accessory_state == MappedUpdate("accessories")
bidib_state_lc_stat == MappedUpdate("peripherals")
bidib_state_lc_wait == MappedUpdate("peripherals")
bidib_state_bm_confidence == MappedUpdate("segments")

\* Mutant: the state is changed before its mutex is taken.
BoostStateEarly == Writes("boosters") ++ Exclusive("boosters", Reads("boosters"))

bidib_state_boost_state == Exclusive("boosters", StateByNodeaddr("boosters") ++ Opt(Writes("boosters")))
bidib_state_boost_diagnostic == bidib_state_boost_state
bidib_state_cs_state ==
  Exclusive("track_outputs", StateByNodeaddr("track_outputs") ++ Opt(Writes("track_outputs")))

\* MSG_CS_ACCESSORY_ACK and MSG_CS_ACCESSORY_MANUAL.
AccessoryReport == MappedUpdate("accessories")

bidib_state_cs_drive_ack ==
  Shared("trains", Exclusive("train_states",
    Reads("trains") ++ (Writes("train_states") \cup bidib_state_dcc_addr_in_use)))

\* Under the three locks that what the tracks and the trains report needs.
Occupancy(B) == Shared("trains", Exclusive("segments", Exclusive("train_states", B)))

bidib_state_bm_occ ==
  Occupancy(bidib_state_get_segment_state_ref_by_nodeaddr
            ++ Opt(Writes("segments") ++ bidib_state_update_train_available))

bidib_state_bm_multiple ==
  Occupancy(bidib_state_get_segment_state_ref_by_nodeaddr
            ++ Opt(Writes("segments")) ++ bidib_state_update_train_available)

\* The changes are logged with the names of the trains.
bidib_state_bm_address ==
  Occupancy(bidib_state_get_segment_state_ref_by_nodeaddr
            ++ Opt(Writes("segments") ++ bidib_state_update_train_available
                   ++ Reads("trains") ++ Reads("train_states")))

bidib_state_bm_current ==
  Exclusive("segments", bidib_state_get_segment_state_ref_by_nodeaddr ++ Opt(Writes("segments")))

bidib_state_bm_speed == Shared("trains", Exclusive("train_states", Reads("trains") ++ Opt(Writes("train_states"))))
bidib_state_bm_dyn_state == bidib_state_bm_speed

----------------------------------------------------------------------------
(* bidib_handle_received_message, message by message.                       *)

\* Replies, and sends them at once.
Reply == bidib_buffer_message ++ bidib_flush

\* With secure acknowledgement a report of the occupancy is mirrored.
Mirrored(B) == B ++ Shared("boards", Reads("boards")) ++ Opt(Reply)

Enqueue(q) == Exclusive(q, Writes(q))

\* The log has the name of the board.
Logged(B) == Shared("boards", Reads("boards")) ++ B

NodeMessages == (bidib_state_node_new \cup bidib_state_node_lost) ++ Reply

StateMessages ==
  bidib_state_cs_state \cup bidib_state_cs_drive_ack \cup AccessoryReport
  \cup Exclusive("trains", bidib_state_cs_drive)    \* MSG_CS_DRIVE_MANUAL
  \cup bidib_state_lc_stat \cup bidib_state_lc_wait
  \cup Mirrored(bidib_state_bm_occ) \cup Mirrored(bidib_state_bm_multiple)
  \cup bidib_state_bm_confidence \cup bidib_state_bm_address \cup bidib_state_bm_current
  \cup bidib_state_bm_speed \cup bidib_state_bm_dyn_state \cup bidib_state_boost_diagnostic

QueueMessages ==
  (bidib_state_accessory_state ++ Opt(bidib_buffer_message) ++ Opt(Enqueue("errors")))
  \cup (bidib_state_boost_state ++ Logged(Opt(Enqueue("errors"))))
  \cup Logged(Enqueue("errors")) \cup Mirrored({<< >>}) ++ Enqueue("uplink")
  \cup bidib_state_vendor \cup UNION {Enqueue(q) : q \in Queues}

\* Each message goes through the node state table first.
Received ==
  bidib_node_state_update \cup ReceiveSeqnum \cup bidib_flush
  \cup bidib_state_packet_capacity
  \cup NodeMessages \cup StateMessages \cup QueueMessages
=============================================================================

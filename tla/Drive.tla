------------------------------- MODULE Drive ---------------------------------
(****************************************************************************)
(* Commands to one train: the high-level setters, the low-level             *)
(* bidib_send_cs_drive, and the state of the train the library keeps beside *)
(* the one in the command station.                                          *)
(*                                                                          *)
(* A high-level setter holds bidib_trains_rwlock for writing from reading   *)
(* the state until it has updated it; the low-level call takes the lock     *)
(* only for the update, after it has buffered the message.  The receiver    *)
(* handles MSG_CS_DRIVE_ACK and MSG_CS_DRIVE_MANUAL.  Between host and      *)
(* station messages keep their order (module Transmission says when).       *)
(* Calls that return early for an unknown train, an unconnected board or a  *)
(* parameter out of range change nothing and are left out.                  *)
(****************************************************************************)
EXTENDS Naturals, Integers, Sequences

CONSTANTS
  Thread,          \* calling threads
  Bit,             \* function bits of the train's configured peripherals, of 0..31
  Step,            \* speed steps the callers ask for, 0 is a stop
  DriveMessage,    \* messages of low-level calls and of the hand control
  NoThread,        \* the lock is free
  MaxCalls,        \* bound: calls
  MaxManuals       \* bound: uses of the hand control

\* The parts a message can make active, and the messages: 7 bits of speed and
\* the bit of the direction, and four bytes of functions.
Part == {"speed", "F0_F4", "F5_F8", "F9_F12", "F13_F20", "F21_F28"}
Command == [active : SUBSET Part, speed : 0..127, forward : BOOLEAN, fn : SUBSET (0..31)]

ASSUME DriveAssumption ==
  /\ Bit \subseteq 0..31 /\ Step \subseteq 0..126 /\ NoThread \notin Thread
  /\ DriveMessage \subseteq Command

VARIABLES
  pc, cmd,         \* where the call of a thread is, and its message
  trains_rwlock,   \* the thread that holds it for writing
  train,           \* bidib_track_state.trains: set_speed_step, set_is_forwards,
                   \* the peripherals that are on, ack
  line, uplink,    \* messages to and from the command station
  station,         \* what the station outputs to the train
  wanted,          \* history: the functions that are on if every command counts
  crossed,         \* history: a low-level call or the hand control met another
                   \* command or its answer half-way
  executed,        \* history: the station has executed a command
  calls, manuals   \* so far

host == <<pc, cmd, trains_rwlock, train>>
vars == <<host, line, uplink, station, wanted, crossed, executed, calls, manuals>>

----------------------------------------------------------------------------
(* Messages and what they do.                                               *)

\* Function groups of a message; bits 5 to 7 of the first byte are reserved.
BitsOf(group) ==
  CASE group = "F0_F4" -> 0..4
    [] group = "F5_F8" -> 8..11
    [] group = "F9_F12" -> 12..15
    [] group = "F13_F20" -> 16..23
    [] group = "F21_F28" -> 24..31
    [] OTHER -> {}

GroupOf(bit) ==
  CASE bit < 5 -> "F0_F4"
    [] bit \in 5..11 -> "F5_F8"
    [] bit \in 12..15 -> "F9_F12"
    [] bit \in 16..23 -> "F13_F20"
    [] OTHER -> "F21_F28"

\* DCC speed 0 is a stop, 1 an emergency stop, n + 1 step n.
LibToDcc(step) == IF step = 0 THEN 0 ELSE step + 1
DccToLib(speed, forward) ==
  IF speed <= 1 THEN 0 ELSE IF forward THEN speed - 1 ELSE -(speed - 1)

Message(active, speed, forward, fn) ==
  [active |-> active, speed |-> speed, forward |-> forward, fn |-> fn]

Touched(m) == UNION {BitsOf(g) : g \in m.active}

\* The functions on after m, if those in on were on before.
AfterMessage(on, m) ==
  IF m.active = {} THEN {} ELSE (on \ Touched(m)) \cup (m.fn \cap Touched(m))

\* The station; a message with no active part takes the train off the track.
Execute(s, m) ==
  [speed   |-> IF m.active = {} THEN 0 ELSE IF "speed" \in m.active THEN m.speed ELSE s.speed,
   forward |-> m.active = {} \/ (IF "speed" \in m.active THEN m.forward ELSE s.forward),
   on      |-> AfterMessage(s.on, m)]

\* Mutant: the function bits are taken over whether their group is active or not.
UpdateAllBits(m) ==
  train' = [step    |-> IF "speed" \in m.active THEN DccToLib(m.speed, m.forward) ELSE train.step,
            forward |-> IF "speed" \in m.active THEN m.forward ELSE train.forward,
            on      |-> m.fn \cap Bit,
            ack     |-> "pending"]

\* bidib_state_cs_drive; functions that are not configured are not stored.
Update(m) ==
  train' = [step    |-> IF m.active = {} THEN 0
                        ELSE IF "speed" \in m.active THEN DccToLib(m.speed, m.forward)
                        ELSE train.step,
            forward |-> m.active = {} \/ (IF "speed" \in m.active THEN m.forward ELSE train.forward),
            on      |-> AfterMessage(train.on, m) \cap Bit,
            ack     |-> IF m.active = {} THEN train.ack ELSE "pending"]

\* bidib_send_cs_drive_intern refuses a first function byte above 31.
Accepted(m) == m.fn \cap (5..7) = {}

----------------------------------------------------------------------------
(* High-level setters.                                                      *)

\* bidib_trains_rwlock can be taken for writing.
WriterFree == trains_rwlock = NoThread
Others(t, where) == \E u \in Thread \ {t} : pc[u] \in where
ManualUnheard == \E k \in DOMAIN uplink : uplink[k].type = "MSG_CS_DRIVE_MANUAL"

\* A setter has the lock and has put together its message.
Begin(t, m) ==
  /\ pc[t] = "idle"
  /\ calls < MaxCalls
  /\ WriterFree
  /\ trains_rwlock' = t
  /\ cmd' = [cmd EXCEPT ![t] = m]
  /\ pc' = [pc EXCEPT ![t] = "buffer"]
  /\ calls' = calls + 1
  /\ crossed' = (crossed \/ ManualUnheard \/ Others(t, {"low_update"}))
  /\ UNCHANGED <<train, line, uplink, station, executed, manuals>>

\* Mutant: a stop leaves the train in the direction of the parameter.
DirectionAsked(step, forwards) == forwards /\ step > 0

\* A stop preserves the direction, for the headlights.
Direction(step, forwards) == IF step = 0 THEN train.forward ELSE forwards

SetTrainSpeed(t) ==
  \E step \in Step, forwards \in BOOLEAN :
    /\ Begin(t, Message({"speed"}, LibToDcc(step), Direction(step, forwards), {}))
    /\ UNCHANGED wanted

EmergencyStop(t) ==
  /\ Begin(t, Message({"speed"}, 1, TRUE, {}))
  /\ UNCHANGED wanted

\* Mutant: the other functions of the group are sent as off.
BitsAlone(bit, on) == IF on THEN {bit} ELSE {}

\* The function bytes: the bits of the group as they are, and the new one.
Bits(bit, on) ==
  ((train.on \cap BitsOf(GroupOf(bit))) \ {bit}) \cup (IF on THEN {bit} ELSE {})

SetTrainPeripheral(t) ==
  \E bit \in Bit, on \in BOOLEAN :
    LET m == Message({GroupOf(bit)}, 0, FALSE, Bits(bit, on)) IN
    /\ Begin(t, m)
    /\ wanted' = IF ~Accepted(m) THEN wanted
                 ELSE IF on THEN wanted \cup {bit} ELSE wanted \ {bit}

\* A message that is not accepted is dropped, and the setter returns as usual.
Buffer(t) ==
  /\ pc[t] = "buffer"
  /\ IF Accepted(cmd[t])
     THEN /\ line' = Append(line, cmd[t])
          /\ pc' = [pc EXCEPT ![t] = "update"]
          /\ UNCHANGED trains_rwlock
     ELSE /\ pc' = [pc EXCEPT ![t] = "idle"]
          /\ trains_rwlock' = NoThread
          /\ UNCHANGED line
  /\ UNCHANGED <<cmd, train, uplink, station, wanted, crossed, executed, calls, manuals>>

UpdateAndReturn(t) ==
  /\ pc[t] = "update"
  /\ Update(cmd[t])
  /\ trains_rwlock' = NoThread
  /\ pc' = [pc EXCEPT ![t] = "idle"]
  /\ UNCHANGED <<cmd, line, uplink, station, wanted, crossed, executed, calls, manuals>>

----------------------------------------------------------------------------
(* bidib_send_cs_drive.                                                     *)

SendCsDrive(t) ==
  /\ pc[t] = "idle"
  /\ calls < MaxCalls
  /\ \E m \in DriveMessage :
       /\ Accepted(m)
       /\ line' = Append(line, m)
       /\ cmd' = [cmd EXCEPT ![t] = m]
       /\ wanted' = AfterMessage(wanted, m)
  /\ pc' = [pc EXCEPT ![t] = "low_update"]
  /\ calls' = calls + 1
  /\ crossed' = (crossed \/ ManualUnheard \/ Others(t, {"buffer", "update", "low_update"}))
  /\ UNCHANGED <<trains_rwlock, train, uplink, station, executed, manuals>>

LowUpdate(t) ==
  /\ pc[t] = "low_update"
  /\ WriterFree
  /\ Update(cmd[t])
  /\ pc' = [pc EXCEPT ![t] = "idle"]
  /\ UNCHANGED <<cmd, trains_rwlock, line, uplink, station, wanted, crossed, executed, calls, manuals>>

----------------------------------------------------------------------------
(* The receiver thread.                                                     *)

Hear(type) ==
  /\ uplink # << >>
  /\ Head(uplink).type = type
  /\ uplink' = Tail(uplink)

\* Mutant: the lock is not waited for.
HandleAckUnlocked ==
  /\ Hear("MSG_CS_DRIVE_ACK")
  /\ train' = [train EXCEPT !.ack = "accepted"]
  /\ crossed' = (crossed \/ \E t \in Thread : pc[t] = "low_update")
  /\ UNCHANGED <<pc, cmd, trains_rwlock, line, station, wanted, executed, calls, manuals>>

\* bidib_state_cs_drive_ack
HandleAck ==
  /\ Hear("MSG_CS_DRIVE_ACK")
  /\ WriterFree
  /\ train' = [train EXCEPT !.ack = "accepted"]
  /\ crossed' = (crossed \/ \E t \in Thread : pc[t] = "low_update")
  /\ UNCHANGED <<pc, cmd, trains_rwlock, line, station, wanted, executed, calls, manuals>>

HandleManual ==
  /\ Hear("MSG_CS_DRIVE_MANUAL")
  /\ WriterFree
  /\ Update(Head(uplink).msg)
  /\ UNCHANGED <<pc, cmd, trains_rwlock, line, station, wanted, crossed, executed, calls, manuals>>

----------------------------------------------------------------------------
(* The command station.                                                     *)

StationExecutes ==
  /\ line # << >>
  /\ station' = Execute(station, Head(line))
  /\ line' = Tail(line)
  /\ uplink' = Append(uplink, [type |-> "MSG_CS_DRIVE_ACK"])
  /\ executed' = TRUE
  /\ UNCHANGED <<host, wanted, crossed, calls, manuals>>

StationManual ==
  /\ manuals < MaxManuals
  /\ manuals' = manuals + 1
  /\ \E m \in DriveMessage :
       /\ station' = Execute(station, m)
       /\ uplink' = Append(uplink, [type |-> "MSG_CS_DRIVE_MANUAL", msg |-> m])
       /\ wanted' = AfterMessage(wanted, m)
  /\ crossed' = (crossed \/ line # << >> \/ \E t \in Thread : pc[t] # "idle")
  /\ UNCHANGED <<host, line, executed, calls>>

----------------------------------------------------------------------------
NoMessage == Message({}, 0, TRUE, {})

\* After bidib_state_reset and bidib_state_reset_train_params.
Init ==
  /\ pc = [t \in Thread |-> "idle"] /\ cmd = [t \in Thread |-> NoMessage]
  /\ trains_rwlock = NoThread
  /\ train = [step |-> 0, forward |-> TRUE, on |-> {}, ack |-> "pending"]
  /\ line = << >> /\ uplink = << >>
  /\ station = [speed |-> 0, forward |-> TRUE, on |-> {}]
  /\ wanted = {} /\ crossed = FALSE /\ executed = FALSE
  /\ calls = 0 /\ manuals = 0

HighLevel(t) ==
  SetTrainSpeed(t) \/ EmergencyStop(t) \/ SetTrainPeripheral(t) \/ Buffer(t) \/ UpdateAndReturn(t)

LowLevel(t) == SendCsDrive(t) \/ LowUpdate(t)

Next ==
  \/ \E t \in Thread : HighLevel(t) \/ LowLevel(t)
  \/ HandleAck \/ HandleManual
  \/ StationExecutes \/ StationManual

Spec == Init /\ [][Next]_vars

----------------------------------------------------------------------------
Quiet == line = << >> /\ uplink = << >> /\ \A t \in Thread : pc[t] = "idle"

Same == /\ train.step = DccToLib(station.speed, station.forward)
        /\ train.forward = station.forward
        /\ train.on = station.on \cap Bit

UplinkMessage == [type : {"MSG_CS_DRIVE_ACK"}]
                   \cup [type : {"MSG_CS_DRIVE_MANUAL"}, msg : Command]

(* Every variable has its type, and exactly the setter between its first    *)
(* and its last step has the lock.                                          *)
TypeOK ==
  /\ pc \in [Thread -> {"idle", "buffer", "update", "low_update"}]
  /\ cmd \in [Thread -> Command]
  /\ trains_rwlock \in Thread \cup {NoThread}
  /\ \A t \in Thread : pc[t] \in {"buffer", "update"} <=> trains_rwlock = t
  /\ train \in [step : -126..126, forward : BOOLEAN, on : SUBSET (0..31),
                ack : {"pending", "accepted"}]
  /\ train.on \subseteq Bit
  /\ station \in [speed : 0..127, forward : BOOLEAN, on : SUBSET (0..31)]
  /\ line \in Seq(Command)
  /\ uplink \in Seq(UplinkMessage)
  /\ wanted \subseteq 0..31
  /\ calls \in Nat /\ manuals \in Nat

(* When nothing is on its way the state the library stores is the one of    *)
(* the station, unless commands have crossed.                               *)
Agree == Quiet /\ ~crossed => Same

(* A command that has been executed is not shown as pending for ever: the   *)
(* acknowledgement of the last command is never overwritten by that command.*)
AckSettled == Quiet /\ ~crossed /\ executed /\ manuals = 0 => train.ack = "accepted"

(* No command takes back what another one has set, although each of them    *)
(* sends its whole group of functions.  (A function that is not configured, *)
(* set by a low-level call, is switched off by the next setter for its      *)
(* group, which sends the configured ones.)                                 *)
NoneTakenBack == Quiet /\ ~crossed => station.on \cap Bit = wanted \cap Bit

(* A stop at speed 0 never turns the train round, although the direction    *)
(* it sends is the one stored; only an emergency stop (speed 1) and taking  *)
(* the train off the track always command forwards.                         *)
StopKeepsDirection ==
  [][ station'.forward # station.forward /\ line' # line /\ ~crossed
        => Head(line).speed # 0 \/ Head(line).active = {} ]_vars
=============================================================================

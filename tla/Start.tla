-------------------------------- MODULE Start ---------------------------------
(****************************************************************************)
(* bidib_start_pointer, bidib_start_serial and bidib_stop of src/highlevel/ *)
(* bidib_highlevel_util.c: locks and arrays are initialised, the            *)
(* configuration is read (module Config), the threads are created, the      *)
(* connection is tried and the interface is reset.  A start that fails runs *)
(* bidib_stop before it returns 1.  The bounds of a document say how often  *)
(* and in which ways the library is started with it (starts, ways).         *)
(****************************************************************************)
EXTENDS Config

VARIABLES
  pc,              \* what the calling thread does
  by,              \* how it starts the library: "pointer" or "serial"
  flush_interval,  \* whether there is one
  error,           \* the value the start is going to return
  write_bytes,     \* the function that writes has been set
  bidib_running,
  threads,         \* threads that run
  handles,         \* handles[t]: "none", "live", or "joined"
  starts

startVars == <<pc, by, flush_interval, error, write_bytes, bidib_running, threads, handles, starts>>
vars == <<configVars, startVars>>

Thread == {"receiver", "autoflush", "heartbeat"}

----------------------------------------------------------------------------
\* The locks are initialised again, and the arrays allocated.
BeginStart(b, f) ==
  /\ pc = "idle" /\ starts < document.starts /\ <<b, f>> \in document.ways
  /\ pc' = "config" /\ starts' = starts + 1
  /\ by' = b /\ flush_interval' = f /\ error' = FALSE
  /\ bidib_running' = TRUE
  /\ trains_rwlock' = 0
  /\ file' = "board" /\ doc' = << >> /\ stack' = <<NewFrame("section")>> /\ status' = "parsing"
  /\ UNCHANGED <<document, boards, trains, track_state, initial_values,
                 write_bytes, threads, handles>>

ReadConfig == pc = "config" /\ ConfigNext /\ UNCHANGED startVars

\* bidib_init_threads.
InitThreads ==
  LET new == {"receiver", "heartbeat"} \cup IF flush_interval THEN {"autoflush"} ELSE {} IN
  /\ threads' = threads \cup new
  /\ handles' = [t \in Thread |-> IF t \in new THEN "live" ELSE handles[t]]

\* Mutant: the error of the configuration is forgotten.
ErrorForgotten ==
  /\ pc = "config" /\ status \in {"loaded", "rejected"} /\ by = "pointer"
  /\ error' = FALSE
  /\ write_bytes' = TRUE /\ InitThreads
  /\ pc' = "connect"
  /\ UNCHANGED <<configVars, by, flush_interval, bidib_running, starts>>
\* bidib_start_pointer goes on whatever has become of the configuration.
StartThreadsPointer ==
  /\ pc = "config" /\ status \in {"loaded", "rejected"} /\ by = "pointer"
  /\ error' = (status = "rejected")
  /\ write_bytes' = TRUE /\ InitThreads
  /\ pc' = "connect"
  /\ UNCHANGED <<configVars, by, flush_interval, bidib_running, starts>>

\* bidib_start_serial needs it, and the port.
StartThreadsSerial ==
  /\ pc = "config" /\ status \in {"loaded", "rejected"} /\ by = "serial"
  /\ \/ /\ error' = TRUE /\ pc' = "stop"
        /\ UNCHANGED <<write_bytes, threads, handles>>
     \/ /\ status = "loaded"
        /\ write_bytes' = TRUE /\ InitThreads
        /\ pc' = "connect" /\ UNCHANGED error
  /\ UNCHANGED <<configVars, by, flush_interval, bidib_running, starts>>

\* bidib_communication_works, and bidib_detect_baudrate with up to three of it.
Connect ==
  /\ pc = "connect"
  /\ \/ pc' = "reset" /\ UNCHANGED error
     \/ pc' = "stop" /\ error' = TRUE
  /\ UNCHANGED <<configVars, by, flush_interval, write_bytes, bidib_running, threads, handles, starts>>

\* The program ends.
Fault == Crash /\ pc' = "crashed" /\ UNCHANGED <<document, file, doc>>

\* bidib_send_sys_reset up to bidib_state_set_board_features.  The dialogue and
\* the features are those of modules Allocation and Startup; here it matters
\* that they end only if the answers come: nothing makes this step happen.
ResetNodes ==
  /\ pc = "reset"
  /\ pc' = "reset_trains"
  /\ UNCHANGED <<configVars, by, flush_interval, error, write_bytes, bidib_running, threads, handles, starts>>

\* bidib_state_reset_train_params takes bidib_trains_rwlock for writing; it is
\* part of bidib_send_sys_reset and of bidib_stop.
TrainsWritable == trains_rwlock = 0

ResetTrains ==
  /\ pc = "reset_trains" /\ TrainsWritable
  /\ pc' = "initial_values"
  /\ UNCHANGED <<configVars, by, flush_interval, error, write_bytes, bidib_running, threads, handles, starts>>

\* The elements that bidib_switch_point, bidib_set_signal and
\* bidib_set_peripheral go through for one of section s, in their order.
LookedThrough(s) ==
  LET kind == SelectSeq(Sections, LAMBDA x : x = s \/ {x, s} \subseteq Points \/ {x, s} \subseteq Signals)
  IN FlattenSeq([b \in DOMAIN boards |->
                   FlattenSeq([k \in DOMAIN kind |-> boards[b].parts[kind[k]]])])

\* The element the look-up of an initial value ends at, if any: its own, or one
\* without an id, which is NULL in what a rejected configuration leaves behind.
LookedUp(v) ==
  LET all == LookedThrough(v.of)
  IN {all[i] : i \in {SelectInSeq(all, LAMBDA m : m.id \in {NULL, v.id})} \ {0}}

NullAspectId(m) ==
  "aspects" \in DOMAIN m /\ m["aspects"] # NULL /\ \E a \in Range(m["aspects"]) : a.id = NULL

\* bidib_state_set_initial_values.  The aspects are read only if the board is
\* connected; the initial values of trains name trains without holes.
SetInitialValues ==
  /\ pc = "initial_values"
  /\ LET met == UNION {LookedUp(v) : v \in {u \in Range(initial_values) : u.of \in Range(Sections)}}
     IN \/ /\ \A m \in met : m.id # NULL
           /\ pc' = IF error THEN "stop" ELSE "started"
           /\ UNCHANGED configVars
        \/ (\E m \in met : m.id = NULL \/ NullAspectId(m)) /\ Fault
  /\ UNCHANGED <<by, flush_interval, error, write_bytes, bidib_running, threads, handles, starts>>

\* The receiver handles a report about an element that a rejected configuration
\* has left unfinished: the state setters look it up by its number, and follow
\* its id, its cv, the ids of its aspects, or, for bidib_state_bm_confidence,
\* its state.  What they do with finished elements does not matter here.
Unfinished(s, m) ==
  \/ m.id = NULL
  \/ s = "reversers" /\ m.cv = NULL
  \/ s = "segments" /\ m.id \notin Range(track_state[s])
  \/ s \in {"points-board", "signals-board", "peripherals"} /\ m.id \in Range(track_state[s]) /\ NullAspectId(m)

HandleReport ==
  /\ "receiver" \in threads /\ pc # "crashed"
  /\ \E b \in Range(boards) : \E s \in Range(Sections) : \E m \in Range(b.parts[s]) : Unfinished(s, m)
  /\ Fault
  /\ UNCHANGED <<by, flush_interval, error, write_bytes, bidib_running, threads, handles, starts>>

CallStop ==
  /\ pc = "started"
  /\ pc' = "stop"
  /\ UNCHANGED <<configVars, by, flush_interval, error, write_bytes, bidib_running, threads, handles, starts>>

\* The stop begins with MSG_SYS_DISABLE, and writes it.
StopSend ==
  /\ pc = "stop"
  /\ IF write_bytes THEN pc' = "stop_trains" /\ UNCHANGED configVars ELSE Fault
  /\ UNCHANGED <<by, flush_interval, error, write_bytes, bidib_running, threads, handles, starts>>

StopTrains ==
  /\ pc = "stop_trains" /\ TrainsWritable
  /\ bidib_running' = FALSE /\ pc' = "join"
  /\ UNCHANGED <<configVars, by, flush_interval, error, write_bytes, threads, handles, starts>>

ThreadEnds(t) ==
  /\ t \in threads /\ ~bidib_running
  /\ threads' = threads \ {t}
  /\ UNCHANGED <<configVars, pc, by, flush_interval, error, write_bytes, bidib_running, handles, starts>>

\* The handles keep their values; what a second pthread_join of a thread does
\* is undefined.
StopJoin ==
  /\ pc = "join"
  /\ \A t \in threads : handles[t] # "live"
  /\ handles' = [t \in Thread |-> IF handles[t] = "live" THEN "joined" ELSE handles[t]]
  /\ \/ pc' = "free" /\ UNCHANGED configVars
     \/ (\E t \in Thread : handles[t] = "joined") /\ Fault
  /\ UNCHANGED <<by, flush_interval, error, write_bytes, bidib_running, threads, starts>>

\* bidib_state_free reads the aspects of every mapping of an accessory.
NullAspects ==
  \E b \in Range(boards) : \E s \in Range(Sections) : \E m \in Range(b.parts[s]) :
    "aspects" \in DOMAIN m /\ m["aspects"] = NULL

StopFree ==
  /\ pc = "free"
  /\ IF NullAspects
     THEN Fault
     ELSE /\ boards' = << >> /\ trains' = << >> /\ initial_values' = << >>
          /\ track_state' = [k \in StateKinds |-> << >>]
          /\ pc' = "idle"
          /\ UNCHANGED <<document, file, doc, stack, trains_rwlock, status>>
  /\ UNCHANGED <<by, flush_interval, error, write_bytes, bidib_running, threads, handles, starts>>

----------------------------------------------------------------------------
StartInit ==
  /\ ConfigInit
  /\ pc = "idle" /\ by = "pointer" /\ flush_interval = FALSE /\ error = FALSE
  /\ write_bytes = FALSE /\ bidib_running = FALSE
  /\ threads = {} /\ handles = [t \in Thread |-> "none"]
  /\ starts = 0

\* The calls of the program, what they go on with, and what boards bring about.
Called == (\E b \in {"pointer", "serial"}, f \in BOOLEAN : BeginStart(b, f)) \/ CallStop
GoesOn ==
  \/ ReadConfig
  \/ StartThreadsPointer \/ StartThreadsSerial \/ Connect \/ ResetTrains \/ SetInitialValues
  \/ StopSend \/ StopTrains \/ StopJoin \/ StopFree
Answered == ResetNodes \/ HandleReport

\* Nothing follows a crash, the last stop, or a wait for a lock of one's own.
Halted ==
  \/ status = "crashed"
  \/ pc = "idle" /\ starts = document.starts
  \/ pc \in {"reset_trains", "stop_trains"} /\ ~TrainsWritable
Halt == Halted /\ UNCHANGED vars

Next == Called \/ GoesOn \/ Answered \/ (\E t \in Thread : ThreadEnds(t)) \/ Halt

\* A call goes on while it can, except that nobody has to answer the reset; and
\* a thread that has been told to end does.
Spec ==
  /\ StartInit /\ [][Next]_vars
  /\ WF_vars(GoesOn) /\ \A t \in Thread : WF_vars(ThreadEnds(t))

----------------------------------------------------------------------------
(* Properties.                                                              *)

\* A start that has succeeded has accepted the configuration and has its
\* threads, although bidib_start_pointer goes on without a configuration; and
\* no thread is left when bidib_stop frees what they use, in any of the
\* ways a start fails.
ThreadsInStep ==
  /\ pc = "started" =>
       /\ Loaded /\ ~error /\ write_bytes
       /\ threads = {"receiver", "heartbeat"} \cup IF flush_interval THEN {"autoflush"} ELSE {}
  /\ pc \in {"free", "idle"} => threads = {}

\* bidib_start_pointer and bidib_start_serial return, with a library that runs
\* or one that has been stopped again, unless the program crashes; or waits for
\* a lock of its own: bidib_trains_rwlock, after a DCC accessory whose id or
\* address was taken (bidib_state_add_dcc_point_state, _signal_state); or waits
\* for answers to the reset for ever (StartsUp of Startup names the reasons).
StartReturns ==
  pc = "config" ~>
    \/ pc \in {"started", "idle"} \/ status = "crashed"
    \/ pc \in {"reset_trains", "stop_trains"} /\ trains_rwlock > 0 /\ status = "rejected"
    \/ [](pc = "reset")
=============================================================================

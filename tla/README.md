# libbidib in TLA+

libbidib lets an application command a model railway over the BiDiB bus: it
opens a serial line to the BiDiB interface, finds the nodes of the bus, sends
downlink messages within the limits the nodes set, receives their uplink
messages in a thread of its own, and keeps a copy of the state of the track.
This directory holds TLA+ modules of the parts of it in which threads and nodes
interact, TLC configurations that check them on small instances, and proofs
that TLAPS checks for all instances.

To run a check: `tlc -config NodeStatesFaults.cfg MCNodeStates`; to check
proofs: `tlapm NodeStatesProofs.tla`, and so on for each `*Proofs.tla`. `PROJECT.json`
says for each definition which lines of the source it stands for, for each
property which faulty variant of the code it catches (the definitions commented
"Mutant"), and lists the hazards of the code.

## 1. Inventory

All paths are below `src/src/`.

**Threads.** Any number of application threads call the library. It has three
threads of its own: the *receiver* (`bidib_auto_receive`), the *flush thread*
(`bidib_auto_flush`, only if an interval is given) and the *heartbeat* (a log
line). They share everything below through two read-write locks
(`bidib_trains_rwlock`, `bidib_boards_rwlock`), seven `trackstate_*` mutexes,
and six mutexes of the transmission layer.

| Component | State | Operations | Talks to | Correct if |
|---|---|---|---|---|
| Node state table (`transmission/bidib_transmission_node_states.c`, `..._responses.c`) | per node: send and receive number, answers awaited with their time, their bytes, stored messages, stall flag, nodes waiting for the end of its stall | number, `try_send`, `state_update` (an uplink message came), `update_stall`, reset | called by senders and the receiver; fills the send buffer | the bytes booked are those of the answers awaited; no message is lost, doubled, overtaken or left behind; a stall holds back the whole branch |
| Send buffer and packets (`..._send.c`, `..._crc.c`) | the buffer, its limit, the auxiliary buffer of a write | add, flush, limit | all senders, the flush thread, the serial line | every message reaches the line once, in order; what is written can be read back |
| Receiver and uplink queues (`..._receive.c`) | the bytes of the packet that is read, the receive numbers, three bounded queues for the user, for errors and for the library's own dialogues | find a packet, split it, dispatch a message, read a queue | the node state table, all state setters | the receiver finds the packets again after damage; a gap in the numbers is noticed; a message is handled once |
| Allocation and features (`state/bidib_state.c`, `lowlevel/bidib_lowlevel_system.c`) | the locals of the dialogue, the boards' addresses | node table dialogue, features, initial values, query of the occupancy | the interface, hubs and boards, through the intern queue; the receiver, through the lock of the boards | every board has its address and its features at the end; the start ends |
| Train commands (`highlevel/bidib_highlevel_setter.c`, `lowlevel/bidib_lowlevel_track.c`, `state/bidib_state_setter.c`) | a train's stored speed, direction, functions, acknowledgement | setters, `bidib_send_cs_drive`, acknowledgement, hand control | the command station | stored state = state of the station once nothing is on its way |
| Boards, accessories, occupancy, boosters, track outputs (`state/bidib_state_setter.c`, `..._getter.c`) | arrays of states, positions of trains derived from segments | a handler for each uplink message | receiver, getters, setters | each state is changed under its lock; segments are as on the track, positions follow the segments; lost boards are forgotten |
| High-level getters, admin commands, action ids | none, a counter | copy the state; send a query | the state | a consistent copy |
| Parsers (`parser/*.c`) and the state they fill (`bidib_state_add_*`) | `bidib_boards`, `bidib_trains`, the track state, the initial values | a parser for each kind of element, on the events of libyaml | the start, before there are threads; all look-ups later | what is accepted has unique look-ups and no holes; a wrong file is refused and does no harm |
| Start, stop, threads (`highlevel/bidib_highlevel_util.c`, `lowlevel/bidib_lowlevel_system.c`) | `bidib_running`, `bidib_discard_rx`, thread handles | start, stop, reset | everything | a start returns; no thread uses what is freed |
| Serial port, low-level builders, names of messages, freeing | – | sequential | – | – |

**Hard behaviours.** A send is three critical sections (number, table, buffer)
that other threads may enter in between. Uplink messages come late, in another
order, not at all or unasked; requests expire by time. A stall of a node holds
back others and is released while further ones stand. The dialogue of the start
restarts when a table changes under it, with answers of the old one still on
their way; features are awaited with a lock held that the receiver needs when a
node comes or goes. Bytes, reports and mirror messages get lost. Commands and
acknowledgements cross. Handlers nest up to four locks, with many early returns.
Nested parsers share one stream, which a wrong file can leave anywhere. The list
with lines is "hazards" in `PROJECT.json`.

## 2. Modules and how they correspond to the code

```
NodeTable ─┬─ NodeStates ── MCNodeStates           Channel
           │                                          │ INSTANCE (refinement)
           └─ Transmission ────────────────────────── ┘ ── MCTransmission
Packets ── MCPackets             Occupancy ── MCOccupancy
Config ── Start ── MCStart       Drive ── MCDrive
Allocation ─┬─ MCAllocation      Locks ── MCLocks ── LockPaths
            └─ Startup ── MCStartup

NodeTableProofs ─┬─ NodeStatesProofs
                 └─ TransmissionProofs
StartProofs   StartupProofs   LocksProofs   DriveProofs   OccupancyProofs
```

A module of proofs extends the module it is about. `StartProofs` has what the
parsers of Config keep, one lemma for each event and each return, and then the
steps of a start; `StartupProofs` is about Allocation and Startup.

**NodeTable** has the node state table: one operator per operation of
`bidib_transmission_node_states.c`, to be composed with an environment. An
operation without a loop is one step, as its mutex makes it. The two with loops
(`bidib_node_state_update`, `bidib_node_update_stall`) are one step per
iteration with their locals as variables (`fn`, `node`, `got`, `at`, `serving`),
because their iterations call the send buffer. The hash table is a total
function: `bidib_node_query` makes a fresh entry for a node it does not know.
Times of requests are abstracted to `late`, which `Age` sets. The receive numbers of
the table are in Packets. `BudgetExact` is about the table alone and stands here,
so that both users of the table can rely on it.

**NodeStates** puts one calling thread and the nodes of the bus around it. A
message let through arrives at once; the node owes its answers in order. The
constant `Faults` switches on late, lost and unasked messages. `SysReset` is
`bidib_send_sys_reset`.

**Transmission** adds the threads and the send buffer: a caller's three
critical sections (`Call`, `TrySend`, `PutIntoBuffer`), the receiver with the
messages of its own (a mirrored occupancy message) and with the stored ones it
sends from inside the table, flushes by anyone. Bytes are counted per message,
before escapes. The buffer is kept as one sequence per node and a count of its
bytes: the order of messages to different nodes is not told apart. `given` is a
history variable, how often each number of a node was given out; `owed` is what a
node has received since it last answered. **Channel** is what the layer promises
for a node only one thread sends to: a first-in-first-out channel of numbers that
wrap. `Transmission!OrderedSpec` states that the layer implements it: `waiting`
is what is in the buffer, then what the table has let through, then what is
stored, then what has a number only.

**Packets** is the line byte by byte: `Buffer` and `Flush` are
`bidib_add_to_buffer` and `bidib_flush_impl` with delimiters, escapes, CRC and
the pieces of the auxiliary buffer; `AwaitMagic`, `ReadByte`, `EndPacket` and
`Abandon` are `bidib_receive_packet`, the last for `bidib_discard_rx`;
`EndPacket` goes on with `bidib_split_packet` and the receive numbers. Each byte
carries the number of its packet for the properties. The code of the sending
side stands for the node too, as both speak one protocol.

**Allocation** is `bidib_state_init_allocation_table` with
`bidib_state_query_nodetab` against an interface and its hubs, whose tables
change during the dialogue; the intern queue keeps its limit and its loss of
the oldest message. The variable `skew` follows the number that is skipped.

**Startup** extends it with what comes next, `bidib_state_set_board_features`:
the caller holds `bidib_boards_rwlock` for reading (`reading`), sends all
features of a board and takes as many `MSG_FEATURE` from the queue. The receiver
queues answers, puts refusals into the error queue, and handles `MSG_NODE_NEW`
and `MSG_NODE_LOST`, for which it needs the lock for writing. Nodes that leave
forget features and requests. A hub that is lost takes the boards below it
along. `MSG_NODE_CHANGED_ACK` has no effect on what is modelled and is left out.

**Config** is `bidib_state_init` with the three parsers, their nested parsers
and `bidib_state_add_*`. A parser is a frame on `stack`; an event of libyaml
goes to the one on top, as in the code, where each parser is a function with a
loop that calls the next one. The ten kinds of parsers that read keys in a fixed
order differ in their keys, in where their mapping may end and in whether later
scalars are ignored, so that they share actions and have one record each.
Scalars are members of small sets (`Bytes`, `Ports`, `Addresses`...) that the
conversions of the code tell apart. Following a pointer that is `NULL`, or was
never set, is a crash.

**Start** extends it with `bidib_start_pointer`, `bidib_start_serial`,
`bidib_stop`, the threads and the freeing of the state. `trains_rwlock` counts
the read locks that a refused DCC accessory leaves behind. `bidib_send_sys_reset`
is three steps. `ResetNodes` is what Allocation and Startup have in detail; it ends
only if all answers come. `ResetTrains` needs the trains for writing.
`SetInitialValues` looks up elements by their ids, up to the first that fits.
`bidib_start_pointer` resets after a rejected configuration too, with elements in
the tables that the parsers have left unfinished: a look-up that meets a `NULL` id
is a crash (`Fault`), and so is a report about such an element (`HandleReport`),
which boards may send at any time the receiver runs. What reports and initial
values do with finished elements is left out here.

**Occupancy** has the handlers of `MSG_BM_OCC`, `_FREE`, `_MULTIPLE` and
`_ADDRESS`, the trains derived from the segments
(`bidib_state_update_train_available`, `bidib_get_train_position_intern`), the
query at the start, and around them a train that moves, boards that tell what
is the case when they get the line, a line that loses messages, and boards that
are taken off and put back. `told` and `missing` are history variables that say
what a board has told since it was last put on, and which reports and mirror
messages got lost with none of their kind arriving since. Messages are lost at
the head of the queue, which for a first-in-first-out line is no restriction. A
request of the library is not lost. Secure acknowledge repairs a report that is
lost, and a mirror message that is lost. It does not repair both: the mirror
message of an older report may confirm the newer one that is lost, and if the
mirror of the next one is lost as well, nobody repeats it. `Heard` leaves that
case out of `TrackIsKnown` and `OccupancySettles`.

**Drive** is one train: the setters under `bidib_trains_rwlock`, each from
reading the state to updating it, `bidib_send_cs_drive` with its two critical
sections, `bidib_state_cs_drive` with the function groups and reserved bits,
the acknowledgement, and the hand control. The library stores the functions the
configuration names (`Bit`) and no other: what a low-level call or the hand
control switches on beside them, the next setter that sends the group switches
off. `crossed` is a history variable: a low-level call or the hand control has
met another command half-way.

**Locks** has threads that run sequences of steps: take a lock, release it,
read or write what it guards. Its actions are the lock functions of pthreads. **LockPaths** has, per
function of the library, the set of its sequences, one per way out; a function
calls another by concatenation, so a nested lock far down shows in its callers.
Loops that send or write in each round are there with one round: a round ends
with the locks it began with, so that further ones add nothing to the rules.
Left out of LockPaths, because they break the rules and need a treatment of
their own: `bidib_state_set_initial_values`, which reads the track outputs
without their mutex and says so (`bidib_state.c:358`);
`bidib_state_reset_train_params`, which uses a board after unlocking
(`bidib_state.c:923`); `bidib_state_set_board_features`, which waits for answers
with the boards locked (`bidib_state.c:274`); and the functions that fill the
state before there are threads (`bidib_state.c:659` returns without unlocking).

## 3. Runs

| Run | Question | Bounds |
|---|---|---|
| NodeStatesFaults | With late, lost and unasked answers, stalls and resets: is the budget exact, are stalls obeyed, when are stored messages left behind? | node 1 and its subnode 1.1; three types (answer of 1 byte, of 2 bytes by either of two messages, none), limit 2 bytes |
| NodeStatesPunctual | With every answer in time: order, mirror of what is owed, reason for storing, every stored message is sent | the same branch, two types with 1 byte |
| NodeStatesWedge | (violated) is no message left behind? | one node, limit 1 |
| Transmission | Across threads: nothing lost or doubled, no node overloaded, everything reaches the line, and the channel is implemented | a caller with 3 messages for two nodes, the receiver with one event (occupancy to be mirrored, or a stall), a buffer of 3 bytes with messages of 1 and 2 |
| Packets | Do the pieces of a write fit, is what is received what was sent, is each gap noticed? | three messages of one node, with a data byte that is a delimiter or not; one or two to a packet; an auxiliary buffer of 8 bytes; one byte lost, three changes of `bidib_discard_rx`; numbers 254, 255, 1 |
| Allocation | Table of the interface changes: every board gets its address, the dialogue ends, the number skipped is skipped once per restart | interface, a hub, five boards, two changes |
| AllocationMixup | (violated) the same with the table of the hub changing | one change |
| Startup | Do the features reach their boards, are lost boards forgotten, does the start end, or wait for one of four reasons only? | interface, hub, four boards; one board with more features than the intern queue has places; one change of a table during the dialogue, two reports of nodes after it |
| Start | Is what is accepted sound, do wrong files do no harm, does every start return? | eleven vocabularies (`MCDocuments`), each with all files of its words and up to five keys in a mapping; both start functions with and without a flush thread, twice for one of them |
| Drive | Two threads on one train: stored state, functions, acknowledgement, direction end as the station's | three calls, one use of the hand control, two functions in one group, one in another, one on a reserved bit |
| Occupancy | Are trains where the segments say, are segments as on the track, does secure acknowledge repair a loss? | a train, a board with secure acknowledge and two segments, a board without and one, two moves, one fault (loss or unplugging), two messages on the line |
| Locks | Any two functions at the same time: no circle, no race, no lock kept, rules kept by each | two threads with any function, and one that writes the boards |

**Why the bounds are enough.** In the node table a node interacts with another
only by stalls along a branch, so two nodes on one branch have every pair of
roles; a limit of two bytes with answers of one and two bytes gives a full, a
half full and an empty budget and a message that fits while an earlier one does
not. `MaxStored = 1` and `MaxOwed = 2` let a message be stored behind two open
requests; `MaxSeqnum = 2` wraps after two messages. With that wrap and one
stored message `Consecutive` cannot tell an overtaking by two; that is covered
by the theorem `NumbersAreConsecutive`, for any queue and any wrap above 1. In
Transmission two threads meet at every pair of their critical sections, three
bytes of buffer give a flush before, after and without adding, and the wrap at
three numbers is reached with messages still on their way. In Packets a packet of 8 bytes or more crosses
the edge of the auxiliary buffer with a plain byte, with either half of an
escape, and with the CRC; a damaged packet has one before and one after it. With
two delimiters lost, two packets merge and their CRC byte is taken for the
length of a message, in the code as in the model; so `MaxLost` is 1. The tables
of Allocation hold a row in front of and behind the one that matters, and a
second change finds the dialogue restarted once. Startup allows one change: two
changes of which one shortens the table reproduce *AllocationMixup*. All its
hubs are configured, since a hub that is not is unknown to
`bidib_state_node_lost` and leaves the boards below it connected. In Start a
vocabulary has two of whatever has to be unique, a word that fits nowhere, and
lists with one element more than the parser has to tell apart; parsers that
share a vocabulary are those that call each other. In Drive three calls allow
two commands to cross and a third to read what they left. In Occupancy a train
can roll from one segment onto the next and off the first one, on one board or
across both, with the report, its mirror and its repetition crossing; that a
second fault adds nothing `Heard` does not name is the theorem
`TrackIsKnownInTheEnd`, for any number of faults. In Locks any pair of functions is
tried at every pair of positions; the third thread is what makes a reader wait
behind a writer; circles of more threads are excluded by the theorem
`NoDeadlock`.

**Deadlock** is checked in all runs but those of Drive, Packets and Occupancy,
whose calls, messages and moves are bounded and which really stop when they are
used up. In Allocation, Startup and Start the ends are steps of their own
(`Done`, `Ready`, `Halt`, the last for a crash and for a wait for a lock of
one's own as well; in Start the reset may wait in its place for ever, as its step
is not fair); NodeStates, Transmission and Locks never stop (a reset, a
flush or a further call is always possible).

**Fairness.** NodeStates: weak fairness for the steps of the receiver inside
the table, since it holds the mutex and does not wait there; strong fairness
for answers and stall releases of each node, which share the line and find the
mutex taken now and then. The protocol obliges nodes to answer and to end a
stall. Nobody has to send or reset. `StoredIsSent` is stated for the case that stalls
stop coming: two nodes of a branch that stall in turns can hold the lower one
back for ever, in the code as in the model. Transmission: weak fairness for the
flush thread, a loop with a sleep, for the receiver and for a thread that needs
the buffer only; strong fairness for a thread that waits for the table's mutex.
Allocation and Startup: weak fairness for the polling host, the receiver and
each node that has something to answer. Start: weak fairness for the calling
thread, whose steps are enabled until it takes one, and for each thread that has
been told to end; none for `ResetNodes`, whose polling loops wait for answers that
may not come (section 5, 8), and none for reports. Occupancy: weak fairness for the receiver, the calling thread
and the arrival of mirror messages; strong fairness for each board, which shares
the line with the others and repeats what is not mirrored. All other properties
are safety and assume nothing.

## 4. What is proved

Each theorem holds for every value of the constants the named assumptions
(`NodeTableAssumption`, `TransmissionAssumption`, `DriveAssumption`...) allow; a
further hypothesis is named below. TLC had found each invariant, and the
inductive one behind it, to hold on small instances before.

**The node state table** (`NodeTableProofs`, then `NodeStatesProofs` with one
calling thread and faulty nodes), for every set of addresses, types, limits,
wraps and faults:

- `TypeCorrect`: every variable keeps its type, `0 <= response_bytes <=
  response_limit` included.
- `BudgetIsExact`: the bytes booked are the sum over the awaited answers. The
  type invariant alone is not inductive: that giving back never goes below zero
  needs the exact sum, and the sum needs that a loop in progress points into
  the queue of its node. The invariant is `TableTypeOK /\ LocalsOK /\
  BudgetExact`, where `LocalsOK` ties the locals to the table. There are no sums
  in it: `BudgetExact` says that a list of running totals exists, and a step
  gives the list for the new queue (append: one more; take off the head: shifted
  and lowered). NodeTableProofs has one lemma per operation of the table, so that
  NodeStates and Transmission prove only that they call it as the lemma asks.
- `NumbersAreConsecutive`: with one calling thread, numbers a node gets are
  consecutive, with the stored messages continuing them, across storing,
  dequeuing and resets.
- `OnlyAffectedWait`: who waits for a release is at or below a stalled node,
  each at most once.

**What the table holds back** (`NodeStatesProofs`, second half):

- `StallIsObeyed`: no step gives a message to a node while it or a node above
  it is stalled.
- `OnlyExpiryStrands`, `OnlyStallFreesStranded`: the one way into the wedge of
  section 5, and the ways out. Both are step properties: they need `OnlyAffectedWait`
  and that the operations other than the expiry leave a request open, a
  registration, or a loop that will come to the node.
- `OnlyStoredForReason`, if no answer is late (`"late" \notin Faults`): a stored
  message does not fit, or the node is stalled. The strengthening `FitsIsTried`
  says that a stored message that fits is being tried, or its node is registered
  for a release.
- `QueueMirrorsNode`, on a bus without faults (`Faults = {}`): the response queue
  is, type by type, what the node has still to answer. In between, the answer in
  hand is one to the request at the head. The run NodeStatesPunctual is without
  faults too; with late answers both properties are false.

**Transmission** (`TransmissionProofs`), for any number of callers, any nodes each
of them sends to, sizes, limits and wraps:

- `TransmissionTypeCorrect`; the inductive invariant is `TypeOK` with that of the
  table (`TypeInv`).
- `MessagesAreConserved`: for each number given out there is exactly one message,
  in the hands of a thread, stored, in the buffer or on the line. Numbers wrap,
  so that it counts: the proof moves one occurrence from one station to the next
  per step, with lemmas on occurrences under append, tail and concatenation.
- `ImplementsChannel`, `Spec => OrderedSpec`: every step of the layer is a step of
  Channel or leaves it unchanged, for all nodes with one sender at once. The
  invariant it needs beside the types is `NoneOvertakes`: while a message that was
  let through is on its way to the buffer nothing is stored for its node, or the
  receiver, sending a stored one, could overtake it. A flush is the one step in
  which the channel moves at many nodes at once; adding to the buffer is a
  flush and an append in either order.
- `AccountCovers`, and `NodesAreNotOverloaded` (`NotOverloaded`) if it speaks of every
  node: a node that one caller sends to never has more to answer than the table
  has booked. The invariant, `Balanced`, is a matching in place of sums: the requests
  among the messages a node has got and those in the buffer are the requests
  booked, one by one and in that order, without the one whose answer is being
  looked up and the one a caller has in hand. So the answer the table looks up
  belongs to the request at the head, which is what it frees the bytes of. The
  other senders of a node do not matter as long as they ask nothing
  (`ReplyUnanswered`: the mirror of the receiver has no answer), and unasked messages as
  long as they are no answers (`EventsAnswerNothing`; section 5, 11, says where
  this matters).

**Drive** (`DriveProofs`), for any threads, configured functions, speeds, low-level
messages and uses of the hand control, with no bound on either:

- `DriveTypeCorrect`; `StoredAgrees` and `NothingTakenBack`: unless a command was
  crossed, stored state and functions end as the station's. The invariant says
  where both are heading: what the library stores, once it has booked the command
  in hand and heard of the uses of the hand control, is what the station gets to
  by executing what is on the line (`Course`). `Path` is that course, state by state,
  since a fold over the line would be beyond the prover.
- `AckIsSettled`: the acknowledgement of an executed command is what remains.
- `StopsKeepDirection`, if callers of the low level and the hand control send no
  stop (`NoLowStop`, as in the run): they state a direction with it, and the train
  turns as they say.

**Start** (`StartProofs`, second part), for any vocabulary of files, any file and any outcome
of the connection: `StartInvariant` and `ThreadsAreInStep`. The invariant ties the
place a call has reached to the flags, the threads and their handles; the parsers
are of no account, as their steps leave these alone.

**Configuration** (`StartProofs`, first part), for any vocabulary, files of
any length, lists and mappings of any size, right or wrong, and any number of
starts. The assumptions are `ConfigAssumption` and `DocumentsAssumption`: bytes, ports
and bits are contained in each other, and libyaml gives no scalar that is `NULL`.

- `LookupsAreUnique`, `LinksAreComplete`: what an accepted configuration is. It takes
  more than the comparisons at the end of each parser. An id is unique among the
  elements of all boards only as long as every element has a state, which is
  what is compared with; and that every element has one needs the rest.
- `ElementsAreOwn`: no part of an element is taken for a part of another one.
- `ErrorsCrash`: a pointer that is `NULL` or not set is followed only at the end of an
  element with an error.

The inductive invariant is `ConfigInv`. Nothing is left to rely on once a parser has
met an error, and no error is ever taken back; so its parts hold as long as the
parser on top has met none (`Going`). `Nesting` says for each parser on the stack what
it has read where it is (`ElementOK`, `SetupOK`, `BoardOK`, `TrainOK`, `SectionOK`), and
that the one below stands where it calls it (`Calls`). `Alternating` says that above
the list of the file mappings and lists take turns, and how many there are for
the stack (`Depth`); so the end of a collection is met by the parser that met its
start. `Built` says that the state is unique and linked, up to what a parser has noted
of an element that is not in the state yet: the booster of a board
(`PendingBoosters`) and an initial value (`PendingInitial`). `LoadInv` adds that
a configuration is read by a start only and begins with nothing in the state.

**Allocation and Startup** (`StartupProofs`), for behaviours in which no table changes
during the dialogue (`changes = 0`), with any tables, any queue from one place on,
boards, features and order of the boards, refusals, and nodes coming and going
after the dialogue as often as they like. Three hypotheses say what the bus is
like: `TwoLevels`, the interface and its hubs have tables, which is as far as
`Reachable` of Allocation looks; `OnePlace`, at any time a node has one address and an
address one node; and for the last theorem `HubsConfigured` (Bounds, section 3).
The instance of Startup is of this kind. `AllocationAssumption` says that no two rows of
a table have the same local address, `StartupAssumption` that there is a board.

- `BoardsAreFound` (`Allocated`): at the end of the dialogue every configured board on
  the bus is noted where it is, and none that is not. The invariant is
  `UnchangedInv`: rows arrive in the order of the table and are the table's
  (`RowsComing`); what has been read is noted, and its hubs are queued, asked, or noted
  with what is behind them (`Progress`). If the queue overflows, fewer rows are read
  than were announced, so that a dialogue that has lost a row does not end (`Whole`).
- `OneNumberIsSkipped` (`NumbersInStep`): the number of `MSG_SYS_RESET` is skipped once,
  however many hubs are asked.
- `FeaturesReachBoards` (`FeaturesSet`, without its case of two boards at one address,
  which takes a change): the caller waits for at least as many answers as there are
  requests and answers on their way, and for more once one was a refusal
  (`Awaiting`). So the turn of the next board comes with nothing left on the
  way, and an answer is never taken for one of another board.
- `LostAreForgotten` (`LostIsForgotten`): `boards` may be wrong as long as reports are on
  their way. But what the messages on the bus will make of it, one after the
  other (`Leads`), is always right: what it notes is on the bus, and it knows
  all hubs (`Right`). The second half is needed: what is behind a lost hub is
  forgotten by the address noted for the hub, and that may stem from a report
  that is still to be handled.

**Occupancy** (`OccupancyProofs`), for any boards, segments and trains, any moves,
losses, and boards taken off and put back:

- `TrainsAreFollowed`: after every message the trains are where the segments say.
- `TrackIsKnownInTheEnd`: the inductive invariant `OccupancyInv` says of each
  segment that the last report of it on the line is true or will be followed by
  another one, and that with none on the line what is stored is true, or the
  report is `missing` (`LastReportTrue`, `LastAddressTrue`); that the mirror
  messages on their way say what the library stores (`MirrorTrue`), so that a
  board that has heard the last of them and says nothing is content with the truth
  (`HeardTrue`); that reports are handled while their board is connected
  (`ReportsInTime`); and that a segment reported free has its addresses cleared (`FreeIsFollowed`).

**LocksProofs**, for any number of threads, any locks and any functions that
keep three rules (`Disciplined`): locks are taken upwards in a fixed order, data
is touched under its lock, every way out has released everything. The invariant
is `TypeOK /\ Exclusion /\ RulesKept`: no two threads have a lock in excluding
ways, and what is left of each thread's function keeps the rules from the locks
the thread has now. The lemma it turns on is `HeldTail`: the locks at a step of
a function are those at the step before in what remains of it.

- `LocksTypeCorrect`; `RaceFree`; `NothingHeldOutside`.
- `NoDeadlock`: in no group of threads does each wait for another one. Of the
  locks awaited take one of the highest rank; its holder would wait for a higher
  one. POSIX lets an implementation keep a reader out while a writer waits, so
  waiting behind a writer counts as waiting; that writer waits for a holder.

That libbidib's functions keep the rules is not assumed: the property
`CallsKeepRules` of the run Locks checks it for each sequence of LockPaths that
a thread of the run calls. The order found is trains, then one of the mutexes
of accessories, peripherals, segments, reversers, boosters or track outputs,
then the train states, then boards, then the action id or the node table, then
the send buffer and the queues.

**Only model-checked:**

- Liveness (`StoredIsSent`, `AllTransmitted`, `Finishes`, `StartsUp`,
  `StartReturns`, `OccupancySettles`), beyond the prover.
- Packets: its escapes and CRC need bitwise and recursive operators.
- `NotOverloaded` of Transmission where several callers send to one node; it does not
  hold for every choice of types then (section 5, 4).
- `Allocated`, `NumbersInStep` and `FeaturesSet` when tables change during the dialogue
  (`LostIsForgotten` does not speak of that case). They depend on the bounds then: a
  table that changes oftener than the intern queue has places makes it overflow,
  two changes that shorten a table leave rows of the old one behind, and with a
  hub that changes they are false (section 5, 2).
- `TypeCorrect` and `OnlyAffectedWait` are checked by the run NodeStatesFaults as
  well; the type invariants of Locks, Transmission and Drive and the inductive
  invariants are proved and not checked by a run.

## 5. Where the code and its documentation differ

Two are the violated properties of runs; `PROJECT.json` has the quotations.

1. *NodeStatesWedge.* When the last open request of a node expires, the stored
   messages are not tried, and later messages queue up behind them until the
   node stalls or is reset. `StrandedOnlyByExpiry` and `StrandedUntilStall` (which hold) say
   that this is the only way in, and what the ways out are.
2. *AllocationMixup.* After a restart, rows of a hub that were requested before
   are taken for rows of the interface.

Others were seen while modelling. They have no run of their own; the properties
that hold are stated so as to leave them out, and say so.

3. A stall reported by the interface holds back nothing: the walk over the
   supernodes ends before it (`transmission/bidib_transmission_node_states.c:123`;
   `StallObeyed` speaks of nodes only).
4. Two threads that send to one node can swap their messages between number and
   buffer (`transmission/bidib_transmission_send.c:237`; `OrderedSpec` is for nodes
   with one sender). Then an answer can be taken for one to the other request: after
   `MSG_NODETAB_GETNEXT` and `MSG_NODETAB_GETALL`, both answered by `MSG_NODETAB_COUNT`, 13
   bytes are freed for an answer of 5 (`transmission/bidib_transmission_responses.c:48`), so
   `NotOverloaded` is proved for nodes with one caller.
5. Each restart of the allocation skips a number of the interface again
   (`state/bidib_state.c:217`); `NumbersInStep` bounds how far it gets out of step.
6. `bidib_send_cs_drive` buffers and updates in two critical sections; concurrent
   commands can leave the state of one and the train under the other
   (`lowlevel/bidib_lowlevel_track.c:84`; `crossed` in Drive).
7. A start that fails need not return 1 (`src/include/highlevel/bidib_highlevel_util.h:51`,
   "0 if configs are valid, otherwise 1"). After a failed first
   `bidib_start_serial` the stop writes through a function that was never set;
   after a DCC accessory that was refused the reset or the stop waits for the
   read lock that `state/bidib_state.c:641` and `:659` left behind. After any other
   rejected configuration `bidib_start_pointer` resets the bus all the same, and
   may crash at an unfinished element: in a look-up of an initial value
   (`highlevel/bidib_highlevel_setter.c:88`), or in the handler of a report, as
   `bidib_state_bm_confidence`, which takes every segment to have a state
   (`state/bidib_state_setter.c:695`). And any start may wait for answers to the
   reset for ever (8). `StartReturns` allows for a crash, for the wait for that lock
   after a rejected configuration, and for a reset that waits for answers; it
   excludes any other way not to return. In particular no start with an accepted
   configuration waits for a lock of its own.
8. The features of a board are set with the boards locked for reading. A refusal
   (`MSG_FEATURE_NA`), an answer dropped from the full queue, a board that is gone,
   or a node that comes or goes meanwhile leaves the start waiting for ever
   (`state/bidib_state.c:270`). `StartsUp` names these four and excludes others. In
   Start these loops, and that of the node table (`state/bidib_state.c:153`), are
   in `ResetNodes`, the one step of a call that need not happen.
9. Occupancy is asked for only from boards with bit 4 of the class id, the bit of
   command stations, not bit 6, that of occupancy detectors
   (`state/bidib_state.c:242`), and never again for a board that comes back; the
   segments of a board that is lost stay as they were, and trains with them.
10. A hub that comes back is noted again; the boards below it are not.
11. The table looks at the type of a message only. One that a node sends unasked
    is taken for the answer to an open request that it could be: `MSG_BM_OCC` for that
    to `MSG_BM_GET_RANGE` (`transmission/bidib_transmission_responses.c:72`),
    `MSG_ACCESSORY_STATE` for that to `MSG_ACCESSORY_SET` (`:100`). Its bytes are free then
    while the node still has to answer. Occupancy is what Transmission lets a node
    send unasked, and its callers send no `MSG_BM_GET_RANGE`.

## 6. Plan

1. **Theorems.** `Allocated` and `NumbersInStep` for changes of the table of the interface
   that neither fill the intern queue nor leave rows behind.
2. **Accessories**: point, signal, peripheral, reverser, with their reports and
   waiting states; boosters and track outputs.
3. **The rest of the reset**: `bidib_state_reset_train_params` and the initial
   values, with the boards coming and going (`state/bidib_state.c:923`).
4. **Queues**: those of the user and of errors, with their limits and readers.

**Not modelled.** `state/bidib_state.c:358` (the initial values read the track
outputs without their mutex); what the getters copy, field by field; confidence,
current, speed and diagnostics of decoders (one assignment each, below locks that
LockPaths has); the bytes of the low-level builders (a fixed layout each); the
names of messages; I/O of the serial port; the order in which
`bidib_state_free` frees fields when no thread is left; the scanner of libyaml.

------------------------------ MODULE Startup --------------------------------
(****************************************************************************)
(* The features of the boards, set by bidib_state_set_board_features once   *)
(* the node tables have been read (bidib_send_sys_reset).  The caller holds *)
(* bidib_boards_rwlock for reading all the time; it sends all the features  *)
(* of a board and then takes as many MSG_FEATURE from the intern queue,     *)
(* whoever has sent them.  Meanwhile the receiver goes on: it queues the    *)
(* answers, and needs the same lock for writing when the interface or a hub *)
(* reports that a node is new or lost.                                      *)
(*                                                                          *)
(* A board that is noted need not be there any more: nothing takes back the *)
(* address that an earlier pass over the node tables has noted.             *)
(****************************************************************************)
EXTENDS Allocation, SequencesExt

CONSTANTS
  BoardOrder,      \* Configured, in the order of bidib_boards: one board or more
  Features,        \* Features[b]: numbers of the features configured for board b
  MayRefuse,       \* pairs <<u, f>>: node u may answer MSG_FEATURE_NA to feature f
  Unset,           \* a feature has the value the node came with
  MaxReports       \* bound: MSG_NODE_NEW and MSG_NODE_LOST

Numbers == UNION {Range(Features[b]) : b \in Configured}

ASSUME StartupAssumption ==
  /\ BoardOrder \in Seq(Configured) /\ BoardOrder # << >>
  /\ Range(BoardOrder) = Configured /\ Len(BoardOrder) = Cardinality(Configured)
  /\ Features \in [Configured -> Seq(Numbers)]
  /\ MayRefuse \subseteq Uid \X Numbers

VARIABLES
  step,            \* of the caller: "set" the features of a board, "await" the
                   \* answers, "ready" when all boards have had their turn
  board,           \* index of that board in bidib_boards
  awaited,         \* answers it still waits for
  reading,         \* bidib_boards_rwlock is held for reading
  feature_requests,\* feature_requests[u]: MSG_FEATURE_SET node u has not answered
  value,           \* value[u][f]: the board whose value feature f of node u has
  uplink,          \* messages of the bus the receiver has not handled
  refused,         \* features in the MSG_FEATURE_NA of the error queue
  dropped,         \* history: a message was dropped from the full intern queue
  reports          \* nodes reported new or lost so far

caller == <<step, board, awaited, reading>>
bus == <<feature_requests, value, uplink, reports>>
featureVars == <<caller, bus, refused, dropped>>
allVars == <<vars, featureVars>>

----------------------------------------------------------------------------
(* The node tables: Allocation, where the receiver has handled what an      *)
(* interface answers as soon as it is sent, unless it is held up.           *)

Caller == Host /\ UNCHANGED featureVars

Changes == (\E n \in Interface : Change(n)) /\ UNCHANGED featureVars

\* Whether the intern queue was full when a message came.
NoteDrop == dropped' = (dropped \/ Len(uplink_intern_queue) = QUEUE_SIZE)

Answer(n) ==
  /\ Reachable(n) /\ uplink = << >>
  /\ Serve(n)
  /\ IF uplink_intern_queue' = uplink_intern_queue THEN UNCHANGED dropped ELSE NoteDrop
  /\ UNCHANGED <<caller, bus, refused>>

NodesAt(a) == {e[1] : e \in {x \in Entries : x[2] = a}}
OnBus == {e[1] : e \in Entries}

----------------------------------------------------------------------------
(* bidib_state_set_board_features.                                          *)

\* Mutant: the lock is not released at the end.
NextBoardLocked ==
  /\ board' = board + 1
  /\ step' = IF board = Len(BoardOrder) THEN "ready" ELSE "set"
  /\ reading' = TRUE

NextBoard ==
  /\ board' = board + 1
  /\ step' = IF board = Len(BoardOrder) THEN "ready" ELSE "set"
  /\ reading' = (board < Len(BoardOrder))

\* MSG_FEATURE_SET for every feature of b, to the address noted for it.
SendFeatures(b) ==
  LET sent == [k \in DOMAIN Features[b] |-> [number |-> Features[b][k], of |-> b]] IN
    feature_requests' = [u \in Uid |-> IF u \in NodesAt(boards[b])
                                       THEN feature_requests[u] \o sent ELSE feature_requests[u]]

\* Mutant: the first answer is enough.
AwaitOne(b) == awaited' = 1

AwaitAll(b) == awaited' = Len(Features[b])

SetFeatures ==
  /\ pc = "done" /\ step = "set"
  /\ LET b == BoardOrder[board] IN
       IF boards[b] = NoAddr \/ Features[b] = << >>
       THEN NextBoard /\ UNCHANGED <<awaited, feature_requests>>
       ELSE /\ SendFeatures(b)
            /\ AwaitAll(b)
            /\ step' = "await" /\ reading' = TRUE
            /\ UNCHANGED board
  /\ UNCHANGED <<vars, value, uplink, reports, refused, dropped>>

\* It takes any MSG_FEATURE for an answer, whose number and value are only
\* logged, and throws away what else has been left in the queue.
AwaitFeature ==
  /\ step = "await" /\ uplink_intern_queue # << >>
  /\ uplink_intern_queue' = Tail(uplink_intern_queue)
  /\ IF Head(uplink_intern_queue).type = "MSG_FEATURE"
     THEN /\ awaited' = awaited - 1
          /\ IF awaited = 1 THEN NextBoard ELSE UNCHANGED <<step, board, reading>>
     ELSE UNCHANGED caller
  /\ UNCHANGED <<host, nodes, requests, changes, bus, refused, dropped>>

Poll ==
  /\ step = "await" /\ uplink_intern_queue = << >>
  /\ UNCHANGED allVars

----------------------------------------------------------------------------
(* The bus.                                                                 *)

\* u answers its oldest MSG_FEATURE_SET.
ServeFeature(u) ==
  /\ feature_requests[u] # << >>
  /\ LET r == Head(feature_requests[u]) IN
       \/ /\ uplink' = Append(uplink, [type |-> "MSG_FEATURE"])
          /\ value' = [value EXCEPT ![u][r.number] = r.of]
       \/ /\ <<u, r.number>> \in MayRefuse
          /\ uplink' = Append(uplink, [type |-> "MSG_FEATURE_NA", number |-> r.number])
          /\ UNCHANGED value
  /\ feature_requests' = [feature_requests EXCEPT ![u] = Tail(@)]
  /\ UNCHANGED <<vars, caller, refused, dropped, reports>>

\* The last node of a table leaves, with all that is below it, or one more comes.
Reported(n, t) ==
  \/ /\ Len(nodetab[n]) > 1 /\ t = Front(nodetab[n])
     /\ uplink' = Append(uplink, [type |-> "MSG_NODE_LOST", node |-> n, entry |-> Last(nodetab[n])])
  \/ /\ Len(t) = Len(nodetab[n]) + 1 /\ IsPrefix(nodetab[n], t)
     /\ uplink' = Append(uplink, [type |-> "MSG_NODE_NEW", node |-> n, entry |-> Last(t)])

Report(n) ==
  /\ pc = "done" /\ reports < MaxReports
  /\ Reachable(n) /\ ~changed[n]
  /\ \E t \in Tables[n] \cup {Front(nodetab[n])} :
       Reported(n, t) /\ nodetab' = [nodetab EXCEPT ![n] = t]
  /\ requests' = [m \in Interface |-> IF Reachable(m)' THEN requests[m] ELSE << >>]
  /\ feature_requests' = [u \in Uid |-> IF u \in OnBus' THEN feature_requests[u] ELSE << >>]
  /\ value' = [u \in Uid |-> IF u \in OnBus' THEN value[u] ELSE [f \in Numbers |-> Unset]]
  /\ reports' = reports + 1
  /\ UNCHANGED <<host, uplink_intern_queue, changed, row, changes, caller, refused, dropped>>

----------------------------------------------------------------------------
(* The receiver: bidib_handle_received_message.                             *)

Incoming(type) == uplink # << >> /\ Head(uplink).type = type /\ uplink' = Tail(uplink)

HandleFeature ==
  /\ Incoming("MSG_FEATURE")
  /\ Enqueue(Head(uplink)) /\ NoteDrop
  /\ UNCHANGED <<host, nodes, requests, changes, caller, feature_requests, value, reports, refused>>

HandleFeatureNa ==
  /\ Incoming("MSG_FEATURE_NA")
  /\ refused' = refused \cup {Head(uplink).number}
  /\ UNCHANGED <<vars, caller, feature_requests, value, reports, dropped>>

\* An address of a board below h (bidib_state_is_subnode).
IsBelow(h, a) == h # NoAddr /\ a # NoAddr /\ IsStrictPrefix(h, a)

\* Mutant: the nodes below one that is lost are forgotten.
LoseOne(u) == [b \in Configured |-> IF b = u THEN NoAddr ELSE boards[b]]

Lose(u) ==
  [b \in Configured |-> IF b = u \/ (u \in HasSubnodes /\ IsBelow(boards[u], boards[b]))
                        THEN NoAddr ELSE boards[b]]

\* bidib_state_node_lost and bidib_state_node_new: both wait for the readers.
HandleLost ==
  /\ ~reading
  /\ Incoming("MSG_NODE_LOST")
  /\ LET u == Head(uplink).entry.uid IN
       boards' = IF u \in Configured THEN Lose(u) ELSE boards
  /\ UNCHANGED <<pc, asked, node_count, i, sub_iface_queue, skew, uplink_intern_queue, nodes,
                 requests, changes, caller, feature_requests, value, reports, refused, dropped>>

HandleNew ==
  /\ ~reading
  /\ Incoming("MSG_NODE_NEW")
  /\ LET m == Head(uplink) IN
       boards' = IF m.entry.uid \in Configured
                 THEN [boards EXCEPT ![m.entry.uid] = Below(m.node, m.entry.local)] ELSE boards
  /\ UNCHANGED <<pc, asked, node_count, i, sub_iface_queue, skew, uplink_intern_queue, nodes,
                 requests, changes, caller, feature_requests, value, reports, refused, dropped>>

----------------------------------------------------------------------------
StartupInit ==
  /\ Init
  /\ step = "set" /\ board = 1 /\ awaited = 0 /\ reading = FALSE
  /\ feature_requests = [u \in Uid |-> << >>]
  /\ value = [u \in Uid |-> [f \in Numbers |-> Unset]]
  /\ uplink = << >> /\ reports = 0
  /\ refused = {} /\ dropped = FALSE

SetBoardFeatures == SetFeatures \/ AwaitFeature \/ Poll

Receiver == HandleFeature \/ HandleFeatureNa \/ HandleLost \/ HandleNew

Ready == step = "ready" /\ UNCHANGED allVars

StartupNext ==
  \/ Caller \/ Changes \/ SetBoardFeatures \/ Receiver \/ Ready
  \/ \E n \in Interface : Answer(n) \/ Report(n)
  \/ \E u \in Uid : ServeFeature(u)

(* The caller and the receiver go on, and nodes answer; no table needs to   *)
(* change.                                                                  *)
StartupSpec ==
  /\ StartupInit /\ [][StartupNext]_allVars
  /\ WF_allVars(Caller) /\ WF_allVars(SetBoardFeatures) /\ WF_allVars(Receiver)
  /\ \A n \in Interface : WF_allVars(Answer(n))
  /\ \A u \in Uid : WF_allVars(ServeFeature(u))

----------------------------------------------------------------------------
\* Another board is noted at the address of b, where it was before b.
Shared(b) == \E c \in Configured \ {b} : boards[c] = boards[b]

(* When all boards have had their turn, and meanwhile none was reported new *)
(* or lost and no message was dropped from the full queue, every board of   *)
(* the bus has its own features, all of them, unless a board that is gone   *)
(* still counts as connected at its address: then the features of the two   *)
(* are mixed up (bidib_state_set_board_features counts answers without      *)
(* looking at who has sent them).                                           *)
FeaturesSet ==
  step = "ready" /\ Settled /\ reports = 0 /\ ~dropped =>
    \A b \in Configured \cap OnBus : Shared(b) \/ \A f \in Range(Features[b]) : value[b][f] = b

(* A board that is reported lost is no longer connected once the receiver   *)
(* has handled what the bus has sent, nor is any board below it; only a     *)
(* board that was gone before the last pass over the tables stays connected *)
(* (bidib_state_node_lost; all hubs are configured).                        *)
LostIsForgotten ==
  uplink = << >> /\ pc = "done" /\ changes = 0 =>
    \A b \in Configured : boards[b] # NoAddr => <<b, boards[b]>> \in Entries

\* The answers waited for will not come: one was a refusal or was dropped, the
\* board is not there, or the receiver waits for the lock the caller holds.
Hopeless ==
  /\ step = "await"
  /\ \/ refused # {} \/ dropped
     \/ NodesAt(boards[BoardOrder[board]]) = {}
     \/ uplink # << >> /\ Head(uplink).type \in {"MSG_NODE_LOST", "MSG_NODE_NEW"}

(* The features get set, the start goes on and the receiver handles what    *)
(* comes, or the caller waits for ever for one of these four reasons, and   *)
(* for no other.                                                            *)
StartsUp == <>[](step = "ready" /\ uplink = << >>) \/ <>[]Hopeless
=============================================================================

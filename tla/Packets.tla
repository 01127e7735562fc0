------------------------------ MODULE Packets --------------------------------
(****************************************************************************)
(* The serial line, byte by byte: bidib_flush_impl makes a packet of the    *)
(* messages in the send buffer (delimiters, escapes, CRC) and writes it in  *)
(* pieces as long as the auxiliary buffer; bidib_receive_packet finds the   *)
(* packets again, and bidib_split_packet takes out the messages and watches *)
(* their sequence numbers.  The line may lose bytes, and the receiver drops *)
(* them while bidib_discard_rx is set.                                      *)
(*                                                                          *)
(* Both ends speak the same protocol, so that the code of the sending side  *)
(* stands for the node too.  The messages are those of one node, each with  *)
(* one byte of data; a byte on the line carries the number of its packet,   *)
(* which only the properties look at.                                       *)
(****************************************************************************)
EXTENDS Integers, Bitwise, SequencesExt

CONSTANTS
  Data,            \* data bytes of the messages
  FirstSeqnum,     \* sequence number of the first message
  pkt_max_cap,     \* a packet has at most so many bytes
  PACKET_BUFFER_AUX_SIZE,
  MaxMessages,     \* bound: messages
  MaxLost,         \* bound: bytes the line loses
  MaxToggles       \* bound: changes of bidib_discard_rx

BIDIB_PKT_MAGIC == 254
BIDIB_PKT_ESCAPE == 253
MSG_TYPE == 144    \* any type the receiver queues
Length == 5        \* bytes of a message: length, address, number, type and data

ASSUME PacketsAssumption ==
  /\ Data \subseteq 0..255 /\ FirstSeqnum \in 1..255
  /\ pkt_max_cap \in Nat /\ pkt_max_cap >= Length
  /\ PACKET_BUFFER_AUX_SIZE \in Nat /\ PACKET_BUFFER_AUX_SIZE > 5

VARIABLES
  send_seqnum,     \* of the node
  buffer,          \* the send buffer
  pieces,          \* lengths of the writes of the last flush
  line,            \* bytes written and not read
  bidib_discard_rx,
  in_packet,       \* the receiver has read its first delimiter
  read,            \* buffer of bidib_receive_packet
  escape_hot,
  receive_seqnum,  \* expected of the node
  wrong,           \* "Wrong sequence number" logged
  received,        \* messages handed to bidib_handle_received_message
  sent,            \* history: the messages with the packets they are in
  damaged,         \* history: packets of which a byte was lost or dropped
  lost, toggles    \* history: how often that happened

sender == <<send_seqnum, buffer, pieces, sent>>
reader == <<in_packet, read, escape_hot, receive_seqnum, wrong, received>>
vars == <<sender, reader, line, bidib_discard_rx, damaged, lost, toggles>>

----------------------------------------------------------------------------
(* Bytes.                                                                   *)

Escaped(b) == b ^^ 32

\* bidib_crc_array: the CRC-8 with the polynomial x^8 + x^5 + x^4 + 1.
bidib_crc_array ==
  LET shift(c) == IF c % 2 = 1 THEN (c \div 2) ^^ 140 ELSE c \div 2
  IN [c \in 0..255 |-> shift(shift(shift(shift(shift(shift(shift(shift(c))))))))]

Crc(bytes) == FoldLeft(LAMBDA c, b : bidib_crc_array[b ^^ c], 0, bytes)

\* The number after n; 0 is for messages without a number.
Succ(n) == IF n = 255 THEN 1 ELSE n + 1

----------------------------------------------------------------------------
(* The sending side.                                                        *)

PacketOf(k) == IF sent = << >> THEN k ELSE Last(sent).packet + k

\* bidib_buffer_message_with_data and bidib_add_to_buffer; a full buffer is
\* flushed first (Transmission).
Buffer(d) ==
  /\ Len(sent) < MaxMessages
  /\ Len(buffer) + Length <= pkt_max_cap
  /\ LET m == <<Length - 1, 0, send_seqnum, MSG_TYPE, d>> IN
       /\ buffer' = buffer \o m
       /\ sent' = Append(sent, [message |-> m, packet |-> PacketOf(IF buffer = << >> THEN 1 ELSE 0)])
  /\ send_seqnum' = Succ(send_seqnum)
  /\ UNCHANGED <<pieces, line, bidib_discard_rx, reader, damaged, lost, toggles>>

Stuffed(b) ==
  IF b \in {BIDIB_PKT_MAGIC, BIDIB_PKT_ESCAPE} THEN <<BIDIB_PKT_ESCAPE, Escaped(b)>> ELSE <<b>>

\* Mutants: the auxiliary buffer is not looked at; a full one is not written.
PutUnbounded(w, room, bytes) == [w EXCEPT !.aux = @ \o bytes]
PutDropping(w, room, bytes) ==
  IF Len(w.aux) + room >= PACKET_BUFFER_AUX_SIZE
  THEN [w EXCEPT !.aux = bytes] ELSE [w EXCEPT !.aux = @ \o bytes]

\* The auxiliary buffer is written out when less than room bytes are free.
Put(w, room, bytes) ==
  IF Len(w.aux) + room >= PACKET_BUFFER_AUX_SIZE
  THEN [written |-> Append(w.written, w.aux), aux |-> bytes]
  ELSE [w EXCEPT !.aux = @ \o bytes]

\* bidib_flush_impl: the writes that send the bytes of the buffer.
Writes(bytes) ==
  LET start == [written |-> << >>, aux |-> <<BIDIB_PKT_MAGIC>>]
      body == FoldLeft(LAMBDA w, b : Put(w, 3, Stuffed(b)), start, bytes)
      end == Put(body, 4, Stuffed(Crc(bytes)) \o <<BIDIB_PKT_MAGIC>>)
  IN Append(end.written, end.aux)

Flush ==
  /\ buffer # << >>
  /\ LET writes == Writes(buffer)
         bytes == FlattenSeq(writes)
     IN /\ pieces' = [k \in DOMAIN writes |-> Len(writes[k])]
        /\ line' = line \o [k \in DOMAIN bytes |-> [byte |-> bytes[k], packet |-> PacketOf(0)]]
  /\ buffer' = << >>
  /\ UNCHANGED <<send_seqnum, sent, bidib_discard_rx, reader, damaged, lost, toggles>>

----------------------------------------------------------------------------
(* The line and bidib_discard_rx, which bidib_communication_works changes.  *)

Lose ==
  /\ lost < MaxLost
  /\ \E k \in DOMAIN line :
       /\ line' = RemoveAt(line, k)
       /\ damaged' = damaged \cup {line[k].packet}
  /\ lost' = lost + 1
  /\ UNCHANGED <<sender, reader, bidib_discard_rx, toggles>>

Toggle ==
  /\ toggles < MaxToggles
  /\ bidib_discard_rx' = ~bidib_discard_rx
  /\ toggles' = toggles + 1
  /\ UNCHANGED <<sender, reader, line, damaged, lost>>

----------------------------------------------------------------------------
(* The receiving side.                                                      *)

\* The byte read next.
NextByte == Head(line).byte
Drop == damaged' = damaged \cup {Head(line).packet}

\* bidib_receive_first_pkt_magic.
AwaitMagic ==
  /\ ~in_packet
  /\ line # << >> /\ line' = Tail(line)
  /\ IF ~bidib_discard_rx /\ NextByte = BIDIB_PKT_MAGIC
     THEN in_packet' = TRUE /\ UNCHANGED damaged
     ELSE Drop /\ UNCHANGED in_packet
  /\ UNCHANGED <<sender, read, escape_hot, receive_seqnum, wrong, received, bidib_discard_rx, lost, toggles>>

\* bidib_receive_packet, a byte of the packet.
ReadByte ==
  /\ in_packet /\ ~bidib_discard_rx
  /\ line # << >> /\ line' = Tail(line)
  /\ \/ NextByte = BIDIB_PKT_MAGIC /\ read = << >> /\ UNCHANGED <<read, escape_hot>>
     \/ NextByte = BIDIB_PKT_ESCAPE /\ escape_hot' = TRUE /\ UNCHANGED read
     \/ /\ NextByte \notin {BIDIB_PKT_MAGIC, BIDIB_PKT_ESCAPE}
        /\ read' = Append(read, [Head(line) EXCEPT !.byte = IF escape_hot THEN Escaped(@) ELSE @])
        /\ escape_hot' = FALSE
  /\ UNCHANGED <<sender, in_packet, receive_seqnum, wrong, received, bidib_discard_rx, damaged, lost, toggles>>

\* bidib_split_packet: each message begins with its length.
RECURSIVE Split(_)
Split(bytes) ==
  IF bytes = << >> THEN << >>
  ELSE LET n == IF bytes[1] + 1 < Len(bytes) THEN bytes[1] + 1 ELSE Len(bytes)
       IN <<SubSeq(bytes, 1, n)>> \o Split(SubSeq(bytes, n + 1, Len(bytes)))

\* Mutant: the number after one that was not expected is not wrapped.
CheckNoWrap(s, m) ==
  IF m[3] = s.expected THEN [s EXCEPT !.expected = Succ(@)]
  ELSE [expected |-> (m[3] + 1) % 256, wrong |-> s.wrong + 1]

\* A number that was not expected is logged, and the next one is expected after it.
Check(s, m) ==
  IF m[3] = s.expected THEN [s EXCEPT !.expected = Succ(@)]
  ELSE [expected |-> Succ(m[3]), wrong |-> s.wrong + 1]

Accept(bytes) == Crc(bytes) = 0

\* The delimiter at the end of a packet; an escape before it has no effect.
EndPacket ==
  /\ in_packet /\ ~bidib_discard_rx
  /\ line # << >> /\ NextByte = BIDIB_PKT_MAGIC /\ read # << >>
  /\ line' = Tail(line)
  /\ read' = << >> /\ escape_hot' = FALSE
  /\ LET bytes == [k \in DOMAIN read |-> read[k].byte]
         messages == IF Accept(bytes) THEN Split(Front(bytes)) ELSE << >>
         s == FoldLeft(Check, [expected |-> receive_seqnum, wrong |-> wrong], messages)
     IN /\ received' = received \o messages
        /\ receive_seqnum' = s.expected /\ wrong' = s.wrong
  /\ UNCHANGED <<sender, in_packet, bidib_discard_rx, damaged, lost, toggles>>

\* The receiver notices that bytes are to be discarded, and begins anew.
Abandon ==
  /\ in_packet /\ bidib_discard_rx
  /\ in_packet' = FALSE /\ read' = << >> /\ escape_hot' = FALSE
  /\ damaged' = damaged \cup {read[k].packet : k \in DOMAIN read}
  /\ UNCHANGED <<sender, receive_seqnum, wrong, received, line, bidib_discard_rx, lost, toggles>>

----------------------------------------------------------------------------
Init ==
  /\ send_seqnum = FirstSeqnum /\ buffer = << >> /\ pieces = << >> /\ sent = << >>
  /\ line = << >> /\ bidib_discard_rx = TRUE
  /\ in_packet = FALSE /\ read = << >> /\ escape_hot = FALSE
  /\ receive_seqnum = FirstSeqnum /\ wrong = 0 /\ received = << >>
  /\ damaged = {} /\ lost = 0 /\ toggles = 0

Receiver == AwaitMagic \/ ReadByte \/ EndPacket \/ Abandon

Next == Flush \/ Lose \/ Toggle \/ Receiver \/ \E d \in Data : Buffer(d)

Spec == Init /\ [][Next]_vars

----------------------------------------------------------------------------
(* Nothing is written beyond the end of the auxiliary buffer, whatever has  *)
(* to be escaped.                                                           *)
PiecesFit == \A k \in DOMAIN pieces : pieces[k] <= PACKET_BUFFER_AUX_SIZE

Messages == [k \in DOMAIN sent |-> sent[k].message]
OnTheWay(p) == \/ buffer # << >> /\ p = PacketOf(0)
               \/ \E k \in DOMAIN line : line[k].packet = p
               \/ \E k \in DOMAIN read : read[k].packet = p

(* What is received has been sent, in this order, and a packet that arrives *)
(* whole is received, whatever has happened to the packets around it and    *)
(* wherever its pieces were cut.                                            *)
Intact ==
  /\ received = SelectSeq(Messages, LAMBDA m : m \in Range(received))
  /\ \A k \in DOMAIN sent :
       sent[k].packet \notin damaged /\ ~OnTheWay(sent[k].packet) => sent[k].message \in Range(received)

\* Number k of the messages received.
Number(k) == received[k][3]
Gaps == {k \in DOMAIN received : Number(k) # IF k = 1 THEN FirstSeqnum ELSE Succ(Number(k - 1))}

(* Each gap in the numbers is noticed, once, and nothing else is taken for  *)
(* one, also where the numbers start again with 1.                          *)
GapsNoticed == wrong = Cardinality(Gaps)
=============================================================================

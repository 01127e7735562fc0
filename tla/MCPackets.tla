------------------------------ MODULE MCPackets ------------------------------
(* Instances of Packets.  The numbers of the messages are 254, which has to *)
(* be escaped, 255 and 1; a packet has one message or two.                  *)
EXTENDS Packets

MCData == {0, BIDIB_PKT_MAGIC}
MCFirstSeqnum == 254
OneOrTwo == 2 * Length
=============================================================================

SPECIFICATION Spec
CONSTANTS
  Data <- MCData
  FirstSeqnum <- MCFirstSeqnum
  pkt_max_cap <- OneOrTwo
  PACKET_BUFFER_AUX_SIZE = 8
  MaxMessages = 3
  MaxLost = 1
  MaxToggles = 3
INVARIANTS PiecesFit Intact GapsNoticed
CHECK_DEADLOCK FALSE

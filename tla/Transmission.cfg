SPECIFICATION FairSpec
CONSTANTS
  Address <- Branch
  Type <- MCType
  Uplink <- MCUplink
  Answers <- MCAnswers
  MaxResponse <- MCMaxResponse
  response_limit = 1
  MaxSeqnum = 3
  NoNode = NoNode
  NoType = NoType
  Caller = {"main"}
  Receiver = "receiver"
  SendTo <- MCSendTo
  CallType = {"magic", "enable"}
  ReplyType = "mirror"
  Occupancy = "OCC"
  Stall = "STALL"
  Size <- MCSize
  pkt_max_cap = 3
  MinSize = 1
  MaxCalls = 3
  MaxEvents = 1
INVARIANTS Conserved NotOverloaded
PROPERTIES AllTransmitted OrderedSpec

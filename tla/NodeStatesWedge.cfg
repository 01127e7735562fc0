SPECIFICATION Spec
CONSTANTS
  Address <- Leaf
  Type <- PlainType
  Uplink <- PlainUplink
  Answers <- PlainAnswers
  MaxResponse <- PlainMaxResponse
  response_limit = 1
  MaxSeqnum = 2
  NoNode = NoNode
  NoType = NoType
  Faults = {"late", "unasked"}
  MaxStored = 1
  MaxOwed = 2
INVARIANTS NoneStranded

SPECIFICATION FairSpec
CONSTANTS
  Address <- Branch
  Type <- PlainType
  Uplink <- PlainUplink
  Answers <- PlainAnswers
  MaxResponse <- PlainMaxResponse
  response_limit = 2
  MaxSeqnum = 2
  NoNode = NoNode
  NoType = NoType
  Faults = {}
  MaxStored = 1
  MaxOwed = 2
INVARIANTS Consecutive Mirror StoredForReason
PROPERTIES StoredIsSent

SPECIFICATION Spec
CONSTANTS
  Address <- Branch
  Type <- MCType
  Uplink <- MCUplink
  Answers <- MCAnswers
  MaxResponse <- MCMaxResponse
  response_limit = 2
  MaxSeqnum = 2
  NoNode = NoNode
  NoType = NoType
  Faults = {"late", "lost", "unasked"}
  MaxStored = 1
  MaxOwed = 2
INVARIANTS TypeOK BudgetExact AffectedOK
PROPERTIES StallObeyed StrandedOnlyByExpiry StrandedUntilStall

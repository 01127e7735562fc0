SPECIFICATION FairSpec
CONSTANTS
  Interface <- MCInterface
  Changing <- OnlyRoot
  Tables <- RootChanges
  Uid = {"if", "hub", "a", "b", "c", "d", "e"}
  HasSubnodes = {"if", "hub"}
  Configured = {"hub", "a", "b"}
  QUEUE_SIZE = 8
  NoAddr = NoAddr
  MaxChanges = 2
INVARIANTS NumbersInStep Allocated
PROPERTIES Finishes

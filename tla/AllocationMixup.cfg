SPECIFICATION Spec
CONSTANTS
  Interface <- MCInterface
  Changing <- OnlyHub
  Tables <- HubChanges
  Uid = {"if", "hub", "a", "b", "c", "d", "e"}
  HasSubnodes = {"if", "hub"}
  Configured = {"hub", "a", "b"}
  QUEUE_SIZE = 8
  NoAddr = NoAddr
  MaxChanges = 1
INVARIANTS Allocated

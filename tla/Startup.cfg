SPECIFICATION StartupSpec
CONSTANTS
  Interface <- MCInterface
  Changing <- OnlyRoot
  Tables <- MCTables
  Uid = {"if", "hub", "a", "b", "c", "d"}
  HasSubnodes = {"if", "hub"}
  Configured = {"hub", "a", "b", "c"}
  QUEUE_SIZE = 5
  NoAddr = NoAddr
  MaxChanges = 1
  BoardOrder <- MCOrder
  Features <- MCFeatures
  MayRefuse <- MCMayRefuse
  Unset = Unset
  MaxReports = 2
INVARIANTS FeaturesSet LostIsForgotten
PROPERTIES StartsUp

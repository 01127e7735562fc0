SPECIFICATION Spec
CONSTANTS
  Thread <- MCThread
  Lock <- LibLock
  Rank <- LibRank
  Levels <- LibLevels
  Program <- MCProgram
INVARIANTS NoWaitCycle NoRace IdleHoldsNothing
PROPERTIES CallsKeepRules

SPECIFICATION Spec
CONSTANTS
  Thread = {t1, t2}
  Bit = {0, 1, 5, 8}
  Step = {0, 1}
  DriveMessage <- MCDriveMessage
  NoThread = NoThread
  MaxCalls = 3
  MaxManuals = 1
SYMMETRY Symmetry
INVARIANTS Agree AckSettled NoneTakenBack
PROPERTIES StopKeepsDirection
CHECK_DEADLOCK FALSE

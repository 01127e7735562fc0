SPECIFICATION Spec
CONSTANTS
  Segments <- MCSegments
  BoardOf <- MCBoardOf
  DccMain = {"m"}
  SecAck = {"m"}
  Train = {"t"}
  MaxMoves = 2
  MaxFaults = 1
  MaxLine = 2
INVARIANTS TrainsFollowSegments TrackIsKnown
PROPERTIES OccupancySettles
CHECK_DEADLOCK FALSE

SPECIFICATION Spec
CONSTANTS
  Documents <- MCDocuments
  Bytes = {"0", "1", "2", "3"}
  Ports = {"0", "1", "2"}
  Bits = {"0", "1"}
  CalibrationValues = {"0", "1"}
  Steps = {"14"}
  Zero = "0"
  ZeroPair = "00"
  Addresses = {"a1", "a2"}
  PortPairs = {"00", "01"}
  Uids = {"u1", "u2"}
  BoosterUids = {"u1"}
  TrackOutputUids = {"u1"}
  SecAckFeature = "3"
  CALIBRATION_STEPS = 2
  NULL = NULL
INVARIANTS LookupsUnique LinksComplete OwnElement ThreadsInStep
PROPERTIES OnlyErrorsCrash StartReturns

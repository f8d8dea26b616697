SPECIFICATION FairSpec
CONSTANTS
  None = None
  Err = Err
  NumTextures = 3
  AdmitLimits = {1, 2}
  Capacity = 6
  MaxUnits = 4
  MaxResyncs = 1
  MaxErrors = 1
INVARIANTS PendingIsOnItsWay
PROPERTIES NoTearing FramesReachTheScreen
CHECK_DEADLOCK FALSE

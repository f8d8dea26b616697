SPECIFICATION Spec
CONSTANTS
  None = None
  Err = Err
  NumTextures = 3
  AdmitLimits = {1}
  Capacity = 6
  MaxUnits = 5
  MaxResyncs = 0
  MaxErrors = 0
INVARIANTS DecodesIntoLiveTexture
CHECK_DEADLOCK FALSE

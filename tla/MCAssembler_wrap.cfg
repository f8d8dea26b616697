SPECIFICATION Spec
CONSTANTS
  None = None
  SeqSize = 8
  TsSize = 8
  Packets <- WrapStream
  MaxAuSize = 3
  FillWindow = 1
  GraceBudget = 2
  MaxLead = 2
  MaxQueue = 2
INVARIANTS CompleteIsWholeFrame
CHECK_DEADLOCK FALSE

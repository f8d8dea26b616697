SPECIFICATION LinkSpec
CONSTANTS
  None = None
  SeqSize = 16
  TsSize = 8
  Stream <- FourTwo
  Packets <- FourTwoPackets
  MaxAuSize = 9
  FillWindow = 1
  GraceBudget = 1
  MaxLead = 2
  MaxQueue = 4
INVARIANT ParkedIsOldest
CHECK_DEADLOCK FALSE

SPECIFICATION FairLinkSpec
CONSTANTS
  None = None
  SeqSize = 16
  TsSize = 8
  Stream <- FourThree
  Packets <- FourThreePackets
  MaxAuSize = 9
  FillWindow = 1
  GraceBudget = 1
  MaxLead = 2
  MaxQueue = 4
INVARIANTS NackNamesOnlyMissing NeverAsksForReceived
PROPERTIES DamagedIsIncomplete UnitsMoveOn AskedOnce InOrder
CHECK_DEADLOCK FALSE

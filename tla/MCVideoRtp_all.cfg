SPECIFICATION Spec
CONSTANTS
  None = None
  SeqSize = 16
  TsSize = 16
  Stream <- Doubles
  Packets <- DoublesPackets
  MaxAuSize = 9
  FillWindow = 0
  GraceBudget = 1
  MaxLead = 3
  Resolution <- Shrinks
  Policies = {"LowLatency", "Balanced", "Quality"}
  DamageLimit = 2
  PendingLimit = 6
  MaxPendingNacks = 2
  MaxPerNack = 2
  MaxQueue = 3
  MaxErrors = 1
INVARIANTS TooLargeIsWaiting WaitingIsFlushed ArtefactFree
CHECK_DEADLOCK FALSE
PROPERTIES DropsAskForKeyframe

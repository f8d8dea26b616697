SPECIFICATION Spec
CONSTANTS
  None = None
  SeqSize = 16
  TsSize = 16
  Stream <- Singles
  Packets <- SinglesPackets
  MaxAuSize = 9
  FillWindow = 0
  GraceBudget = 1
  MaxLead = 2
  Resolution <- NoSps
  Policies = {"Quality"}
  DamageLimit = 3
  PendingLimit = 1
  MaxPendingNacks = 3
  MaxPerNack = 2
  MaxQueue = 3
  MaxErrors = 0
INVARIANTS ArtefactFree
CHECK_DEADLOCK FALSE

SPECIFICATION MCSpec
CONSTANTS
  MinCapacity = 1  MaxPackets = 8  Window = 12  RefUnit = 8
  SmallMax = 3  LargeMax = 7  TwoBitCap = 2  OneBitCap = 4  RunCap = 6
  FifoCap = 3  EvictAhead = 2  ShadowLead = 5  RtpMod = 64  RtxSeq = 30
  Jumps <- SomeJumps  Gaps = {1, 14}
  MaxCaptured = 3  MaxWire = 2  MaxReports = 2
  Wrap = 16  Ambig = 8  MediaTurn = 24  Group = 1  Span = 8  RingSize = 3
  SendGaps = {1, 3, 10}  Delays = {0, 5}  AstLead = 10  MediaLead = 10  MaxClocked = 4
  FrameTicks = 2  Floor = 1  KeepAlive = 2  Refresh = 2
  Pulse = 3  Hold = 2  Stall = 1  NoFrame = NoFrame
  Never = Never
  Cooldown = 1  StormWindow = 8  StormThreshold = 3  StormCooldown = 4
  Periodic = 2  PeriodicEnabled = TRUE  Grace = 2  InitialInterval = 2
  DropThreshold = 2  FlushSustain = 2  FlushInterval = 4  MaxDrops = 3  MaxDisconnects = 1
INVARIANT StampIsArrival
CHECK_DEADLOCK FALSE

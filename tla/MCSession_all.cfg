SPECIFICATION MCSpec
CONSTANTS
  MaxTalk = 3
  MaxFlushes = 3
  Local = {l1, l2}
  Remote = {r1}
  MaxCommands = 1
  MaxEvents = 2
  MaxHeld = 2
  MaxBatches = 1
  MaxPackets = 2
  MaxPcm = 1
  Lengths = {1, 2}
  StartAt = 2
  MaxQueued = 4
  MaxBuilt = 1
  MaxFaults = 2
INVARIANTS ShakesOnce OnTheWay
PROPERTIES ThreadEnds EndIsSeen SoundReturns
CHECK_DEADLOCK FALSE

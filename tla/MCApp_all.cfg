SPECIFICATION MCSpec
CONSTANTS
  Sessions = {s1, s2}
  NoSession = NoSession
  MaxFailures = 2
  Locales <- TwoLocales
  Ladder <- TwoPresets
  DefaultCap = 15000
  Rtts = {10}
  MaxProbes = 2
  MaxBoots = 1
INVARIANTS OrphansAreSwept FocusIsOnARow
PROPERTIES EndedStreamIsLeft ScreensMoveOn AdviceComes
CHECK_DEADLOCK FALSE

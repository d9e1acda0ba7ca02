CONSTANTS
  Granularity = 16
  MinLargeSize = 5
  MStateSize = 3
  Space = 64
  MmapThreshold = 9
  ReleaseRate = 2
  TrimThreshold = 12
  MaxLive = 3
  MaxForeign = 1
  MaxCalls = 6
  Threads <- MCThreads
  Sizes <- MCSizes
  Alignments <- MCAlignments
  Bulks <- MCBulks
  Limits <- MCLimits
  Capacities <- MCCapacities
  OsAnswers <- MCOsAnswers
SPECIFICATION Spec
INVARIANTS HeapConsistent BlocksKept FootprintExact
CHECK_DEADLOCK FALSE

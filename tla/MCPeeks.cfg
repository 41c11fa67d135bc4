SPECIFICATION MCSpec
CONSTANTS
  M5 = m5
  M6 = m6
  LastDay = 8
  MaxRuns = 1
  NSplits = 3
  Purge = 1
  Embargo = 1
  PanelMinObs = 2
  EdgeWindow = 3
  RefitStep = 2
  Lookback = 3
  EventDays <- MCEventDays
  DriftWindow = 2
  ExposureLag = 1
  GridSize = 2
  CapacityFloor = 1
  b1 = b1
  b2 = b2
  b3 = b3
  sectorless = sectorless
  bank = bank
  Unplaced = unplaced
  Names <- MCNames
  Sector <- MCSector
  MaxRows = 0
  Window = 2
  Step = 2
  Levels = 4
  Alpha = 3
  MinLift = 3
  MinWindowPairs = 3
  MinMedianEdges = 1
  MinJaccard = 10
INVARIANTS
  NeverPeeks

SPECIFICATION FairSpec
CONSTANTS
  r1 = r1
  r2 = r2
  r3 = r3
  noise = noise
  LastDay = 2
  Slots = 2
  Records <- MCRecords
  FileOf <- MCFileOf
  Typed <- MCTyped
  MaxRetries = 1
  BurstAbort = 2
  MaxCrawls = 2
INVARIANTS
  TypeOK
  TargetsHaveEvent
  OkMeansLanded
PROPERTIES
  CrawlEnds

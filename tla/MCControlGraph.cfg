SPECIFICATION Spec
CONSTANTS
  a = a
  b = b
  la = la
  lb = lb
  lx = lx
  s1 = s1
  s2 = s2
  None = None
  Issuers = {a, b}
  Leis = {la, lb, lx}
  Sectors = {s1, s2}
  Equities = {a}
  Matches <- MCMatches
  Answers <- MCAnswers
  Relations <- MCRelations
  References <- MCReferences
  MaxRuns = 4
  MaxDeaths = 1
INVARIANTS
  TypeOK
  SubsidiaryControlled
  GateExact
  InheritedFromAbove
PROPERTIES
  GleifKept
  KapSectorKept

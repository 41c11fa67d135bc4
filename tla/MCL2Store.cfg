SPECIFICATION Spec
CONSTANTS
  Processes = {p1, p2}
  Tables = {prices, returns}
  DerivedTables = {returns}
  Keys = {k1, k2}
  Vals = {v1, v2}
  Nobody = Nobody
  Empty = Empty
INVARIANTS
  TypeOK
  OneRowPerKey
  ParquetBacksTable
  LandedOnReturn
PROPERTY
  HistoryIsAppendOnly

SPECIFICATION Spec
CONSTANTS
  Names = {"a", "b", "c", "d"}
  Stakes <- MCStakes
  Controls <- MCControls
  Shocked <- MCShocked
  MinConfidence = 1
  MaxHops = 1
  MaxReach = 2
INVARIANTS
  TruncatedAtMaxHops
CHECK_DEADLOCK FALSE

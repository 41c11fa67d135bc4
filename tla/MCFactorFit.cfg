SPECIFICATION Spec
CONSTANTS
  Symbols = {s1}
  Factors = {usdtry, xu100}
  FX = usdtry
  LastDay = 3
  FitWindow = 2
  MinObs = 1
  Fitters = {"refit", "gate"}
  MaxFaults = 1
INVARIANTS
  TypeOK
  RefitNeverStrandsFit
  FitWithinFactors

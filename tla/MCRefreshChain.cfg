SPECIFICATION FairChainSpec
CONSTANTS
  usdtry = usdtry
  xu100 = xu100
  Symbols = {s1, s2}
  Factors = {usdtry, xu100}
  FX = usdtry
  FactorOrder <- MCFactorOrder
  LastDay = 3
  FitWindow = 2
  MinObs = 1
  Fitters = {"refit"}
  MaxFaults = 1
  MaxAge = 0
  Overlap = 1
  MaxRetries = 1
  MaxRevised = 1
INVARIANTS
  ChainTypeOK
  OkMeansRebuilt
  OkMeansFitServed
PROPERTIES
  StaleHeals

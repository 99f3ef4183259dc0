SPECIFICATION FairSpec
CONSTANTS
  Interval = 2
  MaxCycles = 3
  MaxSlow = 1
  Throws = TRUE
INVARIANT TypeOK
INVARIANT KeepsLastGood
INVARIANT StaleHasWarning
INVARIANT CpuOfSameCycle
PROPERTY StopReturns

CONSTANTS
  FPBits = 4
  TotalShards = 4
  SymbolFactor = 2
  HeaderUnits = 1
  AllSeries <- MCAllSeries
  FP <- MCFP
  Times <- MCTimes
  Matchers <- MCMatchers
  Selectors <- MCSelectors
SPECIFICATION Spec
CHECK_DEADLOCK FALSE
INVARIANTS HeadSelects BlockSelects ShardsPartition

SPECIFICATION GuardsSpec
CONSTANTS
  Configs <- DrawdownOnly
  InitialEquity = 4
  Precision = 4
  Horizon = 6
  Gains <- OneUnit
  SessionLength = 3
  DayLength = 6
  Patience = 3
INVARIANT PhantomsUnblock
CHECK_DEADLOCK FALSE

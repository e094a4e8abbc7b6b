SPECIFICATION DbSpec
CONSTANTS
  MaxTxn = 2
  MaxRows = 3
  MaxBatch = 1
  Values = {v1, v2}
  IndexKind = "plain"
  CallerAborts = TRUE
  Events = {"close"}
  MaxWriteBacks = 0
  MaxStops = 1
INVARIANTS CloseIsDurable
SYMMETRY ValueSymmetry
CHECK_DEADLOCK FALSE

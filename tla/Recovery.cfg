SPECIFICATION DbSpec
CONSTANTS
  MaxTxn = 2
  MaxRows = 2
  MaxBatch = 1
  Values = {v1, v2}
  IndexKind = "plain"
  CallerAborts = TRUE
  Events = {"checkpoint", "close", "crash"}
  MaxWriteBacks = 1
  MaxStops = 2
INVARIANTS RecoveryExact CommittedIdsNotReused DeadInvisibleWhileCovered
SYMMETRY ValueSymmetry
CHECK_DEADLOCK FALSE

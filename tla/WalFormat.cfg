SPECIFICATION Spec
CONSTANTS
  PayloadCells = 2
  MaxRecords = 4
  MaxCrashes = 2
INVARIANT WholeRecordsRead
PROPERTY ReadsOnlyGrow
CHECK_DEADLOCK FALSE

SPECIFICATION DiskSpec
CONSTANTS
  MaxLeaf = 4
  MaxInternal = 4
  Indexes <- SmallIndexes
  OldRows = {0, 2, 5}
  MaxCrashes = 2
  MaxWrites = 3
INVARIANTS RowsFound 
CHECK_DEADLOCK FALSE

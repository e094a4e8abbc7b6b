SPECIFICATION Spec
CONSTANTS
  MaxLeaf = 4
  MaxInternal = 4
  Indexes <- SmallIndexes
INVARIANTS SearchFindsAll ScansInOrder WellFormed
CHECK_DEADLOCK FALSE

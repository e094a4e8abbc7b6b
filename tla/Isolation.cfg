SPECIFICATION Spec
CONSTANTS
  MaxTxn = 3
  MaxRows = 3
  MaxBatch = 2
  Values = {v1, v2}
  IndexKind = "unique"
  CallerAborts = FALSE
INVARIANTS IInv SeesItsView IndexAgreesWithScan
PROPERTIES ImplementsSI UniqueWhenWritten
SYMMETRY ValueSymmetry
CHECK_DEADLOCK FALSE

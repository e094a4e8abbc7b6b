SPECIFICATION Spec
CONSTANTS
  Frames = {f1, f2}
  MaxPages = 3
  Callers = {c1, c2, c3}
  Data = {zero, x1, x2}
  Zero = zero
  NoFrame = NoFrame
  MissingFetches = TRUE
INVARIANTS PoolInv HeldPagesStay FullOnlyWhenPinned
PROPERTIES ImplementsPageStore FlushReachesDisk
SYMMETRY PoolSymmetry

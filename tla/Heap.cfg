SPECIFICATION Spec
CONSTANTS
  PageSize = 5
  HeaderSize = 1
  SlotSize = 1
  a = a
  b = b
  c = c
  Rows = {a, b, c}
  Size <- RowSize
  t1 = t1
  t2 = t2
  Tables = {t1, t2}
  MaxPages = 3
INVARIANTS HeapInv RowsReadBack ScanFindsRows
SYMMETRY HeapSymmetry

SPECIFICATION DiskSpec
CONSTANTS
  PageSize = 5
  HeaderSize = 1
  SlotSize = 1
  a = a
  Rows = {a}
  Size <- RowSize
  t1 = t1
  t2 = t2
  Tables = {t1, t2}
  MaxPages = 4
INVARIANT CatalogPagesWritten
SYMMETRY TableSymmetry

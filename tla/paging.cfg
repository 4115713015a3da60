CONSTANTS
  Rows = {r1, r2, r3, r4, r5}
  Limits = {1, 2, 3}
  MaxSize = 2
  Oversize = 1
  MaxChanges = 4
SPECIFICATION PagesSpec
SYMMETRY Symmetry
INVARIANTS
  PagesTypeOK
  ShownOnce
CHECK_DEADLOCK FALSE

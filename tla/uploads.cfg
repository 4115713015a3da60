CONSTANTS
  Keys = {k1}
  Types = {png, jpeg}
  Puts = {p1, p2}
  Gets = {g1, g2}
  Lengths = {1, 2, 3}
  MaxBytes = 1
  Slack = 1
  TokenLife = 1
  CacheLife = 1
  MaxTime = 4
  None = None
SPECIFICATION Spec
SYMMETRY Symmetry
INVARIANTS
  StoredAsSigned
  ShownWasCurrent
CHECK_DEADLOCK FALSE

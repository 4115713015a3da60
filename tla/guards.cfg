CONSTANTS
  Addresses = {office}
  Requests = {r1, r2, r3, r4, r5}
  Threshold = 3
  WindowTTL = 2
  BanDuration = 4
  Burst = 2
  IdleTTL = 2
  MaxTime = 5
  None = None
SPECIFICATION Spec
SYMMETRY Symmetry
INVARIANTS
  TypeOK
  EnoughHitsBan
  CleanRestart
  LoginsAreLimited
PROPERTY BanNeedsHits
CHECK_DEADLOCK FALSE

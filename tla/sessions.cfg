CONSTANTS
  Users = {ann}
  Requests = {r1, r2, r3, r4}
  TokenTTL = 2
  MaxTime = 3
  None = None
SPECIFICATION Spec
SYMMETRY Symmetry
INVARIANTS
  OnlyItsLogoutRevokes
  GateIsCurrent
PROPERTIES
  LogoutEndsTheSession
  LockRunsOut
CHECK_DEADLOCK FALSE

CONSTANTS
  Requests = {r1, r2}
  Bases = {ann}
  Roles = {"admin", "staff"}
  MaxSuffix = 2
  MaxInt = 3
  TypedCodes <- MCTypedCodes
  UniqueNames = TRUE
  None = None
SPECIFICATION Spec
INVARIANT SomebodyHasThePassword
CHECK_DEADLOCK FALSE

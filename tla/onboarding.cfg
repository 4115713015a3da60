CONSTANTS
  Requests = {r1, r2, r3}
  Bases = {ann}
  Roles = {"admin", "staff"}
  MaxSuffix = 2
  MaxInt = 3
  TypedCodes <- MCTypedCodes
  UniqueNames = TRUE
  None = None
SPECIFICATION Spec
SYMMETRY Symmetry
INVARIANTS
  AccountsAreComplete
  SuffixesHaveNoGaps
  ConflictIsReal
PROPERTIES
  NextCodeIsFree
CHECK_DEADLOCK FALSE

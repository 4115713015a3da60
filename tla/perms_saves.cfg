CONSTANTS
  Users = {ann}
  Requests = {r1, r2}
  Grants = {read, write, audit}
  Wild = wild
  read = read
  write = write
  audit = audit
  ManagerGrants = {read, write}
  StaffGrants = {read}
  Inputs <- MCInputs
  None = None
SPECIFICATION Spec
SYMMETRY Symmetry
INVARIANTS
  SavedMatrixIsEffective
  GrantsHaveASource
  
PROPERTY SaveIsStored
CHECK_DEADLOCK FALSE

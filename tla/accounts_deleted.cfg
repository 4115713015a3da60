CONSTANTS
  Users = {root, ann}
  Admins = {root}
  Invited = {}
  Requests = {r1, r2}
  Passwords = {first, second}
  First = first
  NewRoles = {"manager"}
  Routes = {"toggle", "bulkDelete"}
  None = None
  External = external
SPECIFICATION Spec
PROPERTY DeletedStatusFrozen
CHECK_DEADLOCK FALSE

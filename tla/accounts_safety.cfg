CONSTANTS
  Users = {root, ann}
  Admins = {root}
  Invited = {ann}
  Requests = {r1, r2, r3}
  Passwords = {first, second}
  First = first
  NewRoles = {"admin"}
  Routes = {"update", "adminReset", "profile", "changePassword", "redeem",
            "bulkLock", "bulkDelete", "upload", "forgot"}
  None = None
  External = external
SPECIFICATION Spec
SYMMETRY Symmetry
INVARIANTS
  AuditMatchesCommits
  SuccessIsCommitted
  AvatarIsStored
  ForcedRotation
PROPERTIES
  FreshWritesKeepTheRest
  AdminsAreSpared
CHECK_DEADLOCK FALSE

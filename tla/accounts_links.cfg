CONSTANTS
  Users = {root, ann}
  Admins = {root}
  Invited = {ann}
  Requests = {r1, r2, r3}
  Passwords = {first, second}
  First = first
  NewRoles = {"manager"}
  Routes = {"forgot", "redeem", "toggle", "bulkUnlock"}
  None = None
  External = external
SPECIFICATION FairSpec
INVARIANTS
  LinkSetsItsOwnAccount
PROPERTIES
  EveryRequestAnswered
  ImplementsLinks
CHECK_DEADLOCK FALSE

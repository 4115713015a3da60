----------------------------- MODULE Permissions -----------------------------
(***************************************************************************)
(* What an account may do: the defaults of its role and its row in table   *)
(* user_permissions, written by usecase/permission.go and by the creation  *)
(* of accounts, read by the middleware RequirePermission and by            *)
(* EffectivePermissions.                                                   *)
(*                                                                         *)
(* A permission is a pair (resource, action); a matrix says of each        *)
(* whether it is granted, denied or absent.  permission_count is a         *)
(* function of the matrix and left out.  Saves run in a transaction at     *)
(* READ COMMITTED: the account and the row are read without a lock, one    *)
(* statement writes the row and locks it until the transaction ends.  A    *)
(* row is identified with the account or the request it was inserted for;  *)
(* its user_id is unique ("One per user", model.UserPermission).           *)
(***************************************************************************)
EXTENDS Naturals

CONSTANTS
  Users,          \* accounts
  Requests,       \* requests that write user_permissions
  Grants,         \* the pairs declared in consts.PermissionsDefinitions
  Wild,           \* the pair ("*", "*")
  ManagerGrants,  \* what RoleDefaultPermissions gives a manager
  StaffGrants,    \* what it gives a staff account
  Inputs,         \* the matrices clients send
  None            \* no row, no account, nothing read

Roles == {"admin", "manager", "staff"}
Pairs == Grants \cup {Wild}
Matrix == [Pairs -> {"granted", "denied", "absent"}]
Routes == {"saveByUser", "saveById", "create", "delete"}

Ids == Users \cup Requests
Row == [id: Ids, matrix: Matrix]
Save == [matrix: Matrix, role: Roles]

ASSUME PermissionsAssumption ==
  /\ Wild \notin Grants
  /\ ManagerGrants \subseteq Grants
  /\ StaffGrants \subseteq ManagerGrants
  /\ Inputs \subseteq Matrix
  /\ Users \cap Requests = {}
  /\ None \notin Users \cup Requests \cup Roles \cup Row \cup Save

VARIABLES
  role,    \* users.role, None before the account is created
  perm,    \* the row of an account in user_permissions, or None
  claim,   \* the role in the token an account uses, or None
  op,      \* the handler a request runs
  at,      \* where the handler is
  target,  \* the account whose row it is about
  input,   \* the matrix sent by the client
  known,   \* the role the handler has read
  found,   \* the id of the row the handler has read, or None
  saved,   \* history: the last save that still is in the row, or None
  ticked,  \* history: the pairs ever granted by a save
  born     \* history: the role the account was created with

accounts == <<role, perm, claim>>
handler  == <<op, at, target, input, known, found>>
history  == <<saved, ticked, born>>
vars     == <<role, perm, claim, op, at, target, input, known, found, saved, ticked, born>>

TypeOK ==
  /\ role \in [Users -> Roles \cup {None}]
  /\ perm \in [Users -> Row \cup {None}]
  /\ claim \in [Users -> Roles \cup {None}]
  /\ op \in [Requests -> Routes \cup {"none"}]
  /\ at \in [Requests -> {"idle", "arrived", "knows", "finds", "ready", "written", "ok",
                          "error"}]
  /\ target \in [Requests -> Users \cup {None}]
  /\ input \in [Requests -> Matrix \cup {None}]
  /\ known \in [Requests -> Roles \cup {None}]
  /\ found \in [Requests -> Ids \cup {None}]
  /\ saved \in [Users -> Save \cup {None}]
  /\ ticked \in [Users -> SUBSET Grants]
  /\ born \in [Users -> Roles \cup {None}]

Init ==
  /\ role = [u \in Users |-> None]
  /\ perm = [u \in Users |-> None]
  /\ claim = [u \in Users |-> None]
  /\ op = [r \in Requests |-> "none"]
  /\ at = [r \in Requests |-> "idle"]
  /\ target = [r \in Requests |-> None]
  /\ input = [r \in Requests |-> None]
  /\ known = [r \in Requests |-> None]
  /\ found = [r \in Requests |-> None]
  /\ saved = [u \in Users |-> None]
  /\ ticked = [u \in Users |-> {}]
  /\ born = [u \in Users |-> None]

(***************************************************************************)
(* Matrices.                                                               *)
(***************************************************************************)

Empty == [p \in Pairs |-> "absent"]

(* RoleDefaultPermissions: nothing is said of an administrator.            *)
RoleDefaults(ro) ==
  [p \in Pairs |-> IF \/ ro = "manager" /\ p \in ManagerGrants
                      \/ ro = "staff" /\ p \in StaffGrants
                   THEN "granted" ELSE "absent"]

(* PermissionMap.MergeOver.                                                *)
MergeOver(m, override) ==
  [p \in Pairs |-> IF override[p] = "absent" THEN m[p] ELSE override[p]]

(* PermissionMap.HasAction: the pair ("*", "*") grants everything.         *)
HasAction(m, p) == m[Wild] = "granted" \/ m[p] = "granted"

(* Faulty variant: undeclared pairs are kept.                              *)
KeepAll(m) == m

(* filterValidPermissions.                                                 *)
FilterValid(m) == [p \in Pairs |-> IF p \in Grants THEN m[p] ELSE "absent"]

(* Faulty variant: unticked defaults are left out of the row.              *)
CleanedLeavingDefaults(m, ro) == FilterValid(m)

(* The matrix a save stores: the declared pairs of the input, and a denial *)
(* of every default of the role that the input does not mention.           *)
Cleaned(m, ro) ==
  [p \in Pairs |-> IF FilterValid(m)[p] = "absent" /\ RoleDefaults(ro)[p] = "granted"
                   THEN "denied" ELSE FilterValid(m)[p]]

GodMode == [p \in Pairs |-> IF p = Wild THEN "granted" ELSE "absent"]

(* The defaults of a role under the row of the account, if it has one.     *)
Layered(u, ro) ==
  IF perm[u] = None THEN RoleDefaults(ro)
                    ELSE MergeOver(RoleDefaults(ro), perm[u].matrix)

(* EffectivePermissions, for a caller whose token says admin or not: the   *)
(* role below the row is the one in the database.                          *)
EffectivePermissions(u, isAdmin) ==
  IF isAdmin THEN GodMode ELSE Layered(u, role[u])

(* Faulty variant: what the role or the row grants is let through, so that *)
(* the row cannot deny a default of the role.                              *)
RequireEither(u, p) ==
  \/ claim[u] = "admin" \/ HasAction(RoleDefaults(claim[u]), p)
  \/ perm[u] # None /\ HasAction(perm[u].matrix, p)

(* RequirePermission: the role is the one in the token.                    *)
RequirePermission(u, p) == claim[u] = "admin" \/ HasAction(Layered(u, claim[u]), p)

(***************************************************************************)
(* Accounts.                                                               *)
(***************************************************************************)

(* Create and Invite: the account and, unless it is an administrator, its  *)
(* row with the defaults of its role.  Nobody sees either before the       *)
(* commit.                                                                 *)
CreateUser(u, ro) ==
  /\ role[u] = None
  /\ role' = [role EXCEPT ![u] = ro]
  /\ born' = [born EXCEPT ![u] = ro]
  /\ perm' = [perm EXCEPT ![u] = IF ro = "admin" THEN None
                                 ELSE [id |-> u, matrix |-> RoleDefaults(ro)]]
  /\ UNCHANGED <<claim, handler, saved, ticked>>

(* PUT /users/:id commits another role; the row stays as it is.            *)
SetRole(u, ro) ==
  /\ role[u] \notin {None, ro}
  /\ role' = [role EXCEPT ![u] = ro]
  /\ UNCHANGED <<perm, claim, handler, history>>

(* A login signs the role of the moment into the token.                    *)
Login(u) ==
  /\ role[u] # None
  /\ claim' = [claim EXCEPT ![u] = role[u]]
  /\ UNCHANGED <<role, perm, handler, history>>

(***************************************************************************)
(* The handlers that write user_permissions.                               *)
(***************************************************************************)

Arrive(r, route, u, m) ==
  /\ at[r] = "idle"
  /\ role[u] # None
  /\ op' = [op EXCEPT ![r] = route]
  /\ at' = [at EXCEPT ![r] = "arrived"]
  /\ target' = [target EXCEPT ![r] = u]
  /\ input' = [input EXCEPT ![r] = m]
  /\ UNCHANGED <<accounts, known, found, history>>

(* PUT /users/:id/permissions.                                             *)
SaveByUser(r) == \E u \in Users, m \in Inputs : Arrive(r, "saveByUser", u, m)

(* POST /user-permissions.                                                 *)
CreateRow(r) == \E u \in Users : Arrive(r, "create", u, None)

(* The routes that name a row by its id: the client has seen the row.      *)
ArriveById(r, route, u, m) ==
  /\ perm[u] # None
  /\ found' = [found EXCEPT ![r] = perm[u].id]
  /\ at[r] = "idle"
  /\ op' = [op EXCEPT ![r] = route]
  /\ at' = [at EXCEPT ![r] = "arrived"]
  /\ target' = [target EXCEPT ![r] = u]
  /\ input' = [input EXCEPT ![r] = m]
  /\ UNCHANGED <<accounts, known, history>>

(* PUT /user-permissions/:id.                                              *)
SaveById(r) == \E u \in Users, m \in Inputs : ArriveById(r, "saveById", u, m)

(* DELETE /user-permissions/:id.                                           *)
DeleteRow(r) == \E u \in Users : ArriveById(r, "delete", u, None)

(* users.GetByID: before the row for the routes by account, after it for   *)
(* a save by id.                                                           *)
ReadUser(r) ==
  /\ \/ at[r] = "arrived" /\ op[r] \in {"saveByUser", "create"}
     \/ at[r] = "finds" /\ op[r] = "saveById"
  /\ known' = [known EXCEPT ![r] = role[target[r]]]
  /\ at' = [at EXCEPT ![r] = IF op[r] = "saveById" THEN "ready" ELSE "knows"]
  /\ UNCHANGED <<accounts, op, target, input, found, history>>

(* perms.GetByUserID.  POST /user-permissions answers 409 when there is a  *)
(* row.                                                                    *)
ReadRowByUser(r) ==
  /\ at[r] = "knows"
  /\ LET row == perm[target[r]] IN
       /\ found' = [found EXCEPT ![r] = IF row = None THEN None ELSE row.id]
       /\ at' = [at EXCEPT ![r] =
                   IF op[r] = "create" /\ row # None THEN "error" ELSE "ready"]
  /\ UNCHANGED <<accounts, op, target, input, known, history>>

(* The row with the id found[r] is still in the table.                     *)
RowIsThere(r) == perm[target[r]] # None /\ perm[target[r]].id = found[r]

(* perms.GetByID: 404 when the row is gone.                                *)
ReadRowById(r) ==
  /\ at[r] = "arrived"
  /\ op[r] \in {"saveById", "delete"}
  /\ at' = [at EXCEPT ![r] = CASE ~RowIsThere(r)    -> "error"
                               [] op[r] = "delete"  -> "ready"
                               [] OTHER             -> "finds"]
  /\ UNCHANGED <<accounts, op, target, input, known, found, history>>

Inserts(r) == found[r] = None

(* Faulty variant: Save is an UPDATE even when there is no row yet.        *)
TouchesOnlyRows(r) == RowIsThere(r)

(* The statement of r writes, or inserts, the row of its account.          *)
Touches(r) == Inserts(r) \/ RowIsThere(r)

HoldsRow(r, u) == at[r] = "written" /\ target[r] = u /\ Touches(r)

(* The INSERT, UPDATE or DELETE: waits for the lock of the row, or of its  *)
(* unique key.  An UPDATE or a DELETE whose row is gone changes nothing    *)
(* and is no error; an INSERT beside a row fails (Abort).                  *)
Write(r) ==
  /\ at[r] = "ready"
  /\ Touches(r) => \A q \in Requests : ~HoldsRow(q, target[r])
  /\ Inserts(r) => perm[target[r]] = None
  /\ at' = [at EXCEPT ![r] = "written"]
  /\ UNCHANGED <<accounts, op, target, input, known, found, history>>

(* The row the statement of r leaves.                                      *)
Written(r) ==
  LET id == IF Inserts(r) THEN r ELSE found[r]
  IN CASE op[r] = "delete" -> None
       [] op[r] = "create" -> [id |-> id, matrix |-> Empty]
       [] OTHER            -> [id |-> id, matrix |-> Cleaned(input[r], known[r])]

Granted(m) == {p \in Grants : m[p] = "granted"}

(* The audit insert and the COMMIT.                                        *)
Commit(r) ==
  /\ at[r] = "written"
  /\ at' = [at EXCEPT ![r] = "ok"]
  /\ IF Touches(r)
     THEN LET u == target[r] IN
          /\ perm' = [perm EXCEPT ![u] = Written(r)]
          /\ IF op[r] \in {"saveByUser", "saveById"}
             THEN /\ saved' = [saved EXCEPT ![u] = [matrix |-> input[r], role |-> known[r]]]
                  /\ ticked' = [ticked EXCEPT ![u] = @ \cup Granted(input[r])]
             ELSE /\ saved' = [saved EXCEPT ![u] = None]
                  /\ UNCHANGED ticked
     ELSE UNCHANGED <<perm, saved, ticked>>
  /\ UNCHANGED <<role, claim, op, target, input, known, found, born>>

(* A statement or the audit insert fails, the unique index refuses the     *)
(* row, the client is gone: ROLLBACK.                                      *)
Abort(r) ==
  /\ at[r] \in {"arrived", "knows", "finds", "ready", "written"}
  /\ at' = [at EXCEPT ![r] = "error"]
  /\ UNCHANGED <<accounts, op, target, input, known, found, history>>

(***************************************************************************)
(* The specification.                                                      *)
(***************************************************************************)

Handle(r) ==
  \/ SaveByUser(r) \/ SaveById(r) \/ CreateRow(r) \/ DeleteRow(r)
  \/ ReadUser(r) \/ ReadRowByUser(r) \/ ReadRowById(r)
  \/ Write(r) \/ Commit(r) \/ Abort(r)

Next ==
  \/ \E u \in Users : Login(u) \/ \E ro \in Roles : CreateUser(u, ro) \/ SetRole(u, ro)
  \/ \E r \in Requests : Handle(r)

Spec == Init /\ [][Next]_vars

(***************************************************************************)
(* Properties that hold.                                                   *)
(***************************************************************************)

(* What an account that is no administrator may do by the permissions it   *)
(* is shown.                                                               *)
May(u) == {p \in Pairs : HasAction(EffectivePermissions(u, FALSE), p)}

(* The matrix saved last is what the account may do, no more and no less,  *)
(* as long as it has the role the save was made for: the defaults the      *)
(* administrator left unticked do not come back through MergeOver, nor     *)
(* through another handler that writes the row at the same time.           *)
SavedMatrixIsEffective ==
  \A u \in Users :
    saved[u] # None /\ role[u] = saved[u].role
      => May(u) = Granted(saved[u].matrix)

(* Every permission of an account has a source: a save that granted it, or *)
(* the defaults of its role or of the role it was created with.  Nothing   *)
(* undeclared is ever granted, the wildcard least of all.                  *)
GrantsHaveASource ==
  \A u \in Users :
    May(u) \subseteq
      ticked[u] \cup {p \in Grants : \E ro \in {role[u], born[u]} : RoleDefaults(ro)[p] = "granted"}

(* The gate goes by the role of the login, which may have changed since,   *)
(* and may have changed between the save of a matrix and the login.  What  *)
(* the last save ticked is open to every token of the account; beyond that *)
(* a token opens only defaults of its own role which the save does not     *)
(* mention and the role it was made for does not have.  So no token gets   *)
(* back what was unticked, and a token of the role the save was made for   *)
(* opens what was ticked and nothing else, however stale it is.  (That of  *)
(* an administrator opens everything until it expires.)                    *)
TokensObeySaves ==
  \A u \in Users : saved[u] # None /\ claim[u] \notin {None, "admin"} =>
    \A p \in Grants :
      RequirePermission(u, p) <=>
        \/ p \in Granted(saved[u].matrix)
        \/ /\ saved[u].matrix[p] = "absent"
           /\ RoleDefaults(claim[u])[p] = "granted"
           /\ RoleDefaults(saved[u].role)[p] # "granted"

(* A step that answers a save leaves it in the row, or the row it had read *)
(* was deleted by a request already answered.                              *)
SaveKept ==
  \A r \in Requests :
    op[r] \in {"saveByUser", "saveById"} /\ at[r] = "written" /\ at'[r] = "ok"
      => LET u == target[r] IN
         \/ perm'[u] # None /\ Granted(perm'[u].matrix) = Granted(input[r])
         \/ \E q \in Requests : /\ op[q] = "delete" /\ at[q] = "ok"
                                /\ target[q] = u /\ found[q] = found[r]

(* A save answered with success is in the row, or somebody deleted the row *)
(* it had read before its UPDATE, which then matched nothing: neither the  *)
(* unique index, nor the locks, nor a row inserted meanwhile can lose it.  *)
SaveIsStored == [][SaveKept]_vars
=============================================================================

---------------------------- MODULE UserAccounts ----------------------------
(***************************************************************************)
(* The life of the rows of table users under concurrent HTTP requests.     *)
(*                                                                         *)
(* internal/usecase/user.go and auth.go load a row, change the loaded      *)
(* struct and write the WHOLE struct back (repository/user.go, Update).    *)
(* The writing handlers run in a Postgres transaction at READ COMMITTED:   *)
(* a read takes no lock, an UPDATE locks its row until the transaction     *)
(* ends, nothing detects that the row changed since it was read.  Avatar   *)
(* upload and the request of a reset link run without a transaction.       *)
(*                                                                         *)
(* A request is handled once.  Its steps are the calls that leave the      *)
(* process: the read, each write statement, the audit insert, the commit.  *)
(* What a handler computes in between is part of the step of its read.     *)
(* Columns no rule depends on (full name, e-mail, phone, staff code...)    *)
(* behave like the avatar column and are left out; updated_at, updated_by  *)
(* too.  A reset token is identified with the request that generated it,   *)
(* an uploaded object with the request that uploaded it.                   *)
(***************************************************************************)
EXTENDS Naturals, FiniteSets

CONSTANTS
  Users,      \* accounts; Admins and Invited are subsets of them
  Admins,     \* the accounts that start with role admin
  Invited,    \* the accounts that start with force_password_change = true
  Requests,   \* the HTTP requests of a behaviour
  Passwords,  \* password hashes
  First,      \* the password every account starts with
  NewRoles,   \* the roles PUT /users/:id may assign
  Routes,     \* the handlers the requests of a behaviour may call
  None,       \* no value (SQL NULL, nil)
  External    \* an avatar URL typed in by the client, not an uploaded object

Roles == {"admin", "manager", "staff"}

(* Handlers by how they write. *)
BulkRoutes  == {"bulkLock", "bulkUnlock", "bulkDelete"}
TxRoutes    == {"update", "adminReset", "toggle", "profile", "changePassword",
                "redeem"} \cup BulkRoutes
PlainRoutes == {"upload", "forgot"}      \* no transaction around their writes

ASSUME UserAccountsAssumption ==
  /\ Admins \subseteq Users
  /\ Invited \subseteq Users
  /\ First \in Passwords
  /\ NewRoles \subseteq Roles
  /\ Routes \subseteq TxRoutes \cup PlainRoutes
  /\ None \notin Requests \cup Users \cup {External}
  /\ External \notin Requests

VARIABLES
  rows,     \* committed columns of users, except the two reset columns
  reset,    \* committed password_reset_token_hash
  expired,  \* tokens whose password_reset_expires_at has passed
  audit,    \* committed audit_log rows, as <<request, account>>
  objects,  \* avatar objects in storage
  op,       \* the handler a request runs
  at,       \* where the handler is
  target,   \* the account it works on
  entity,   \* its in-memory model.User
  key,      \* the reset token presented to POST /auth/reset-password
  tally,    \* per id of a bulk request: out, pending, ok, failed
  written,  \* history: <<request, account>> whose write is committed
  stale     \* history: requests whose loaded row was changed since by another

database == <<rows, reset, audit>>
handler  == <<op, at, target, entity, key, tally>>
history  == <<written, stale>>
vars == <<rows, reset, expired, audit, objects, op, at, target, entity, key,
          tally, written, stale>>

Avatar == Requests \cup {None, External}
Row == [role: Roles, status: {"active", "locked"}, password: Passwords,
        force: BOOLEAN, deleted: BOOLEAN, avatar: Avatar]

Steps == {"idle", "batch", "loaded", "uploaded", "stored", "cleared",
          "audited", "saved", "ok", "error"}
Finished == {"ok", "error"}
Marks == {"out", "pending", "ok", "failed"}

TypeOK ==
  /\ rows \in [Users -> Row]
  /\ reset \in [Users -> Requests \cup {None}]
  /\ expired \subseteq Requests
  /\ audit \subseteq Requests \X Users
  /\ objects \subseteq Requests
  /\ op \in [Requests -> Routes \cup {"none"}]
  /\ at \in [Requests -> Steps]
  /\ target \in [Requests -> Users \cup {None}]
  /\ entity \in [Requests -> Row \cup {None}]
  /\ key \in [Requests -> Requests \cup {None}]
  /\ tally \in [Requests -> [Users -> Marks]]
  /\ written \subseteq Requests \X Users
  /\ stale \subseteq Requests

Init ==
  /\ rows = [u \in Users |->
               [role     |-> IF u \in Admins THEN "admin" ELSE "staff",
                status   |-> "active",
                password |-> First,
                force    |-> u \in Invited,
                deleted  |-> FALSE,
                avatar   |-> None]]
  /\ reset = [u \in Users |-> None]
  /\ expired = {}
  /\ audit = {}
  /\ objects = {}
  /\ op = [r \in Requests |-> "none"]
  /\ at = [r \in Requests |-> "idle"]
  /\ target = [r \in Requests |-> None]
  /\ entity = [r \in Requests |-> None]
  /\ key = [r \in Requests |-> None]
  /\ tally = [r \in Requests |-> [u \in Users |-> "out"]]
  /\ written = {}
  /\ stale = {}

(***************************************************************************)
(* Row locks and the effect of a write on the other readers of the row.    *)
(***************************************************************************)

(* A request inside a transaction that has executed its UPDATE holds the   *)
(* lock of the row until it commits or rolls back.                         *)
HoldsLock(r, u) ==
  /\ op[r] \in TxRoutes
  /\ target[r] = u
  /\ at[r] \in {"stored", "cleared", "audited"}

(* Faulty variant: a repository call that bypasses the transaction of its   *)
(* caller waits for the lock of that very transaction.                     *)
CanWriteOutsideTx(r, u) == \A q \in Requests : ~HoldsLock(q, u)

CanWrite(r, u) == \A q \in Requests \ {r} : ~HoldsLock(q, u)

(* The requests that still hold a copy of row u read before this moment.   *)
Readers(u) == {q \in Requests : target[q] = u /\ at[q] \in {"loaded", "uploaded"}}

(* History: request r replaces row u by new and is done with it.           *)
Outdates(r, u, new) ==
  stale' = (IF new = rows[u] THEN stale ELSE stale \cup Readers(u)) \ {r}

(***************************************************************************)
(* First step of the handlers with one target: checks of the input, read   *)
(* of the row, changes to the loaded struct.                               *)
(***************************************************************************)

(* Request r, handler route, has read row u and holds row in memory.       *)
Load(r, route, u, row) ==
  /\ at[r] = "idle"
  /\ route \in Routes
  /\ op' = [op EXCEPT ![r] = route]
  /\ at' = [at EXCEPT ![r] = "loaded"]
  /\ target' = [target EXCEPT ![r] = u]
  /\ entity' = [entity EXCEPT ![r] = row]
  /\ UNCHANGED <<database, expired, objects, tally, history>>

(* A request refused before any write: an invalid body, an unknown id, a   *)
(* wrong password, the caller's own id, a deleted account, a dead token.   *)
Refuse(r) ==
  /\ at[r] = "idle"
  /\ \E route \in Routes : op' = [op EXCEPT ![r] = route]
  /\ at' = [at EXCEPT ![r] = "error"]
  /\ UNCHANGED <<database, expired, objects, target, entity, key, tally, history>>

(* PUT /users/:id: deleted accounts are not refused.                       *)
Update(r) ==
  /\ \E u \in Users : \E role \in NewRoles \cup {rows[u].role} :
       Load(r, "update", u, [rows[u] EXCEPT !.role = role])
  /\ UNCHANGED key

(* Faulty variant: the administrator's reset clears the force flag.        *)
AdminResetClearingForce(r) ==
  /\ \E u \in Users, p \in Passwords :
       Load(r, "adminReset", u, [rows[u] EXCEPT !.password = p, !.force = FALSE])
  /\ UNCHANGED key

(* POST /users/:id/reset-password by an administrator: the force flag is   *)
(* not touched.                                                            *)
AdminReset(r) ==
  /\ \E u \in Users, p \in Passwords :
       Load(r, "adminReset", u, [rows[u] EXCEPT !.password = p])
  /\ UNCHANGED key

(* POST /users/:id/toggle-status by another account; Lock and Unlock       *)
(* refuse a deleted account.                                               *)
ToggleStatus(r) ==
  /\ \E u, caller \in Users :
       /\ caller # u
       /\ ~rows[u].deleted
       /\ Load(r, "toggle", u,
               [rows[u] EXCEPT !.status = IF @ = "locked" THEN "active" ELSE "locked"])
  /\ UNCHANGED key

(* PUT /users/me: an avatar URL, and a password when the current one is    *)
(* right and differs from the new one.  The force flag is not touched.     *)
UpdateProfile(r) ==
  /\ \E u \in Users, p \in Passwords : \E url \in {External, rows[u].avatar} :
       Load(r, "profile", u, [rows[u] EXCEPT !.password = p, !.avatar = url])
  /\ UNCHANGED key

(* POST /auth/change-password: the current password, matched against the   *)
(* loaded hash, and a different new one.                                   *)
ChangePassword(r) ==
  /\ \E u \in Users, p \in Passwords :
       /\ p # rows[u].password
       /\ Load(r, "changePassword", u,
               [rows[u] EXCEPT !.password = p, !.force = FALSE])
  /\ UNCHANGED key

(* POST /auth/forgot-password: the row is looked up by name, deleted       *)
(* accounts included; a locked one is answered without a token.            *)
Forgot(r) ==
  /\ \E u \in Users :
       /\ rows[u].status # "locked"
       /\ Load(r, "forgot", u, rows[u])
  /\ UNCHANGED key

ForgotSilently(r) ==
  /\ at[r] = "idle"
  /\ "forgot" \in Routes
  /\ \E u \in Users : rows[u].status = "locked"
  /\ op' = [op EXCEPT ![r] = "forgot"]
  /\ at' = [at EXCEPT ![r] = "ok"]
  /\ UNCHANGED <<database, expired, objects, target, entity, key, tally, history>>

(* Faulty variant: the age of the token is not looked at.                  *)
MatchesAtAnyAge(u, k) == reset[u] = k /\ ~rows[u].deleted

(* FindByResetTokenHash: no lock is taken on the row that is found.        *)
Matches(u, k) == reset[u] = k /\ k \notin expired /\ ~rows[u].deleted

(* POST /auth/reset-password with the link mailed by request k.            *)
Redeem(r) ==
  \E u \in Users, k \in Requests, p \in Passwords :
    /\ op[k] = "forgot" /\ at[k] = "ok"
    /\ Matches(u, k)
    /\ Load(r, "redeem", u, [rows[u] EXCEPT !.password = p, !.force = FALSE])
    /\ key' = [key EXCEPT ![r] = k]

(* Faulty variant: the row is rebuilt with the default status.             *)
UploadResettingStatus(r) ==
  /\ \E u \in Users :
       Load(r, "upload", u, [rows[u] EXCEPT !.avatar = r, !.status = "active"])
  /\ UNCHANGED key

(* POST /users/:id/avatar, /users/me/avatar: read outside a transaction.   *)
Upload(r) ==
  /\ \E u \in Users : Load(r, "upload", u, [rows[u] EXCEPT !.avatar = r])
  /\ UNCHANGED key

(***************************************************************************)
(* POST /users/bulk-lock, bulk-unlock, DELETE /users/bulk: one transaction *)
(* per id, a failure of one does not stop the next (bulkApply).            *)
(***************************************************************************)

(* Repeated ids are applied once; the caller's own id is a failure.        *)
StartBulk(r) ==
  /\ at[r] = "idle"
  /\ \E route \in BulkRoutes \cap Routes, ids \in SUBSET Users \ {{}}, caller \in Users :
       /\ op' = [op EXCEPT ![r] = route]
       /\ tally' = [tally EXCEPT ![r] =
                      [u \in Users |-> CASE u \notin ids -> "out"
                                         [] u = caller   -> "failed"
                                         [] OTHER        -> "pending"]]
  /\ at' = [at EXCEPT ![r] = "batch"]
  /\ UNCHANGED <<database, expired, objects, target, entity, key, history>>

(* Faulty variant: administrators are locked like anybody else.            *)
BulkSkipsNoAdmin(route, row) ==
  \/ row.deleted
  \/ route = "bulkLock" /\ row.status = "locked"
  \/ route = "bulkUnlock" /\ row.status = "active"

(* The rows a bulk action leaves alone, with a reason in its reply.        *)
BulkSkips(route, row) ==
  \/ row.role = "admin"
  \/ row.deleted
  \/ route = "bulkLock" /\ row.status = "locked"
  \/ route = "bulkUnlock" /\ row.status = "active"

BulkEntity(route, row) ==
  CASE route = "bulkLock"   -> [row EXCEPT !.status = "locked"]
    [] route = "bulkUnlock" -> [row EXCEPT !.status = "active"]
    [] route = "bulkDelete" -> row

BulkSkip(r) ==
  /\ at[r] = "batch"
  /\ \E u \in Users :
       /\ tally[r][u] = "pending"
       /\ BulkSkips(op[r], rows[u])
       /\ tally' = [tally EXCEPT ![r][u] = "failed"]
  /\ UNCHANGED <<database, expired, objects, op, at, target, entity, key, history>>

BulkLoad(r) ==
  /\ at[r] = "batch"
  /\ \E u \in Users :
       /\ tally[r][u] = "pending"
       /\ ~BulkSkips(op[r], rows[u])
       /\ target' = [target EXCEPT ![r] = u]
       /\ entity' = [entity EXCEPT ![r] = BulkEntity(op[r], rows[u])]
  /\ at' = [at EXCEPT ![r] = "loaded"]
  /\ UNCHANGED <<database, expired, objects, op, key, tally, history>>

BulkReply(r) ==
  /\ at[r] = "batch"
  /\ \A u \in Users : tally[r][u] # "pending"
  /\ at' = [at EXCEPT ![r] = "ok"]
  /\ UNCHANGED <<database, expired, objects, op, target, entity, key, tally, history>>

(***************************************************************************)
(* The statements of a transaction.                                        *)
(***************************************************************************)

(* The UPDATE of the row (Update, or SoftDelete): waits for the row lock   *)
(* and keeps it.  Its effect is visible to the others at the commit.       *)
StoreRow(r) ==
  /\ at[r] = "loaded"
  /\ op[r] \in TxRoutes
  /\ CanWrite(r, target[r])
  /\ at' = [at EXCEPT ![r] = "stored"]
  /\ UNCHANGED <<database, expired, objects, op, target, entity, key, tally, history>>

(* SetResetToken(id, "") of the token reset, in the same transaction.      *)
ClearResetToken(r) ==
  /\ at[r] = "stored"
  /\ op[r] = "redeem"
  /\ CanWrite(r, target[r])
  /\ at' = [at EXCEPT ![r] = "cleared"]
  /\ UNCHANGED <<database, expired, objects, op, target, entity, key, tally, history>>

WriteAudit(r) ==
  /\ \/ at[r] = "stored" /\ op[r] # "redeem"
     \/ at[r] = "cleared"
  /\ at' = [at EXCEPT ![r] = "audited"]
  /\ UNCHANGED <<database, expired, objects, op, target, entity, key, tally, history>>

(* The row a committing transaction leaves: SoftDelete writes one column,  *)
(* Update the whole struct.                                                *)
StoredRow(r) ==
  IF op[r] = "bulkDelete" THEN [rows[target[r]] EXCEPT !.deleted = TRUE]
                          ELSE entity[r]

(* What a handler does with the outcome of one transaction: a bulk action  *)
(* notes it and goes on, the others reply.                                 *)
Conclude(r, outcome) ==
  IF op[r] \in BulkRoutes
  THEN /\ tally' = [tally EXCEPT ![r][target[r]] =
                      IF outcome = "ok" THEN "ok" ELSE "failed"]
       /\ at' = [at EXCEPT ![r] = "batch"]
       /\ target' = [target EXCEPT ![r] = None]
  ELSE /\ at' = [at EXCEPT ![r] = outcome]
       /\ UNCHANGED <<tally, target>>

(* Faulty variant: an error of the audit insert is ignored.                *)
CommitIgnoringAudit(r) ==
  /\ at[r] = "audited"
  /\ \E outcome \in Finished : Conclude(r, outcome)
  /\ rows' = [rows EXCEPT ![target[r]] = StoredRow(r)]
  /\ reset' = IF op[r] = "redeem" THEN [reset EXCEPT ![target[r]] = None] ELSE reset
  /\ audit' \in {audit, audit \cup {<<r, target[r]>>}}
  /\ written' = written \cup {<<r, target[r]>>}
  /\ Outdates(r, target[r], StoredRow(r))
  /\ entity' = [entity EXCEPT ![r] = None]
  /\ UNCHANGED <<expired, objects, op, key>>

(* COMMIT.  Its acknowledgement can be lost: the transaction took effect   *)
(* and the handler reports an error.                                       *)
Commit(r) ==
  /\ at[r] = "audited"
  /\ \E outcome \in Finished : Conclude(r, outcome)
  /\ rows' = [rows EXCEPT ![target[r]] = StoredRow(r)]
  /\ reset' = IF op[r] = "redeem" THEN [reset EXCEPT ![target[r]] = None] ELSE reset
  /\ audit' = audit \cup {<<r, target[r]>>}
  /\ written' = written \cup {<<r, target[r]>>}
  /\ Outdates(r, target[r], StoredRow(r))
  /\ entity' = [entity EXCEPT ![r] = None]
  /\ UNCHANGED <<expired, objects, op, key>>

(* Faulty variant: the error of the transaction does not reach the reply.  *)
RollbackUnnoticed(r) ==
  /\ op[r] \in TxRoutes
  /\ at[r] \in {"loaded", "stored", "cleared", "audited"}
  /\ Conclude(r, "ok")
  /\ entity' = [entity EXCEPT ![r] = None]
  /\ stale' = stale \ {r}
  /\ UNCHANGED <<database, expired, objects, op, key, written>>

(* Any call of the transaction fails, the client goes away or the process  *)
(* dies: ROLLBACK.                                                         *)
Rollback(r) ==
  /\ op[r] \in TxRoutes
  /\ at[r] \in {"loaded", "stored", "cleared", "audited"}
  /\ Conclude(r, "error")
  /\ entity' = [entity EXCEPT ![r] = None]
  /\ stale' = stale \ {r}
  /\ UNCHANGED <<database, expired, objects, op, key, written>>

(***************************************************************************)
(* The handlers without a transaction.                                     *)
(***************************************************************************)

(* storage.Upload of the avatar: as slow as the network.                   *)
PutObject(r) ==
  /\ at[r] = "loaded"
  /\ op[r] = "upload"
  /\ objects' = objects \cup {r}
  /\ at' = [at EXCEPT ![r] = "uploaded"]
  /\ UNCHANGED <<database, expired, op, target, entity, key, tally, history>>

(* Faulty variant: the row is written before the upload.                   *)
SaveAvatarFirst(r) ==
  /\ at[r] = "loaded" /\ op[r] = "upload"
  /\ CanWrite(r, target[r])
  /\ rows' = [rows EXCEPT ![target[r]] = entity[r]]
  /\ written' = written \cup {<<r, target[r]>>}
  /\ Outdates(r, target[r], entity[r])
  /\ entity' = [entity EXCEPT ![r] = None]
  /\ at' = [at EXCEPT ![r] = "saved"]
  /\ UNCHANGED <<reset, expired, audit, objects, op, target, key, tally>>

(* The whole row is written with the struct read before the upload.        *)
SaveAvatar(r) ==
  /\ at[r] = "uploaded"
  /\ CanWrite(r, target[r])
  /\ rows' = [rows EXCEPT ![target[r]] = entity[r]]
  /\ written' = written \cup {<<r, target[r]>>}
  /\ Outdates(r, target[r], entity[r])
  /\ entity' = [entity EXCEPT ![r] = None]
  /\ at' = [at EXCEPT ![r] = "saved"]
  /\ UNCHANGED <<reset, expired, audit, objects, op, target, key, tally>>

(* Faulty variant: the UPDATE lost its WHERE id = ?.                       *)
SaveResetTokenEverywhere(r) ==
  /\ at[r] = "loaded"
  /\ op[r] = "forgot"
  /\ CanWrite(r, target[r])
  /\ reset' = [u \in Users |-> r]
  /\ written' = written \cup {<<r, target[r]>>}
  /\ entity' = [entity EXCEPT ![r] = None]
  /\ stale' = stale \ {r}
  /\ at' = [at EXCEPT ![r] = "saved"]
  /\ UNCHANGED <<rows, expired, audit, objects, op, target, key, tally>>

(* SetResetToken(id, hash, now + 1h): only the reset columns are written.  *)
SaveResetToken(r) ==
  /\ at[r] = "loaded"
  /\ op[r] = "forgot"
  /\ CanWrite(r, target[r])
  /\ reset' = [reset EXCEPT ![target[r]] = r]
  /\ written' = written \cup {<<r, target[r]>>}
  /\ entity' = [entity EXCEPT ![r] = None]
  /\ stale' = stale \ {r}
  /\ at' = [at EXCEPT ![r] = "saved"]
  /\ UNCHANGED <<rows, expired, audit, objects, op, target, key, tally>>

(* The audit insert whose error is ignored, then the mail and the reply.   *)
ReplySaved(r) ==
  /\ at[r] = "saved"
  /\ audit' \in {audit, audit \cup {<<r, target[r]>>}}
  /\ at' = [at EXCEPT ![r] = "ok"]
  /\ UNCHANGED <<rows, reset, expired, objects, op, target, entity, key, tally, history>>

(* A failed call, or the death of the process, between two of the calls of *)
(* a handler that is not in a transaction.  What was done stays.           *)
GiveUp(r) ==
  /\ \/ op[r] \in PlainRoutes /\ at[r] \in {"loaded", "uploaded", "saved"}
     \/ at[r] = "batch"
  /\ at' = [at EXCEPT ![r] = "error"]
  /\ entity' = [entity EXCEPT ![r] = None]
  /\ stale' = stale \ {r}
  /\ UNCHANGED <<database, expired, objects, op, target, key, tally, written>>

(* One hour after it was stored a token is no longer found.                *)
Expire ==
  /\ \E u \in Users : reset[u] # None /\ expired' = expired \cup {reset[u]}
  /\ UNCHANGED <<database, objects, handler, history>>

(***************************************************************************)
(* The specification.                                                      *)
(***************************************************************************)

Arrive(r) ==
  \/ Update(r) \/ AdminReset(r) \/ ToggleStatus(r) \/ UpdateProfile(r)
  \/ ChangePassword(r) \/ Forgot(r) \/ ForgotSilently(r) \/ Redeem(r)
  \/ Upload(r) \/ StartBulk(r) \/ Refuse(r)

Proceed(r) ==
  \/ BulkSkip(r) \/ BulkLoad(r) \/ BulkReply(r)
  \/ StoreRow(r) \/ ClearResetToken(r) \/ WriteAudit(r) \/ Commit(r)
  \/ PutObject(r) \/ SaveAvatar(r) \/ SaveResetToken(r) \/ ReplySaved(r)

Fail(r) == Rollback(r) \/ GiveUp(r)

Next == Expire \/ \E r \in Requests : Arrive(r) \/ Proceed(r) \/ Fail(r)

Spec == Init /\ [][Next]_vars

(* The goroutine of a request runs on: a call that can return does, and a  *)
(* wait for a row lock ends once its holder is through.  No failure is     *)
(* needed for that (there is no lock or statement timeout to count on),    *)
(* nobody has to send a request, no token to expire.                       *)
Fairness == \A r \in Requests : WF_vars(Proceed(r))

FairSpec == Spec /\ Fairness

(***************************************************************************)
(* Properties that hold.                                                   *)
(***************************************************************************)

(* An invited account does not leave the forced rotation (column           *)
(* force_password_change, read by the auth middleware) unless its owner    *)
(* set a password: POST /auth/change-password or a reset link, whatever    *)
(* stale rows the other handlers write.                                    *)
ForcedRotation ==
  \A u \in Invited :
    ~rows[u].force => \E r \in Requests : /\ op[r] \in {"changePassword", "redeem"}
                                          /\ <<r, u>> \in written

(* A reset link that has set a password is never found again: the whole    *)
(* row writes of the other handlers cannot bring its token back.           *)
SpentLinkStaysDead ==
  \A r \in Requests, u, v \in Users :
    op[r] = "redeem" /\ <<r, u>> \in written => reset[v] # key[r]

(* A reset link sets the password of the account it was mailed to, and of  *)
(* no other.                                                               *)
LinkSetsItsOwnAccount ==
  \A r \in Requests, u \in Users :
    op[r] = "redeem" /\ <<r, u>> \in written => target[key[r]] = u

(* The handlers that use TxRunner commit a change and its audit row        *)
(* together or not at all, through every failure; no handler leaves an     *)
(* audit row about a change that was not made.                             *)
AuditMatchesCommits ==
  /\ audit \subseteq written
  /\ \A r \in Requests, u \in Users :
       <<r, u>> \in written /\ op[r] \in TxRoutes => <<r, u>> \in audit

(* A success told to the client, or counted in the OK of a bulk action, is *)
(* committed.                                                              *)
SuccessIsCommitted ==
  \A r \in Requests :
    /\ at[r] = "ok" /\ op[r] \in TxRoutes \ BulkRoutes => <<r, target[r]>> \in written
    /\ \A u \in Users : tally[r][u] = "ok" => <<r, u>> \in written

(* An avatar URL made by the upload handler points to a stored object, in  *)
(* every row, through failed uploads and stale writes.                     *)
AvatarIsStored == \A u \in Users : rows[u].avatar \in objects \cup {None, External}

(* The columns each handler is meant to change.                            *)
Keeps(route, old, new) ==
  /\ route # "update" => new.role = old.role
  /\ route \notin {"toggle", "bulkLock", "bulkUnlock"} => new.status = old.status
  /\ route \notin {"adminReset", "profile", "changePassword", "redeem"} =>
       new.password = old.password
  /\ route \notin {"changePassword", "redeem"} => new.force = old.force
  /\ route # "bulkDelete" => new.deleted = old.deleted
  /\ route \notin {"profile", "upload"} => new.avatar = old.avatar

(* The step writes no column of a fresh row that its handler must keep.    *)
FreshKept ==
  \A r \in Requests, u \in Users :
    <<r, u>> \in written' \ written /\ r \notin stale => Keeps(op[r], rows[u], rows'[u])

(* A handler whose row nobody changed since it was read changes only the   *)
(* columns it is meant to change, although it writes them all: every lost  *)
(* update needs two requests that overlap on the row.                      *)
FreshWritesKeepTheRest == [][FreshKept]_vars

(* The step is no bulk write to an administrator, or to a deleted account, *)
(* that the handler could have known of.                                   *)
SparesAdmins ==
  \A r \in Requests, u \in Users :
    /\ <<r, u>> \in written' \ written
    /\ op[r] \in BulkRoutes
    /\ rows[u].role = "admin" \/ rows[u].deleted
    => r \in stale

(* A bulk action leaves administrators and deleted accounts alone.  The    *)
(* check (applyOneUserWrite) reads the row before the UPDATE and without a *)
(* lock: it misses only the promotion or the deletion that another request *)
(* commits between the two.                                                *)
AdminsAreSpared == [][SparesAdmins]_vars

(***************************************************************************)
(* The reset columns of the rows and the requests that redeem a link, seen *)
(* as links: a link is live while a look-up by its token finds a row.      *)
(***************************************************************************)

LiveLink(u) == IF reset[u] \in expired THEN None ELSE reset[u]
LiveLinks == [u \in Users |-> LiveLink(u)]

DeadLinks == {k \in Requests : /\ op[k] = "forgot"
                               /\ \E u \in Users : <<k, u>> \in written
                               /\ \A u \in Users : LiveLink(u) # k}

Redeeming(r) == op[r] = "redeem" /\ at[r] \in {"loaded", "stored", "cleared", "audited"}
HeldLinks == {<<r, key[r], target[r]>> : r \in {q \in Requests : Redeeming(q)}}

UsedLinks == {<<w[1], key[w[1]], w[2]>> : w \in {v \in written : op[v[1]] = "redeem"}}

Links == INSTANCE ResetLinks WITH
  live <- LiveLinks, dead <- DeadLinks, holding <- HeldLinks, used <- UsedLinks

(* The handlers keep the promise of ResetLinks: one live link an account,  *)
(* no way back for a dead one, and no use of a link that was looked up     *)
(* after the first use was committed.                                      *)
ImplementsLinks == Links!LinksSpec

(* Every request is answered: the row locks cannot make requests wait for  *)
(* each other, or a request for itself.                                    *)
EveryRequestAnswered ==
  \A r \in Requests : at[r] # "idle" ~> at[r] \in Finished

(***************************************************************************)
(* What the documentation says and the code does not do.                   *)
(***************************************************************************)

(* The status of a deleted account cannot be changed: Lock and Unlock      *)
(* return ErrUserDeleted.                                                  *)
DeletedStatusFrozen ==
  [][\A u \in Users : rows[u].deleted => rows'[u].status = rows[u].status]_vars
=============================================================================

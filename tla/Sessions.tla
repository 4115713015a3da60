------------------------------ MODULE Sessions ------------------------------
(***************************************************************************)
(* Sessions: login and logout of usecase/auth.go, the tokens of            *)
(* xauth/jwt.go, the revocations of xauth/blacklist.go in Redis, and       *)
(* Auth.Middleware of middleware.go in front of every other route.         *)
(*                                                                         *)
(* A token is named by the login that signed it: its id is random.  Time   *)
(* is counted in seconds, the precision of the expiry in a token, and      *)
(* passes between any two steps.  Redis deletes a key as soon as its time  *)
(* is over.  The rows of users change by the commits of UserAccounts, left *)
(* free here: also a stale write that brings an old value back.            *)
(***************************************************************************)
EXTENDS Naturals, FiniteSets

CONSTANTS
  Users,     \* accounts
  Requests,  \* calls of the API
  TokenTTL,  \* lifetime of a token (jwt_ttl, 168 h by default)
  MaxTime,   \* bound of the model on the clock
  None       \* no account, no token, never

ASSUME SessionsAssumption ==
  /\ TokenTTL \in Nat \ {0}
  /\ MaxTime \in Nat
  /\ None \notin Users \cup Requests \cup Nat

VARIABLES
  now,          \* the clock
  rows,         \* the columns of users that matter to a session
  revoked,      \* Redis: until when a token is revoked, or None
  at,           \* where a request is
  route,        \* what was called
  caller,       \* the account it logs in, or whose token it carries
  token,        \* the token it carries, named by its login
  expiry,       \* of the token a login has signed
  ttl,          \* the lifetime a logout has computed for its revocation
  lockedSince,  \* history: since when an account is locked
  seen          \* history: what happened since a request began

vars == <<now, rows, revoked, at, route, caller, token, expiry, ttl, lockedSince, seen>>

Time == 0..MaxTime

(* Locked, and the answer of MustForcePasswordChange: the column, or FALSE *)
(* when the account is deleted.                                            *)
Row == [locked: BOOLEAN, force: BOOLEAN]

(* The routes that stay open during the forced rotation; "api" stands for  *)
(* all others.                                                             *)
Exempt == {"me", "logout", "changePassword"}
Routes == Exempt \cup {"login", "api"}

Answers == {"granted", "served", "done", "refused", "revoked", "blocked", "error"}

(* When a login began; whether the token of a request had been logged out  *)
(* when it began, and what the gate could have read since.                 *)
Witness == [began: Time, late: BOOLEAN, gate: SUBSET BOOLEAN]
NoWitness == [began |-> 0, late |-> FALSE, gate |-> {}]

TypeOK ==
  /\ now \in Time
  /\ rows \in [Users -> Row]
  /\ revoked \in [Requests -> Nat \cup {None}]
  /\ at \in [Requests -> {"idle", "read", "verified", "cleared", "entered", "revoking"}
                         \cup Answers]
  /\ route \in [Requests -> Routes \cup {None}]
  /\ caller \in [Requests -> Users \cup {None}]
  /\ token \in [Requests -> Requests \cup {None}]
  /\ expiry \in [Requests -> Nat \cup {None}]
  /\ ttl \in [Requests -> 0..TokenTTL]
  /\ lockedSince \in [Users -> Time \cup {None}]
  /\ seen \in [Requests -> Witness]

(* New accounts are active; some have to change their password first.      *)
Init ==
  /\ now = 0
  /\ rows \in [Users -> {row \in Row : ~row.locked}]
  /\ revoked = [r \in Requests |-> None]
  /\ at = [r \in Requests |-> "idle"]
  /\ route = [r \in Requests |-> None]
  /\ caller = [r \in Requests |-> None]
  /\ token = [r \in Requests |-> None]
  /\ expiry = [r \in Requests |-> None]
  /\ ttl = [r \in Requests |-> 0]
  /\ lockedSince = [u \in Users |-> None]
  /\ seen = [r \in Requests |-> NoWitness]

Goes(r, to) == at' = [at EXCEPT ![r] = to]

(***************************************************************************)
(* Time, and the other handlers.                                           *)
(***************************************************************************)

(* Redis forgets the revocations whose time is over.                       *)
Tick ==
  /\ now < MaxTime
  /\ now' = now + 1
  /\ revoked' = [q \in Requests |-> IF revoked[q] \in 0..now' THEN None ELSE revoked[q]]
  /\ UNCHANGED <<rows, at, route, caller, token, expiry, ttl, lockedSince, seen>>

(* A row of users is written.                                              *)
Store(u, row) ==
  /\ rows' = [rows EXCEPT ![u] = row]
  /\ lockedSince' = [lockedSince EXCEPT ![u] = CASE ~row.locked -> None
                                                 [] row.locked /\ @ = None -> now
                                                 [] OTHER -> @]
  /\ seen' = [r \in Requests |->
               IF caller[r] = u /\ route[r] = "api" /\ at[r] \in {"verified", "cleared"}
               THEN [seen[r] EXCEPT !.gate = @ \cup {row.force}]
               ELSE seen[r]]

(* A handler of UserAccounts commits.                                      *)
CommitRow(u, row) ==
  /\ row # rows[u]
  /\ Store(u, row)
  /\ UNCHANGED <<now, revoked, at, route, caller, token, expiry, ttl>>

(***************************************************************************)
(* POST /auth/login.                                                       *)
(***************************************************************************)

(* Faulty variant: the status is not looked at.                            *)
ReadUserIgnoringLock(r, u) ==
  /\ at[r] = "idle"
  /\ route' = [route EXCEPT ![r] = "login"]
  /\ caller' = [caller EXCEPT ![r] = u]
  /\ seen' = [seen EXCEPT ![r].began = now]
  /\ Goes(r, "read")
  /\ UNCHANGED <<now, rows, revoked, token, expiry, ttl, lockedSince>>

(* GetByUsername, ComparePassword, IsLocked: the client has a right or a   *)
(* wrong password.  A deleted account is found as well.                    *)
ReadUser(r, u) ==
  /\ at[r] = "idle"
  /\ route' = [route EXCEPT ![r] = "login"]
  /\ caller' = [caller EXCEPT ![r] = u]
  /\ \/ ~rows[u].locked /\ Goes(r, "read")
     \/ Goes(r, "refused")
  /\ seen' = [seen EXCEPT ![r].began = now]
  /\ UNCHANGED <<now, rows, revoked, token, expiry, ttl, lockedSince>>

(* Sign, then the audit insert, whose error is dropped, and the answer.    *)
Sign(r) ==
  /\ at[r] = "read"
  /\ \/ expiry' = [expiry EXCEPT ![r] = now + TokenTTL] /\ Goes(r, "granted")
     \/ UNCHANGED expiry /\ Goes(r, "error")
  /\ UNCHANGED <<now, rows, revoked, route, caller, token, ttl, lockedSince, seen>>

(***************************************************************************)
(* Auth.Middleware.                                                        *)
(***************************************************************************)

LoggedOut(q) == \E r \in Requests : route[r] = "logout" /\ token[r] = q /\ at[r] = "done"

(* Manager.Verify: a token is over when its expiry is reached.             *)
Valid(q) == now < expiry[q]

(* A request with the token of login q.                                    *)
Verify(r, q, ro) ==
  /\ at[r] = "idle"
  /\ at[q] = "granted"
  /\ route' = [route EXCEPT ![r] = ro]
  /\ caller' = [caller EXCEPT ![r] = caller[q]]
  /\ token' = [token EXCEPT ![r] = q]
  /\ Goes(r, IF Valid(q) THEN "verified" ELSE "refused")
  /\ seen' = [seen EXCEPT ![r].late = LoggedOut(q),
                          ![r].gate = IF ro = "api" THEN {rows[caller[q]].force} ELSE {}]
  /\ UNCHANGED <<now, rows, revoked, expiry, ttl, lockedSince>>

(* Behind the checks, a handler with effects begins; the others answer.    *)
Handler(r) == IF route[r] \in {"logout", "changePassword"} THEN "entered" ELSE "served"

(* Blacklist.IsRevoked; without an answer of Redis the request ends.       *)
CheckRevoked(r) ==
  /\ at[r] = "verified"
  /\ \/ revoked[token[r]] # None /\ Goes(r, "revoked")
     \/ /\ revoked[token[r]] = None
        /\ Goes(r, IF route[r] \in Exempt THEN Handler(r) ELSE "cleared")
     \/ Goes(r, "error")
  /\ UNCHANGED <<now, rows, revoked, route, caller, token, expiry, ttl, lockedSince, seen>>

(* Faulty variant: without an answer of the database the gate is open.     *)
CheckForceFailingOpen(r) ==
  /\ at[r] = "cleared"
  /\ \/ Goes(r, IF rows[caller[r]].force THEN "blocked" ELSE Handler(r))
     \/ Goes(r, Handler(r))
  /\ UNCHANGED <<now, rows, revoked, route, caller, token, expiry, ttl, lockedSince, seen>>

(* The forced rotation gate, one query per request.                        *)
CheckForce(r) ==
  /\ at[r] = "cleared"
  /\ \/ Goes(r, IF rows[caller[r]].force THEN "blocked" ELSE Handler(r))
     \/ Goes(r, "error")
  /\ UNCHANGED <<now, rows, revoked, route, caller, token, expiry, ttl, lockedSince, seen>>

(***************************************************************************)
(* The handlers with effects.                                              *)
(***************************************************************************)

(* POST /auth/change-password: the transaction of UserAccounts.            *)
ChangePassword(r) ==
  /\ at[r] = "entered"
  /\ route[r] = "changePassword"
  /\ \/ /\ Store(caller[r], [rows[caller[r]] EXCEPT !.force = FALSE])
        /\ Goes(r, "done")
     \/ Goes(r, "error") /\ UNCHANGED <<rows, lockedSince, seen>>
  /\ UNCHANGED <<now, revoked, route, caller, token, expiry, ttl>>

(* POST /auth/logout: Revoke computes how long the token has to be refused *)
(* and does nothing when it is over.                                       *)
Revoke(r) ==
  /\ at[r] = "entered"
  /\ route[r] = "logout"
  /\ \/ /\ Valid(token[r])
        /\ ttl' = [ttl EXCEPT ![r] = expiry[token[r]] - now]
        /\ Goes(r, "revoking")
     \/ ~Valid(token[r]) /\ Goes(r, "done") /\ UNCHANGED ttl
  /\ UNCHANGED <<now, rows, revoked, route, caller, token, expiry, lockedSince, seen>>

(* Faulty variant: one key for all tokens of an account.                   *)
SetRevokedByAccount(r) ==
  /\ at[r] = "revoking"
  /\ Goes(r, "done")
  /\ revoked' = [q \in Requests |-> IF route[q] = "login" /\ caller[q] = caller[r]
                                    THEN now + ttl[r] ELSE revoked[q]]
  /\ ttl' = [ttl EXCEPT ![r] = 0]
  /\ UNCHANGED <<now, rows, route, caller, token, expiry, lockedSince, seen>>

(* Faulty variant: the error of Redis is dropped.                          *)
SetRevokedIgnoringErrors(r) ==
  /\ at[r] = "revoking"
  /\ Goes(r, "done")
  /\ revoked' \in {revoked, [revoked EXCEPT ![token[r]] = now + ttl[r]]}
  /\ ttl' = [ttl EXCEPT ![r] = 0]
  /\ UNCHANGED <<now, rows, route, caller, token, expiry, lockedSince, seen>>

(* SET with the lifetime, counted from when Redis gets it.  On an error    *)
(* Redis may have set the key or not.                                      *)
SetRevoked(r) ==
  /\ at[r] = "revoking"
  /\ \/ Goes(r, "done") /\ revoked' = [revoked EXCEPT ![token[r]] = now + ttl[r]]
     \/ Goes(r, "error") /\ revoked' \in {revoked, [revoked EXCEPT ![token[r]] = now + ttl[r]]}
  /\ ttl' = [ttl EXCEPT ![r] = 0]
  /\ UNCHANGED <<now, rows, route, caller, token, expiry, lockedSince, seen>>

(***************************************************************************)
(* Specification.                                                          *)
(***************************************************************************)

Next ==
  \/ Tick
  \/ \E u \in Users, row \in Row : CommitRow(u, row)
  \/ \E r \in Requests :
       \/ \E u \in Users : ReadUser(r, u)
       \/ \E q \in Requests, ro \in Routes \ {"login"} : Verify(r, q, ro)
       \/ Sign(r) \/ CheckRevoked(r) \/ CheckForce(r)
       \/ ChangePassword(r) \/ Revoke(r) \/ SetRevoked(r)

Spec == Init /\ [][Next]_vars

(***************************************************************************)
(* Properties.                                                             *)
(***************************************************************************)

(* A logout that was answered ends the session: no request that arrives    *)
(* later is let through by the blacklist, until the token is over; the     *)
(* revocation must not be forgotten before that.  (A request may pass      *)
(* Verify in the last second and find the key gone: the key and the token  *)
(* end together.)                                                          *)
LogoutEndsTheSession ==
  [][\A r \in Requests :
       /\ at[r] = "verified" /\ at'[r] \in {"cleared", "entered", "served"}
       /\ seen[r].late
       => ~Valid(token[r])]_vars

(* A token is refused as revoked only after a logout with the same token:  *)
(* the other sessions of the account go on.                                *)
OnlyItsLogoutRevokes ==
  \A r \in Requests :
    at[r] = "revoked" =>
      \E q \in Requests \ {r} : /\ route[q] = "logout" /\ token[q] = token[r]
                                /\ at[q] \in {"done", "error"}

(* The forced rotation gate stops a request only if the account had to     *)
(* change its password at some moment of the request, and lets it through  *)
(* only if there was a moment when it had not: a rotation opens all        *)
(* sessions of the account, as the comment in ChangePassword says, and a   *)
(* flag that is set again closes them.                                     *)
GateIsCurrent ==
  \A r \in Requests :
    /\ at[r] = "blocked" => TRUE \in seen[r].gate
    /\ at[r] = "served" /\ route[r] = "api" => FALSE \in seen[r].gate

(* Nothing looks at the status of an account between its logins.  Still a  *)
(* locked account is out when the lifetime of a token has passed: a token  *)
(* that is valid longer was being made when the account was locked.        *)
LockRunsOut ==
  [][\A r \in Requests :
       /\ at[r] = "idle" /\ at'[r] = "verified"
       /\ lockedSince[caller'[r]] # None
       => \/ now < lockedSince[caller'[r]] + TokenTTL
          \/ /\ seen[token'[r]].began <= lockedSince[caller'[r]]
             /\ lockedSince[caller'[r]] + TokenTTL < expiry[token'[r]]]_vars
=============================================================================

----------------------------- MODULE Onboarding -----------------------------
(***************************************************************************)
(* How accounts come into being: POST /users, POST /users/invite and       *)
(* GET /users/next-code (usecase/user.go), and the command seed-admin.     *)
(*                                                                         *)
(* An account is named by the request that creates it.  A username is the  *)
(* local part of an address with a suffix, <<ann, 1>> for "ann", <<ann, 2>>*)
(* for "ann-2".  A staff code is a prefix, named by its role, and a        *)
(* number, 0 for the bare prefix; codes that are no numbers are skipped by *)
(* the code and left out.  Usernames never change and rows are never       *)
(* removed: deleting an account only marks it, and the queries here do not *)
(* look at the mark.                                                       *)
(***************************************************************************)
EXTENDS Integers, FiniteSets, FiniteSetsExt

CONSTANTS
  Requests,    \* calls of the API, runs of seed-admin
  Bases,       \* the local parts of addresses, as deriveUsername leaves them
  Roles,       \* admin, manager, staff
  MaxSuffix,   \* the last suffix Invite comes to (99)
  MaxInt,      \* the largest int (2^63 - 1)
  TypedCodes,  \* staff codes a client makes up
  UniqueNames, \* whether usernames have a unique index: the schema is not in the repository
  None         \* no account, no code, no mail

Names == Bases \X (1..MaxSuffix)
Codes == [prefix: Roles, num: -(MaxInt + 1)..MaxInt]

(* What a request was given, and a row of users.                           *)
Draft == [role: Roles, code: Codes \cup {None}]
Row == [name: Names, role: Roles, code: Codes \cup {None}]

ASSUME OnboardingAssumption ==
  /\ "admin" \in Roles
  /\ MaxSuffix \in Nat \ {0}
  /\ MaxInt \in Nat \ {0}
  /\ TypedCodes \subseteq Codes
  /\ UniqueNames \in BOOLEAN
  /\ None \notin Names \cup Codes \cup Roles \cup Row

VARIABLES
  rows,    \* table users: the account a request has created
  perms,   \* table user_permissions: the role whose defaults are stored
  audit,   \* table audit_log: the requests with a row
  at,      \* where a request is
  route,   \* what was called
  name,    \* the username a request tries
  draft,   \* the role and the staff code it was given
  wrote,   \* the tables its open transaction has written to
  mail,    \* what became of the mail of an invitation
  shown,   \* invitations whose answer has the temporary password
  answer   \* the staff code next-code answered

vars == <<rows, perms, audit, at, route, name, draft, wrote, mail, shown, answer>>

tables == <<rows, perms, audit>>
outcome == <<mail, shown, answer>>

TypeOK ==
  /\ rows \in [Requests -> Row \cup {None}]
  /\ perms \in [Requests -> Roles \cup {None}]
  /\ audit \subseteq Requests
  /\ at \in [Requests -> {"idle", "probing", "checking", "free", "inserted", "seeded", "audited",
                          "mailing", "created", "exists", "conflict", "answered", "error"}]
  /\ route \in [Requests -> {"create", "invite", "seedAdmin", "nextCode", None}]
  /\ name \in [Requests -> Names \cup {None}]
  /\ draft \in [Requests -> Draft \cup {None}]
  /\ wrote \in [Requests -> SUBSET {"users", "user_permissions", "audit_log"}]
  /\ mail \in [Requests -> {"delivered", "lost", None}]
  /\ shown \subseteq Requests
  /\ answer \in [Requests -> Codes \cup {None}]

Init ==
  /\ rows = [r \in Requests |-> None]
  /\ perms = [r \in Requests |-> None]
  /\ audit = {}
  /\ at = [r \in Requests |-> "idle"]
  /\ route = [r \in Requests |-> None]
  /\ name = [r \in Requests |-> None]
  /\ draft = [r \in Requests |-> None]
  /\ wrote = [r \in Requests |-> {}]
  /\ mail = [r \in Requests |-> None]
  /\ shown = {}
  /\ answer = [r \in Requests |-> None]

Goes(r, to) == at' = [at EXCEPT ![r] = to]

(* ExistsByUsername, GetByUsername: a committed row has the name.          *)
Taken(nm) == \E q \in Requests : rows[q] # None /\ rows[q].name = nm

(* A transaction that has inserted the name has not ended.                 *)
Pending(nm) == \E q \in Requests : "users" \in wrote[q] /\ name[q] = nm

(***************************************************************************)
(* Arrivals.                                                               *)
(***************************************************************************)

(* The codes a client may send: its own, or one next-code has answered.    *)
Sent == TypedCodes \cup {answer[q] : q \in Requests} \cup {None}

Begin(r, ro, nm, role, code) ==
  /\ at[r] = "idle"
  /\ route' = [route EXCEPT ![r] = ro]
  /\ name' = [name EXCEPT ![r] = nm]
  /\ draft' = [draft EXCEPT ![r] = [role |-> role, code |-> code]]
  /\ Goes(r, "probing")
  /\ UNCHANGED <<tables, wrote, outcome>>

Create(r) ==
  \E nm \in Names, role \in Roles, code \in Sent : Begin(r, "create", nm, role, code)

(* The first name to try is the bare local part; nobody is invited as      *)
(* administrator.                                                          *)
Invite(r) ==
  \E b \in Bases, role \in Roles \ {"admin"}, code \in Sent : Begin(r, "invite", <<b, 1>>, role, code)

(* The command, with any -username; its code is the bare "ADMIN".          *)
SeedAdmin(r) ==
  \E nm \in Names : Begin(r, "seedAdmin", nm, "admin", [prefix |-> "admin", num |-> 0])

(***************************************************************************)
(* The username.                                                           *)
(***************************************************************************)

(* One query decides, for Create and for seed-admin.                       *)
Probe(r) ==
  /\ at[r] = "probing"
  /\ route[r] # "invite"
  /\ Goes(r, IF ~Taken(name[r]) THEN "free" ELSE IF route[r] = "create" THEN "conflict" ELSE "exists")
  /\ UNCHANGED <<tables, route, name, draft, wrote, outcome>>

(* Faulty variant: a query that fails is taken for a name in use.          *)
TryNameSkippingErrors(r) ==
  /\ at[r] = "probing"
  /\ route[r] = "invite"
  /\ \/ /\ name[r][2] < MaxSuffix
        /\ name' = [name EXCEPT ![r][2] = @ + 1]
        /\ UNCHANGED at
     \/ /\ name[r][2] = MaxSuffix \/ ~Taken(name[r])
        /\ Goes(r, "checking")
        /\ UNCHANGED name
  /\ UNCHANGED <<tables, route, draft, wrote, outcome>>

(* The loop of Invite: the next suffix while the name is in use.  The last *)
(* suffix is not looked up here.                                           *)
TryName(r) ==
  /\ at[r] = "probing"
  /\ route[r] = "invite"
  /\ \/ /\ name[r][2] < MaxSuffix
        /\ Taken(name[r])
        /\ name' = [name EXCEPT ![r][2] = @ + 1]
        /\ UNCHANGED at
     \/ /\ name[r][2] = MaxSuffix \/ ~Taken(name[r])
        /\ Goes(r, "checking")
        /\ UNCHANGED name
  /\ UNCHANGED <<tables, route, draft, wrote, outcome>>

(* Faulty variant: the last suffix is given up without a look.             *)
CheckNameGivingUp(r) ==
  /\ at[r] = "checking"
  /\ Goes(r, IF name[r][2] = MaxSuffix \/ Taken(name[r]) THEN "conflict" ELSE "free")
  /\ UNCHANGED <<tables, route, name, draft, wrote, outcome>>

(* The name the loop ended with is looked up once more.                    *)
CheckName(r) ==
  /\ at[r] = "checking"
  /\ Goes(r, IF Taken(name[r]) THEN "conflict" ELSE "free")
  /\ UNCHANGED <<tables, route, name, draft, wrote, outcome>>

(***************************************************************************)
(* The transaction.                                                        *)
(***************************************************************************)

RowOf(r) == [name |-> name[r], role |-> draft[r].role, code |-> draft[r].code]

(* With a unique index the INSERT waits for a transaction that inserts the *)
(* same name, and fails behind one that has: no error of Postgres is       *)
(* mapped, so the client is told 500 and not 409.                          *)
InsertUser(r) ==
  /\ at[r] = "free"
  /\ route[r] # "seedAdmin"
  /\ UniqueNames => ~Pending(name[r])
  /\ \/ /\ ~(UniqueNames /\ Taken(name[r]))
        /\ wrote' = [wrote EXCEPT ![r] = {"users"}]
        /\ Goes(r, "inserted")
     \/ UniqueNames /\ Taken(name[r]) /\ Goes(r, "error") /\ UNCHANGED wrote
  /\ UNCHANGED <<tables, route, name, draft, outcome>>

(* seed-admin inserts without a transaction of its own, and without an     *)
(* audit row; the answer to the INSERT may be lost.                        *)
InsertAdmin(r) ==
  /\ at[r] = "free"
  /\ route[r] = "seedAdmin"
  /\ UniqueNames => ~Pending(name[r])
  /\ \/ /\ ~(UniqueNames /\ Taken(name[r]))
        /\ rows' = [rows EXCEPT ![r] = RowOf(r)]
        /\ Goes(r, "created") \/ Goes(r, "error")
     \/ UniqueNames /\ Taken(name[r]) /\ Goes(r, "error") /\ UNCHANGED rows
  /\ UNCHANGED <<perms, audit, route, name, draft, wrote, outcome>>

(* The role defaults, for every role but admin.                            *)
SeedPermissions(r) ==
  /\ at[r] = "inserted"
  /\ draft[r].role # "admin"
  /\ wrote' = [wrote EXCEPT ![r] = @ \cup {"user_permissions"}]
  /\ Goes(r, "seeded")
  /\ UNCHANGED <<tables, route, name, draft, outcome>>

(* Faulty variant: an invitation does not seed its permissions.            *)
WriteAuditUnseeded(r) ==
  /\ at[r] \in {"inserted", "seeded"}
  /\ at[r] = "inserted" => draft[r].role = "admin" \/ route[r] = "invite"
  /\ wrote' = [wrote EXCEPT ![r] = @ \cup {"audit_log"}]
  /\ Goes(r, "audited")
  /\ UNCHANGED <<tables, route, name, draft, outcome>>

WriteAudit(r) ==
  /\ at[r] \in {"inserted", "seeded"}
  /\ at[r] = "inserted" => draft[r].role = "admin"
  /\ wrote' = [wrote EXCEPT ![r] = @ \cup {"audit_log"}]
  /\ Goes(r, "audited")
  /\ UNCHANGED <<tables, route, name, draft, outcome>>

(* What the transaction has written becomes visible, also when its         *)
(* acknowledgement is lost.                                                *)
Commit(r) ==
  /\ at[r] = "audited"
  /\ rows' = IF "users" \in wrote[r] THEN [rows EXCEPT ![r] = RowOf(r)] ELSE rows
  /\ perms' = IF "user_permissions" \in wrote[r] THEN [perms EXCEPT ![r] = draft[r].role] ELSE perms
  /\ audit' = IF "audit_log" \in wrote[r] THEN audit \cup {r} ELSE audit
  /\ wrote' = [wrote EXCEPT ![r] = {}]
  /\ \/ Goes(r, IF route[r] = "invite" THEN "mailing" ELSE "created")
     \/ Goes(r, "error")
  /\ UNCHANGED <<route, name, draft, outcome>>

(* Any statement may fail; the transaction is rolled back.  The second     *)
(* look of Invite drops its error, but Postgres refuses the INSERT then.   *)
Fail(r) ==
  /\ at[r] \in {"probing", "checking", "free", "inserted", "seeded", "audited"}
  /\ wrote' = [wrote EXCEPT ![r] = {}]
  /\ Goes(r, "error")
  /\ UNCHANGED <<tables, route, name, draft, outcome>>

(***************************************************************************)
(* The mail of an invitation.                                              *)
(***************************************************************************)

(* Send fails, and the answer has the password; or it does not, and the    *)
(* mail has it.  Send does not fail when the mail server refuses the text  *)
(* of the mail, whose reply is read by a deferred Close, nor when no       *)
(* server is configured: LoggerSender logs address and subject.            *)
SendInvitation(r) ==
  /\ at[r] = "mailing"
  /\ \/ mail' = [mail EXCEPT ![r] = "lost"] /\ shown' = shown \cup {r}
     \/ mail' = [mail EXCEPT ![r] = "delivered"] /\ UNCHANGED shown
     \/ mail' = [mail EXCEPT ![r] = "lost"] /\ UNCHANGED shown
  /\ Goes(r, "created")
  /\ UNCHANGED <<tables, route, name, draft, wrote, answer>>

(***************************************************************************)
(* The next staff code.                                                    *)
(***************************************************************************)

(* The numbers of the codes with the prefix of a role.                     *)
Numbers(role) ==
  {rows[q].code.num : q \in {p \in Requests : /\ rows[p] # None /\ rows[p].code # None
                                              /\ rows[p].code.prefix = role}}

Highest(role) == Max(Numbers(role) \cup {0})

(* Faulty variant: the codes are counted.                                  *)
NextStaffCodeCounting(role) ==
  LET next == Cardinality(Numbers(role)) + 1
  IN  [prefix |-> role, num |-> IF role = "admin" /\ next = 1 THEN 0 ELSE next]

(* One more than the highest number, in an int; the first administrator's  *)
(* code has no number.                                                     *)
NextStaffCode(role) ==
  LET next == IF Highest(role) = MaxInt THEN -(MaxInt + 1) ELSE Highest(role) + 1
  IN  [prefix |-> role, num |-> IF role = "admin" /\ next = 1 THEN 0 ELSE next]

NextCode(r, role) ==
  /\ at[r] = "idle"
  /\ route' = [route EXCEPT ![r] = "nextCode"]
  /\ \/ answer' = [answer EXCEPT ![r] = NextStaffCode(role)] /\ Goes(r, "answered")
     \/ UNCHANGED answer /\ Goes(r, "error")
  /\ UNCHANGED <<tables, name, draft, wrote, mail, shown>>

(***************************************************************************)
(* Specification.                                                          *)
(***************************************************************************)

Next ==
  \E r \in Requests :
    \/ Create(r) \/ Invite(r) \/ SeedAdmin(r)
    \/ Probe(r) \/ TryName(r) \/ CheckName(r)
    \/ InsertUser(r) \/ InsertAdmin(r) \/ SeedPermissions(r) \/ WriteAudit(r)
    \/ Commit(r) \/ Fail(r)
    \/ SendInvitation(r)
    \/ \E role \in Roles : NextCode(r, role)

Spec == Init /\ [][Next]_vars

(***************************************************************************)
(* Properties.                                                             *)
(***************************************************************************)

(* An account of the API exists with everything that belongs to it or not  *)
(* at all: the defaults of its role, unless it is an administrator, and    *)
(* its audit row; and neither without the account.                         *)
AccountsAreComplete ==
  \A r \in Requests :
    IF rows[r] = None \/ route[r] = "seedAdmin"
    THEN perms[r] = None /\ r \notin audit
    ELSE /\ perms[r] = IF rows[r].role = "admin" THEN None ELSE rows[r].role
         /\ r \in audit

(* An invited account gets a suffix only if every smaller one is in use,   *)
(* however invitations overlap, fail and are rolled back.                  *)
SuffixesHaveNoGaps ==
  \A r \in Requests :
    rows[r] # None /\ route[r] = "invite" =>
      \A n \in 1 .. rows[r].name[2] - 1 : Taken(<<rows[r].name[1], n>>)

(* 409 is the truth: Create's name is in use; for Invite, the suffixes are *)
(* exhausted or the name was taken between its two looks.                  *)
ConflictIsReal ==
  \A r \in Requests : at[r] = "conflict" => Taken(name[r])

(* The code next-code answers is not in use, but in two cases: the first   *)
(* administrator has the bare code, which is number 0 and answered again;  *)
(* a code has the largest number.                                          *)
NextCodeIsFree ==
  [][\A r \in Requests, role \in Roles :
       at[r] = "idle" /\ at'[r] = "answered" /\ answer'[r].prefix = role =>
         \/ answer'[r].num \notin Numbers(role)
         \/ role = "admin" /\ Highest(role) = 0
         \/ Highest(role) = MaxInt]_vars

(***************************************************************************)
(* What the documentation says and the code does not do.                   *)
(***************************************************************************)

(* The comments of InviteUserResponse and UserUseCase.Invite: the answer   *)
(* has the temporary password when the mail fails.  Then the mailbox or    *)
(* the administrator has it.                                               *)
SomebodyHasThePassword ==
  \A r \in Requests :
    at[r] = "created" /\ route[r] = "invite" => r \in shown \/ mail[r] = "delivered"
=============================================================================

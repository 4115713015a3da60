--------------------------- MODULE OnboardingProofs ---------------------------
(***************************************************************************)
(* Proofs about Onboarding, for any requests, local parts, roles, suffixes *)
(* and largest number of a code, with or without a unique index.           *)
(*                                                                         *)
(* Flow says what the position of a request implies of its variables and   *)
(* of the tables, Complete is AccountsAreComplete, Gapless that an         *)
(* invitation has come past used names only, Real that a conflict was      *)
(* seen.  The last two only speak of names in use, which stay in use.      *)
(***************************************************************************)
EXTENDS Onboarding, WellFoundedInduction, TLAPS

Early == {"idle", "probing", "checking", "free"}
Within == {"inserted", "seeded", "audited"}

FlowOf(r) ==
  /\ at[r] \in Early \cup Within => rows[r] = None /\ perms[r] = None /\ r \notin audit
  /\ at[r] \notin Within => wrote[r] = {}
  /\ at[r] \in (Early \cup Within) \ {"idle"} =>
       name[r] \in Names /\ draft[r] \in Draft /\ route[r] \in {"create", "invite", "seedAdmin"}
  /\ at[r] = "checking" => route[r] = "invite"
  /\ at[r] \in Within => route[r] # "seedAdmin"
  /\ at[r] = "inserted" => wrote[r] = {"users"}
  /\ at[r] = "seeded" => wrote[r] = {"users", "user_permissions"} /\ draft[r].role # "admin"
  /\ at[r] = "audited" =>
       wrote[r] = {"users", "audit_log"}
                  \cup (IF draft[r].role = "admin" THEN {} ELSE {"user_permissions"})

CompleteOf(r) ==
  IF rows[r] = None \/ route[r] = "seedAdmin"
  THEN perms[r] = None /\ r \notin audit
  ELSE /\ perms[r] = IF rows[r].role = "admin" THEN None ELSE rows[r].role
       /\ r \in audit

GaplessOf(r) ==
  at[r] # "idle" /\ route[r] = "invite" =>
    /\ name[r] \in Names
    /\ rows[r] # None => rows[r].name = name[r]
    /\ \A n \in 1 .. name[r][2] - 1 : Taken(<<name[r][1], n>>)

RealOf(r) == at[r] = "conflict" => Taken(name[r])

Own(r) == FlowOf(r) /\ CompleteOf(r) /\ GaplessOf(r) /\ RealOf(r)

Inv == TypeOK /\ \A r \in Requests : Own(r)

LEMMA InitInv == Init => Inv
<1> SUFFICES ASSUME Init PROVE Inv
  OBVIOUS
<1>1. TypeOK
  BY DEF Init, TypeOK
<1>2. ASSUME NEW r \in Requests PROVE Own(r)
  BY DEF Init, Own, FlowOf, CompleteOf, GaplessOf, RealOf, Early, Within
<1> QED
  BY <1>1, <1>2 DEF Inv

(* A step of r leaves the other requests and the rows there are alone.     *)
Touches(r) ==
  /\ \A q \in Requests \ {r} :
       /\ rows'[q] = rows[q] /\ perms'[q] = perms[q] /\ (q \in audit' <=> q \in audit)
       /\ at'[q] = at[q] /\ route'[q] = route[q] /\ name'[q] = name[q] /\ draft'[q] = draft[q]
       /\ wrote'[q] = wrote[q]
  /\ rows[r] # None => rows'[r] = rows[r]

(* Names stay in use.                                                      *)
LEMMA StaysTaken ==
  ASSUME NEW r \in Requests, Touches(r), NEW nm, Taken(nm)
  PROVE  Taken(nm)'
BY DEF Taken, Touches

LEMMA Stand ==
  ASSUME Inv, NEW r \in Requests, Touches(r), TypeOK', Own(r)'
  PROVE  Inv'
<1>1. ASSUME NEW q \in Requests \ {r} PROVE Own(q)'
  <2>1. FlowOf(q)'
    BY DEF Inv, Own, FlowOf, Touches
  <2>2. CompleteOf(q)'
    BY DEF Inv, Own, CompleteOf, Touches
  <2>3. GaplessOf(q)'
    BY StaysTaken DEF Inv, Own, GaplessOf, Touches
  <2>4. RealOf(q)'
    BY StaysTaken DEF Inv, Own, RealOf, Touches
  <2> QED
    BY <2>1, <2>2, <2>3, <2>4 DEF Own
<1> QED
  BY <1>1 DEF Inv

(***************************************************************************)
(* Arrivals and the username.                                              *)
(***************************************************************************)

LEMMA BeginInv ==
  ASSUME Inv, NEW r \in Requests, NEW ro \in {"create", "invite", "seedAdmin"},
         NEW nm \in Names, NEW role \in Roles, NEW code \in Codes \cup {None},
         Begin(r, ro, nm, role, code), ro = "invite" => nm[2] = 1
  PROVE  Inv'
<1>1. TypeOK'
  BY DEF Inv, TypeOK, Begin, Goes, Draft, tables, outcome
<1>2. Touches(r)
  BY DEF Inv, TypeOK, Begin, Goes, Touches, tables
<1>3. /\ at[r] = "idle" /\ at'[r] = "probing" /\ route'[r] = ro /\ name'[r] = nm
      /\ draft'[r] \in Draft /\ wrote' = wrote /\ rows' = rows /\ perms' = perms /\ audit' = audit
  BY DEF Inv, TypeOK, Begin, Goes, Draft, tables
<1>4. FlowOf(r)'
  BY <1>3 DEF Inv, Own, FlowOf, Early, Within
<1>5. CompleteOf(r)' /\ RealOf(r)'
  BY <1>3 DEF Inv, Own, FlowOf, CompleteOf, RealOf, Early
<1>6. GaplessOf(r)'
  BY <1>3 DEF Inv, Own, FlowOf, GaplessOf, Early
<1> QED
  BY <1>1, <1>2, <1>4, <1>5, <1>6, Stand DEF Own

LEMMA CreateInv == ASSUME Inv, NEW r \in Requests, Create(r) PROVE Inv'
<1>1. PICK nm \in Names, role \in Roles, code \in Sent : Begin(r, "create", nm, role, code)
  BY DEF Create
<1>2. code \in Codes \cup {None}
  BY <1>1, OnboardingAssumption DEF Sent, Inv, TypeOK, OnboardingAssumption
<1> QED
  BY <1>1, <1>2, BeginInv

LEMMA InviteInv == ASSUME Inv, NEW r \in Requests, Invite(r) PROVE Inv'
<1>1. PICK b \in Bases, role \in Roles \ {"admin"}, code \in Sent :
        Begin(r, "invite", <<b, 1>>, role, code)
  BY DEF Invite
<1>2. code \in Codes \cup {None}
  BY <1>1, OnboardingAssumption DEF Sent, Inv, TypeOK, OnboardingAssumption
<1>3. <<b, 1>> \in Names
  BY OnboardingAssumption DEF Names, OnboardingAssumption
<1> QED
  BY <1>1, <1>2, <1>3, BeginInv

LEMMA SeedAdminInv == ASSUME Inv, NEW r \in Requests, SeedAdmin(r) PROVE Inv'
<1>1. PICK nm \in Names : Begin(r, "seedAdmin", nm, "admin", [prefix |-> "admin", num |-> 0])
  BY DEF SeedAdmin
<1>2. [prefix |-> "admin", num |-> 0] \in Codes /\ "admin" \in Roles
  BY OnboardingAssumption DEF Codes, OnboardingAssumption
<1> QED
  BY <1>1, <1>2, BeginInv

(* A step of r before its transaction that decides about its name.         *)
LEMMA Decides ==
  ASSUME Inv, NEW r \in Requests, at[r] \in {"probing", "checking"},
         NEW to \in {"free", "conflict", "exists", "checking", "error"}, Goes(r, to),
         UNCHANGED <<rows, perms, audit, route, name, draft, wrote, outcome>>,
         to = "conflict" => Taken(name[r]), to = "checking" => route[r] = "invite"
  PROVE  Inv'
<1>1. TypeOK'
  BY DEF Inv, TypeOK, Goes, outcome
<1>2. Touches(r)
  BY DEF Inv, TypeOK, Goes, Touches
<1>3. at'[r] = to
  BY DEF Inv, TypeOK, Goes
<1>4. FlowOf(r)'
  BY <1>3 DEF Inv, Own, FlowOf, Early, Within
<1>5. CompleteOf(r)'
  BY DEF Inv, Own, CompleteOf
<1>6. GaplessOf(r)'
  BY <1>2, <1>3, StaysTaken DEF Inv, Own, GaplessOf
<1>7. RealOf(r)'
  BY <1>2, <1>3, StaysTaken DEF RealOf
<1> QED
  BY <1>1, <1>2, <1>4, <1>5, <1>6, <1>7, Stand DEF Own

LEMMA ProbeInv == ASSUME Inv, NEW r \in Requests, Probe(r) PROVE Inv'
<1>1. CASE ~Taken(name[r])
  BY <1>1, Decides DEF Probe, tables
<1>2. CASE Taken(name[r]) /\ route[r] = "create"
  BY <1>2, Decides DEF Probe, tables
<1>3. CASE Taken(name[r]) /\ route[r] # "create"
  BY <1>3, Decides DEF Probe, tables
<1> QED
  BY <1>1, <1>2, <1>3

LEMMA CheckNameInv == ASSUME Inv, NEW r \in Requests, CheckName(r) PROVE Inv'
<1>1. CASE ~Taken(name[r])
  BY <1>1, Decides DEF CheckName, tables
<1>2. CASE Taken(name[r])
  BY <1>2, Decides DEF CheckName, tables
<1> QED
  BY <1>1, <1>2

LEMMA TryNameInv == ASSUME Inv, NEW r \in Requests, TryName(r) PROVE Inv'
<1>1. CASE name[r][2] = MaxSuffix \/ ~Taken(name[r])
  <2>1. CASE Goes(r, "checking") /\ UNCHANGED name
    BY <2>1, Decides DEF TryName, tables
  <2>2. CASE ~(Goes(r, "checking") /\ UNCHANGED name)
    BY <1>1, <2>2, OnboardingAssumption DEF TryName, OnboardingAssumption
  <2> QED
    BY <2>1, <2>2
<1>2. CASE name[r][2] # MaxSuffix /\ Taken(name[r])
  <2>1. /\ at[r] = "probing" /\ route[r] = "invite" /\ name[r][2] < MaxSuffix
        /\ name' = [name EXCEPT ![r][2] = @ + 1]
        /\ UNCHANGED <<rows, perms, audit, at, route, draft, wrote, outcome>>
    BY <1>2 DEF TryName, tables
  <2> DEFINE b == name[r][1]
             n == name[r][2]
  <2>2. b \in Bases /\ n \in 1..MaxSuffix /\ name[r] = <<b, n>>
    BY <2>1 DEF Inv, Own, FlowOf, Early, Names
  <2>3. name'[r] = <<b, n + 1>> /\ \A q \in Requests \ {r} : name'[q] = name[q]
    BY <2>1, <2>2 DEF Inv, TypeOK
  <2>4. name'[r] \in Names
    BY <2>1, <2>2, <2>3, OnboardingAssumption DEF Names, OnboardingAssumption
  <2>5. name' \in [Requests -> Names \cup {None}]
    <3>1. name \in [Requests -> Names \cup {None}]
      BY DEF Inv, TypeOK
    <3>2. name' = [q \in Requests |-> IF q = r THEN [name[r] EXCEPT ![2] = @ + 1] ELSE name[q]]
      BY <2>1, <3>1
    <3>3. name' = [q \in Requests |-> name'[q]]
      BY <3>2
    <3>4. \A q \in Requests : name'[q] \in Names \cup {None}
      BY <2>3, <2>4, <3>1
    <3> QED
      BY <3>3, <3>4
  <2>6. TypeOK'
    BY <2>1, <2>5 DEF Inv, TypeOK, outcome
  <2>7. Touches(r)
    BY <2>1, <2>3 DEF Touches
  <2>8. FlowOf(r)' /\ CompleteOf(r)' /\ RealOf(r)'
    BY <2>1, <2>4 DEF Inv, Own, FlowOf, CompleteOf, RealOf, Early, Within
  <2>9. GaplessOf(r)'
    <3>1. \A m \in 1 .. n - 1 : Taken(<<b, m>>)
      BY <2>1 DEF Inv, Own, GaplessOf
    <3>2. Taken(<<b, n>>)
      BY <1>2, <2>2
    <3>3. \A m \in 1 .. (n + 1) - 1 : Taken(<<b, m>>)
      BY <2>2, <3>1, <3>2
    <3>4. \A m \in 1 .. (n + 1) - 1 : Taken(<<b, m>>)'
      BY <2>1, <3>3 DEF Taken
    <3>5. rows'[r] = None
      BY <2>1 DEF Inv, Own, FlowOf, Early
    <3> QED
      BY <2>3, <2>4, <3>4, <3>5 DEF GaplessOf
  <2> QED
    BY <2>6, <2>7, <2>8, <2>9, Stand DEF Own
<1> QED
  BY <1>1, <1>2

(***************************************************************************)
(* The transaction and the mail.                                           *)
(***************************************************************************)

(* A step of r that moves it on without a change of the tables.            *)
LEMMA Proceeds ==
  ASSUME Inv, NEW r \in Requests, at[r] # "idle", at'[r] \notin {"idle", "conflict"},
         TypeOK', Touches(r), FlowOf(r)',
         UNCHANGED <<rows, perms, audit, route, name, draft>>
  PROVE  Inv'
<1>1. CompleteOf(r)'
  BY DEF Inv, Own, CompleteOf
<1>2. GaplessOf(r)'
  BY StaysTaken DEF Inv, Own, GaplessOf
<1>3. RealOf(r)'
  BY DEF RealOf
<1> QED
  BY <1>1, <1>2, <1>3, Stand DEF Own

LEMMA InsertUserInv == ASSUME Inv, NEW r \in Requests, InsertUser(r) PROVE Inv'
<1>1. /\ at[r] = "free" /\ route[r] # "seedAdmin" /\ wrote[r] = {}
      /\ UNCHANGED <<rows, perms, audit, route, name, draft, outcome>>
  BY DEF Inv, Own, FlowOf, InsertUser, Within, tables
<1>2. \/ Goes(r, "inserted") /\ wrote' = [wrote EXCEPT ![r] = {"users"}]
      \/ Goes(r, "error") /\ UNCHANGED wrote
  BY DEF InsertUser
<1>3. TypeOK'
  BY <1>1, <1>2 DEF Inv, TypeOK, Goes, outcome
<1>4. Touches(r)
  BY <1>1, <1>2 DEF Inv, TypeOK, Goes, Touches
<1>5. \/ at'[r] = "inserted" /\ wrote'[r] = {"users"}
      \/ at'[r] = "error" /\ wrote'[r] = {}
  BY <1>1, <1>2 DEF Inv, TypeOK, Goes
<1>6. FlowOf(r)'
  BY <1>1, <1>5 DEF Inv, Own, FlowOf, Early, Within
<1> QED
  BY <1>1, <1>3, <1>4, <1>5, <1>6, Proceeds

LEMMA SeedPermissionsInv == ASSUME Inv, NEW r \in Requests, SeedPermissions(r) PROVE Inv'
<1>1. /\ at[r] = "inserted" /\ route[r] # "seedAdmin" /\ wrote[r] = {"users"}
      /\ draft[r].role # "admin" /\ Goes(r, "seeded")
      /\ wrote' = [wrote EXCEPT ![r] = @ \cup {"user_permissions"}]
      /\ UNCHANGED <<rows, perms, audit, route, name, draft, outcome>>
  BY DEF Inv, Own, FlowOf, SeedPermissions, Within, tables
<1>2. TypeOK'
  BY <1>1 DEF Inv, TypeOK, Goes, outcome
<1>3. Touches(r)
  BY <1>1 DEF Inv, TypeOK, Goes, Touches
<1>4. at'[r] = "seeded" /\ wrote'[r] = {"users", "user_permissions"}
  BY <1>1 DEF Inv, TypeOK, Goes
<1>5. FlowOf(r)'
  BY <1>1, <1>4 DEF Inv, Own, FlowOf, Early, Within
<1> QED
  BY <1>1, <1>2, <1>3, <1>4, <1>5, Proceeds

LEMMA WriteAuditInv == ASSUME Inv, NEW r \in Requests, WriteAudit(r) PROVE Inv'
<1> DEFINE w == {"users", "audit_log"}
                \cup (IF draft[r].role = "admin" THEN {} ELSE {"user_permissions"})
<1>1. /\ at[r] \in {"inserted", "seeded"} /\ route[r] # "seedAdmin" /\ Goes(r, "audited")
      /\ wrote[r] \cup {"audit_log"} = w
      /\ wrote' = [wrote EXCEPT ![r] = @ \cup {"audit_log"}]
      /\ UNCHANGED <<rows, perms, audit, route, name, draft, outcome>>
  BY DEF Inv, Own, FlowOf, WriteAudit, Within, tables
<1>2. TypeOK'
  BY <1>1 DEF Inv, TypeOK, Goes, outcome
<1>3. Touches(r)
  BY <1>1 DEF Inv, TypeOK, Goes, Touches
<1>4. at'[r] = "audited" /\ wrote'[r] = w
  BY <1>1 DEF Inv, TypeOK, Goes
<1>5. FlowOf(r)'
  BY <1>1, <1>4 DEF Inv, Own, FlowOf, Early, Within
<1> QED
  BY <1>1, <1>2, <1>3, <1>4, <1>5, Proceeds

LEMMA RowOfType ==
  ASSUME NEW r \in Requests, name[r] \in Names, draft[r] \in Draft
  PROVE  RowOf(r) \in Row /\ RowOf(r) # None /\ RowOf(r).name = name[r]
         /\ RowOf(r).role = draft[r].role /\ draft[r].role \in Roles
BY OnboardingAssumption DEF RowOf, Row, Draft, OnboardingAssumption

LEMMA InsertAdminInv == ASSUME Inv, NEW r \in Requests, InsertAdmin(r) PROVE Inv'
<1>1. /\ at[r] = "free" /\ route[r] = "seedAdmin" /\ wrote[r] = {} /\ rows[r] = None
      /\ perms[r] = None /\ r \notin audit /\ name[r] \in Names /\ draft[r] \in Draft
      /\ UNCHANGED <<perms, audit, route, name, draft, wrote, outcome>>
  BY DEF Inv, Own, FlowOf, InsertAdmin, Early, Within
<1>2. PICK to \in {"created", "error"} : Goes(r, to)
  BY DEF InsertAdmin
<1>3. rows' = rows \/ rows' = [rows EXCEPT ![r] = RowOf(r)]
  BY DEF InsertAdmin
<1>4. RowOf(r) \in Row
  BY <1>1, RowOfType
<1>5. TypeOK'
  BY <1>1, <1>2, <1>3, <1>4 DEF Inv, TypeOK, Goes, outcome
<1>6. Touches(r)
  BY <1>1, <1>2, <1>3 DEF Inv, TypeOK, Goes, Touches
<1>7. at'[r] = to
  BY <1>2 DEF Inv, TypeOK, Goes
<1>8. FlowOf(r)' /\ CompleteOf(r)' /\ GaplessOf(r)' /\ RealOf(r)'
  BY <1>1, <1>7 DEF FlowOf, CompleteOf, GaplessOf, RealOf, Early, Within
<1> QED
  BY <1>5, <1>6, <1>8, Stand DEF Own

LEMMA CommitInv == ASSUME Inv, NEW r \in Requests, Commit(r) PROVE Inv'
<1> DEFINE role == draft[r].role
<1>1. /\ at[r] = "audited" /\ route[r] \in {"create", "invite"} /\ rows[r] = None
      /\ perms[r] = None /\ r \notin audit /\ name[r] \in Names /\ draft[r] \in Draft
      /\ wrote[r] = {"users", "audit_log"} \cup (IF role = "admin" THEN {} ELSE {"user_permissions"})
      /\ UNCHANGED <<route, name, draft, outcome>>
  BY DEF Inv, Own, FlowOf, Commit, Early, Within
<1>2. PICK to \in {"mailing", "created", "error"} : Goes(r, to)
  BY DEF Commit
<1>3. /\ RowOf(r) \in Row /\ RowOf(r) # None /\ RowOf(r).name = name[r]
      /\ RowOf(r).role = role /\ role \in Roles
  BY <1>1, RowOfType
<1>4. /\ rows' = [rows EXCEPT ![r] = RowOf(r)]
      /\ perms' = IF role = "admin" THEN perms ELSE [perms EXCEPT ![r] = role]
      /\ audit' = audit \cup {r}
      /\ wrote' = [wrote EXCEPT ![r] = {}]
  BY <1>1 DEF Commit
<1>5. TypeOK'
  BY <1>1, <1>2, <1>3, <1>4 DEF Inv, TypeOK, Goes, outcome
<1>6. Touches(r)
  BY <1>1, <1>2, <1>4 DEF Inv, TypeOK, Goes, Touches
<1>7. at'[r] = to /\ wrote'[r] = {} /\ rows'[r] = RowOf(r) /\ r \in audit'
      /\ perms'[r] = IF role = "admin" THEN None ELSE role
  BY <1>1, <1>2, <1>4 DEF Inv, TypeOK, Goes
<1>8. FlowOf(r)' /\ RealOf(r)'
  BY <1>1, <1>7 DEF FlowOf, RealOf, Early, Within
<1>9. CompleteOf(r)'
  BY <1>1, <1>3, <1>7 DEF CompleteOf
<1>10. GaplessOf(r)'
  BY <1>1, <1>3, <1>6, <1>7, StaysTaken DEF Inv, Own, GaplessOf
<1> QED
  BY <1>5, <1>6, <1>8, <1>9, <1>10, Stand DEF Own

LEMMA FailInv == ASSUME Inv, NEW r \in Requests, Fail(r) PROVE Inv'
<1>1. /\ at[r] \in (Early \cup Within) \ {"idle"} /\ Goes(r, "error")
      /\ wrote' = [wrote EXCEPT ![r] = {}]
      /\ UNCHANGED <<rows, perms, audit, route, name, draft, outcome>>
  BY DEF Fail, Early, Within, tables
<1>2. TypeOK'
  BY <1>1 DEF Inv, TypeOK, Goes, outcome
<1>3. Touches(r)
  BY <1>1 DEF Inv, TypeOK, Goes, Touches
<1>4. at'[r] = "error" /\ wrote'[r] = {}
  BY <1>1 DEF Inv, TypeOK, Goes
<1>5. FlowOf(r)'
  BY <1>1, <1>4 DEF Inv, Own, FlowOf, Early, Within
<1> QED
  BY <1>1, <1>2, <1>3, <1>4, <1>5, Proceeds

LEMMA SendInvitationInv == ASSUME Inv, NEW r \in Requests, SendInvitation(r) PROVE Inv'
<1>1. /\ at[r] = "mailing" /\ Goes(r, "created")
      /\ UNCHANGED <<rows, perms, audit, route, name, draft, wrote, answer>>
  BY DEF SendInvitation, tables
<1>2. shown' \subseteq Requests /\ mail' \in [Requests -> {"delivered", "lost", None}]
  BY DEF SendInvitation, Inv, TypeOK
<1>3. TypeOK'
  BY <1>1, <1>2 DEF Inv, TypeOK, Goes
<1>4. Touches(r)
  BY <1>1 DEF Inv, TypeOK, Goes, Touches
<1>5. at'[r] = "created"
  BY <1>1 DEF Inv, TypeOK, Goes
<1>6. FlowOf(r)'
  BY <1>1, <1>5 DEF Inv, Own, FlowOf, Early, Within
<1> QED
  BY <1>1, <1>3, <1>4, <1>5, <1>6, Proceeds

(***************************************************************************)
(* The next staff code.                                                    *)
(***************************************************************************)

(* The numbers are bounded, so that there is a highest one.                *)
LEMMA HighestIsHighest ==
  ASSUME TypeOK, NEW role \in Roles
  PROVE  /\ Highest(role) \in 0..MaxInt
         /\ \A n \in Numbers(role) : n <= Highest(role)
<1> DEFINE S == Numbers(role) \cup {0}
           Below == {n \in Nat : MaxInt - n \in S}
<1>1. MaxInt \in Nat
  BY OnboardingAssumption DEF OnboardingAssumption
<1>2. \A n \in S : n \in Int /\ n <= MaxInt
  <2>1. \A n \in Numbers(role) : n \in -(MaxInt + 1)..MaxInt
    BY DEF TypeOK, Numbers, Row, Codes
  <2> QED
    BY <1>1, <2>1
<1>3. MaxInt \in Below
  BY <1>1
<1>4. PICK x \in Below : \A y \in Below : ~(<<y, x>> \in OpToRel(<, Nat))
  BY <1>3, NatLessThanWellFounded, WFMin
<1>5. \A y \in Below : y >= x
  <2> DEFINE Less == {ss \in Nat \X Nat : ss[1] < ss[2]}
  <2>1. OpToRel(<, Nat) = Less
    BY Zenon DEF OpToRel
  <2>2. \A y, z \in Nat : y < z => <<y, z>> \in Less
    OBVIOUS
  <2>3. \A y \in Below : <<y, x>> \notin Less
    BY <1>4, <2>1
  <2>4. x \in Nat /\ Below \subseteq Nat
    OBVIOUS
  <2> HIDE DEF Less, Below
  <2>5. ASSUME NEW y \in Below PROVE ~(y < x)
    BY <2>2, <2>3, <2>4
  <2> QED
    BY <2>4, <2>5
<1>6. ASSUME NEW n \in S PROVE n <= MaxInt - x
  <2>1. MaxInt - n \in Below
    BY <1>1, <1>2
  <2> QED
    BY <1>1, <1>2, <1>5, <2>1
<1>7. MaxInt - x \in S /\ MaxInt - x \in Int
  BY <1>1
<1>8. Max(S) \in S /\ \A n \in S : Max(S) >= n
  <2> HIDE DEF S, Below
  <2> QED
    BY <1>2, <1>6, <1>7 DEF Max
<1>9. Highest(role) \in S /\ \A n \in S : n <= Highest(role)
  <2>1. Highest(role) = Max(S)
    BY DEF Highest
  <2> HIDE DEF S
  <2> QED
    BY <1>2, <1>8, <2>1
<1>10. 0 \in S
  OBVIOUS
<1> HIDE DEF S
<1>11. Highest(role) \in 0..MaxInt
  BY <1>1, <1>2, <1>9, <1>10
<1> QED
  BY <1>9, <1>11 DEF S

LEMMA NextStaffCodeType ==
  ASSUME TypeOK, NEW role \in Roles
  PROVE  NextStaffCode(role) \in Codes
<1>1. MaxInt \in Nat /\ MaxInt # 0
  BY OnboardingAssumption DEF OnboardingAssumption
<1>2. Highest(role) \in 0..MaxInt
  BY HighestIsHighest
<1> QED
  BY <1>1, <1>2 DEF NextStaffCode, Codes

LEMMA NextCodeInv ==
  ASSUME Inv, NEW r \in Requests, NEW role \in Roles, NextCode(r, role)
  PROVE  Inv'
<1>1. /\ at[r] = "idle" /\ route' = [route EXCEPT ![r] = "nextCode"]
      /\ UNCHANGED <<rows, perms, audit, name, draft, wrote, mail, shown>>
  BY DEF NextCode, tables
<1>2. PICK to \in {"answered", "error"} : Goes(r, to)
  BY DEF NextCode
<1>3. answer' \in [Requests -> Codes \cup {None}]
  BY NextStaffCodeType DEF NextCode, Inv, TypeOK
<1>4. TypeOK'
  BY <1>1, <1>2, <1>3 DEF Inv, TypeOK, Goes
<1>5. Touches(r)
  BY <1>1, <1>2 DEF Inv, TypeOK, Goes, Touches
<1>6. at'[r] = to /\ route'[r] = "nextCode"
  BY <1>1, <1>2 DEF Inv, TypeOK, Goes
<1>7. FlowOf(r)' /\ CompleteOf(r)' /\ GaplessOf(r)' /\ RealOf(r)'
  BY <1>1, <1>6 DEF Inv, Own, FlowOf, CompleteOf, GaplessOf, RealOf, Early, Within
<1> QED
  BY <1>4, <1>5, <1>7, Stand DEF Own

(***************************************************************************)
(* The theorems.                                                           *)
(***************************************************************************)

LEMMA NextInv == Inv /\ [Next]_vars => Inv'
<1> SUFFICES ASSUME Inv, [Next]_vars PROVE Inv'
  OBVIOUS
<1>1. ASSUME Next PROVE Inv'
  <2>1. PICK r \in Requests :
          \/ Create(r) \/ Invite(r) \/ SeedAdmin(r)
          \/ Probe(r) \/ TryName(r) \/ CheckName(r)
          \/ InsertUser(r) \/ InsertAdmin(r) \/ SeedPermissions(r) \/ WriteAudit(r)
          \/ Commit(r) \/ Fail(r) \/ SendInvitation(r)
          \/ \E role \in Roles : NextCode(r, role)
    BY <1>1 DEF Next
  <2> QED
    BY <2>1, CreateInv, InviteInv, SeedAdminInv, ProbeInv, TryNameInv, CheckNameInv,
       InsertUserInv, InsertAdminInv, SeedPermissionsInv, WriteAuditInv, CommitInv, FailInv,
       SendInvitationInv, NextCodeInv
<1>2. CASE UNCHANGED vars
  <2>1. TypeOK'
    BY <1>2 DEF Inv, TypeOK, vars
  <2>2. ASSUME NEW r \in Requests PROVE Own(r)'
    <3>1. FlowOf(r)' /\ CompleteOf(r)'
      BY <1>2 DEF Inv, Own, FlowOf, CompleteOf, vars
    <3>2. Taken(name[r])' = Taken(name[r]) /\ RealOf(r)'
      BY <1>2 DEF Inv, Own, RealOf, Taken, vars
    <3>3. GaplessOf(r)'
      BY <1>2 DEF Inv, Own, GaplessOf, Taken, vars
    <3> QED
      BY <3>1, <3>2, <3>3 DEF Own
  <2> QED
    BY <2>1, <2>2 DEF Inv
<1> QED
  BY <1>1, <1>2

LEMMA Invariance == Spec => []Inv
BY InitInv, NextInv, PTL DEF Spec

(* Every variable keeps its type; a next code is a code.                   *)
THEOREM TypeCorrect == Spec => []TypeOK
<1>1. Inv => TypeOK
  BY DEF Inv
<1> QED
  BY <1>1, Invariance, PTL

(* An account of the API comes with its permissions and its audit row, or  *)
(* not at all, whatever fails where.                                       *)
THEOREM CompleteTheorem == Spec => []AccountsAreComplete
<1>1. Inv => AccountsAreComplete
  BY DEF Inv, Own, CompleteOf, AccountsAreComplete
<1> QED
  BY <1>1, Invariance, PTL

(* An invited account gets a suffix only when every smaller one is in use. *)
THEOREM SuffixTheorem == Spec => []SuffixesHaveNoGaps
<1>1. Inv => SuffixesHaveNoGaps
  <2> SUFFICES ASSUME Inv, NEW r \in Requests, rows[r] # None, route[r] = "invite"
               PROVE  \A n \in 1 .. rows[r].name[2] - 1 : Taken(<<rows[r].name[1], n>>)
    BY DEF SuffixesHaveNoGaps
  <2>1. at[r] # "idle"
    BY DEF Inv, Own, FlowOf, Early
  <2> QED
    BY <2>1 DEF Inv, Own, GaplessOf
<1> QED
  BY <1>1, Invariance, PTL

(* A name that was refused is in use.                                      *)
THEOREM ConflictTheorem == Spec => []ConflictIsReal
<1>1. Inv => ConflictIsReal
  BY DEF Inv, Own, RealOf, ConflictIsReal
<1> QED
  BY <1>1, Invariance, PTL

(* The next code is free, but for the first administrator and the largest  *)
(* int.                                                                    *)
THEOREM NextCodeTheorem == Spec => NextCodeIsFree
<1> DEFINE Free ==
      \A r \in Requests, role \in Roles :
        at[r] = "idle" /\ at'[r] = "answered" /\ answer'[r].prefix = role =>
          \/ answer'[r].num \notin Numbers(role)
          \/ role = "admin" /\ Highest(role) = 0
          \/ Highest(role) = MaxInt
<1>1. Inv /\ [Next]_vars => Free
  <2> SUFFICES ASSUME Inv, [Next]_vars, NEW r \in Requests, NEW role \in Roles,
                      at[r] = "idle", at'[r] = "answered", answer'[r].prefix = role,
                      Highest(role) # MaxInt, ~(role = "admin" /\ Highest(role) = 0)
               PROVE  answer'[r].num \notin Numbers(role)
    OBVIOUS
  <2>1. Next
    BY DEF vars
  <2>2. PICK q \in Requests :
          \/ Create(q) \/ Invite(q) \/ SeedAdmin(q)
          \/ Probe(q) \/ TryName(q) \/ CheckName(q)
          \/ InsertUser(q) \/ InsertAdmin(q) \/ SeedPermissions(q) \/ WriteAudit(q)
          \/ Commit(q) \/ Fail(q) \/ SendInvitation(q)
          \/ \E ro \in Roles : NextCode(q, ro)
    BY <2>1 DEF Next
  <2>3. /\ Create(q) \/ Invite(q) \/ SeedAdmin(q) => at' = [at EXCEPT ![q] = "probing"]
        /\ Probe(q) \/ TryName(q) \/ CheckName(q) \/ InsertUser(q) \/ InsertAdmin(q)
           \/ SeedPermissions(q) \/ WriteAudit(q) \/ Commit(q) \/ Fail(q)
           \/ SendInvitation(q)
           => at[q] # "idle" /\ \E to : at' = [at EXCEPT ![q] = to]
    BY DEF Create, Invite, SeedAdmin, Begin, Goes, Probe, TryName, CheckName, InsertUser,
           InsertAdmin, SeedPermissions, WriteAudit, Commit, Fail, SendInvitation
  <2>4. PICK ro \in Roles : NextCode(q, ro)
    BY <2>2, <2>3 DEF Inv, TypeOK
  <2>5. q = r
    BY <2>4 DEF NextCode, Goes, Inv, TypeOK
  <2>6. answer'[r] = NextStaffCode(ro)
    BY <2>4, <2>5 DEF NextCode, Goes, Inv, TypeOK
  <2>7. ro = role
    BY <2>6 DEF NextStaffCode
  <2>8. Highest(role) \in Nat /\ \A n \in Numbers(role) : n <= Highest(role)
    BY HighestIsHighest DEF Inv
  <2>9. NextStaffCode(role).num = Highest(role) + 1
    BY <2>8 DEF NextStaffCode
  <2> QED
    BY <2>6, <2>7, <2>8, <2>9
<1> HIDE DEF Free
<1>2. Spec => [][Free]_vars
  BY <1>1, Invariance, PTL DEF Spec
<1> QED
  BY <1>2 DEF NextCodeIsFree, Free
=============================================================================

-------------------------- MODULE PermissionsProofs --------------------------
(***************************************************************************)
(* Proofs about Permissions, for every set of accounts, requests, declared *)
(* permissions and inputs, and every choice of the role defaults.          *)
(*                                                                         *)
(* Flow says what a handler knows when it is about to write.  Rows says    *)
(* which matrix a row can hold: the cleaned input of the save that is      *)
(* still in it, the seed of the account, or nothing.  Inv is inductive.    *)
(***************************************************************************)
EXTENDS Permissions, TLAPS

Saves == {"saveByUser", "saveById"}

FlowOf(r) ==
  /\ at[r] # "idle" => target[r] \in Users /\ op[r] \in Routes /\ role[target[r]] \in Roles
  /\ at[r] # "idle" /\ op[r] \in Saves => input[r] \in Matrix
  /\ at[r] # "idle" /\ op[r] \in {"saveById", "delete"} => found[r] \in Ids
  /\ at[r] = "knows" => op[r] \in {"saveByUser", "create"} /\ known[r] \in Roles
  /\ at[r] = "finds" => op[r] = "saveById"
  /\ at[r] \in {"ready", "written"} /\ op[r] \in Saves => known[r] \in Roles

Flow == \A r \in Requests : FlowOf(r)

RowsOf(u) ==
  /\ saved[u] # None => /\ perm[u] # None
                        /\ perm[u].matrix = Cleaned(saved[u].matrix, saved[u].role)
                        /\ Granted(saved[u].matrix) \subseteq ticked[u]
  /\ perm[u] # None /\ saved[u] = None
       => perm[u].matrix = Empty \/ perm[u].matrix = RoleDefaults(born[u])
  /\ role[u] = None => perm[u] = None /\ saved[u] = None

Rows == \A u \in Users : RowsOf(u)

Inv == TypeOK /\ Flow /\ Rows

(***************************************************************************)
(* Matrices.                                                               *)
(***************************************************************************)

(* The functions on matrices give matrices.                                *)
LEMMA MatrixTypes ==
  /\ Empty \in Matrix
  /\ \A ro : RoleDefaults(ro) \in Matrix
  /\ \A m \in Matrix : \A ro : Cleaned(m, ro) \in Matrix
<1>1. Empty \in Matrix
  BY DEF Empty, Matrix
<1>2. ASSUME NEW ro PROVE RoleDefaults(ro) \in Matrix
  BY DEF RoleDefaults, Matrix
<1>3. ASSUME NEW m \in Matrix, NEW ro PROVE Cleaned(m, ro) \in Matrix
  BY <1>2 DEF Cleaned, FilterValid, Matrix
<1> QED
  BY <1>1, <1>2, <1>3

(* No default is the wildcard.                                             *)
LEMMA DefaultsAreDeclared ==
  ASSUME NEW ro
  PROVE  RoleDefaults(ro)[Wild] = "absent"
BY PermissionsAssumption DEF PermissionsAssumption, RoleDefaults, Pairs

(* The row of a save, layered over the defaults of the role it was made    *)
(* for, grants what the administrator ticked and nothing else.             *)
LEMMA CleanedOverDefaults ==
  ASSUME NEW m \in Matrix, NEW ro
  PROVE  {p \in Pairs : HasAction(MergeOver(RoleDefaults(ro), Cleaned(m, ro)), p)} = Granted(m)
<1> DEFINE c == Cleaned(m, ro)
           e == MergeOver(RoleDefaults(ro), c)
<1>1. \A p \in Grants : c[p] = IF m[p] = "absent" /\ RoleDefaults(ro)[p] = "granted"
                               THEN "denied" ELSE m[p]
  BY DEF Cleaned, FilterValid, Pairs
<1>2. c[Wild] = "absent"
  BY DefaultsAreDeclared, PermissionsAssumption
  DEF PermissionsAssumption, Cleaned, FilterValid, Pairs
<1>3. \A p \in Pairs : e[p] = IF c[p] = "absent" THEN RoleDefaults(ro)[p] ELSE c[p]
  BY DEF MergeOver
<1>4. e[Wild] = "absent"
  BY <1>2, <1>3, DefaultsAreDeclared DEF Pairs
<1>5. \A p \in Grants : e[p] = "granted" <=> m[p] = "granted"
  BY <1>1, <1>3 DEF Pairs
<1>6. \A p \in Pairs : HasAction(e, p) <=> p \in Granted(m)
  BY <1>4, <1>5, PermissionsAssumption DEF PermissionsAssumption, HasAction, Granted, Pairs
<1>7. Granted(m) \subseteq Pairs
  BY DEF Granted, Pairs
<1> QED
  BY <1>6, <1>7

(* Layered over the defaults of another role it lets through those that    *)
(* the administrator did not mention and the role of the save lacks.       *)
LEMMA CleanedOverOthers ==
  ASSUME NEW m \in Matrix, NEW ro, NEW other, NEW p \in Grants
  PROVE  HasAction(MergeOver(RoleDefaults(other), Cleaned(m, ro)), p) <=>
           \/ p \in Granted(m)
           \/ /\ m[p] = "absent"
              /\ RoleDefaults(other)[p] = "granted"
              /\ RoleDefaults(ro)[p] # "granted"
<1> DEFINE c == Cleaned(m, ro)
           e == MergeOver(RoleDefaults(other), c)
<1>1. /\ m[p] = "absent" /\ RoleDefaults(ro)[p] = "granted" => c[p] = "denied"
      /\ ~(m[p] = "absent" /\ RoleDefaults(ro)[p] = "granted") => c[p] = m[p]
  BY DEF Cleaned, FilterValid, Pairs
<1>2. c[Wild] = "absent"
  BY DefaultsAreDeclared, PermissionsAssumption
  DEF PermissionsAssumption, Cleaned, FilterValid, Pairs
<1>3. \A q \in Pairs : /\ c[q] = "absent" => e[q] = RoleDefaults(other)[q]
                       /\ c[q] # "absent" => e[q] = c[q]
  BY DEF MergeOver
<1>4. e[Wild] = "absent"
  BY <1>2, <1>3, DefaultsAreDeclared DEF Pairs
<1>5. HasAction(e, p) <=> e[p] = "granted"
  BY <1>4 DEF HasAction
<1> QED
  BY <1>1, <1>3, <1>5 DEF Granted, Pairs

(* What a row of any save grants over the defaults of any role is ticked   *)
(* in it or a default of that role.                                        *)
LEMMA CleanedHasASource ==
  ASSUME NEW m \in Matrix, NEW ro, NEW other,
         NEW p \in Pairs, HasAction(MergeOver(RoleDefaults(other), Cleaned(m, ro)), p)
  PROVE  p \in Granted(m) \/ (p \in Grants /\ RoleDefaults(other)[p] = "granted")
<1> DEFINE c == Cleaned(m, ro)
           e == MergeOver(RoleDefaults(other), c)
<1>1. \A q \in Grants : c[q] = "granted" => m[q] = "granted"
  BY DEF Cleaned, FilterValid, Pairs
<1>2. c[Wild] = "absent"
  BY DefaultsAreDeclared, PermissionsAssumption
  DEF PermissionsAssumption, Cleaned, FilterValid, Pairs
<1>3. \A q \in Pairs : e[q] = IF c[q] = "absent" THEN RoleDefaults(other)[q] ELSE c[q]
  BY DEF MergeOver
<1>4. e[Wild] = "absent"
  BY <1>2, <1>3, DefaultsAreDeclared DEF Pairs
<1>5. e[p] = "granted" /\ p \in Grants
  BY <1>4 DEF HasAction, Pairs
<1> QED
  BY <1>1, <1>3, <1>5 DEF Granted, Pairs

(* What a row without a save grants is a default of the role of the        *)
(* account or of the one it was created with.                              *)
LEMMA SeedHasASource ==
  ASSUME NEW m, NEW seed, NEW other, m = Empty \/ m = RoleDefaults(seed),
         NEW p \in Pairs, HasAction(MergeOver(RoleDefaults(other), m), p)
  PROVE  p \in Grants /\ (RoleDefaults(other)[p] = "granted" \/ RoleDefaults(seed)[p] = "granted")
<1> DEFINE e == MergeOver(RoleDefaults(other), m)
<1>1. \A q \in Pairs : e[q] = IF m[q] = "absent" THEN RoleDefaults(other)[q] ELSE m[q]
  BY DEF MergeOver
<1>2. \A q \in Pairs : m[q] = "absent" \/ m[q] = RoleDefaults(seed)[q]
  BY DEF Empty
<1>3. e[Wild] = "absent"
  BY <1>1, <1>2, DefaultsAreDeclared DEF Pairs
<1>4. e[p] = "granted" /\ p \in Grants
  BY <1>3 DEF HasAction, Pairs
<1> QED
  BY <1>1, <1>2, <1>4

(***************************************************************************)
(* Types.                                                                  *)
(***************************************************************************)

(* The row a statement leaves is a row, or none.                           *)
LEMMA WrittenIsRow ==
  ASSUME TypeOK, Flow, NEW r \in Requests, at[r] = "written"
  PROVE  /\ Written(r) \in Row \cup {None}
         /\ op[r] \in Saves => /\ Written(r) \in Row
                               /\ Written(r).matrix = Cleaned(input[r], known[r])
         /\ op[r] = "create" => Written(r) \in Row /\ Written(r).matrix = Empty
         /\ op[r] = "delete" => Written(r) = None
<1> DEFINE id == IF Inserts(r) THEN r ELSE found[r]
<1>1. op[r] \in Routes /\ id \in Ids
  BY DEF Flow, FlowOf, TypeOK, Inserts, Ids
<1>2. CASE op[r] = "delete"
  BY <1>2 DEF Written, Saves
<1>3. CASE op[r] = "create"
  <2>1. [id |-> id, matrix |-> Empty] \in Row
    BY <1>1, MatrixTypes DEF Row
  <2> QED
    BY <1>3, <2>1 DEF Written, Saves
<1>4. CASE op[r] \in Saves
  <2>1. input[r] \in Matrix
    BY <1>4 DEF Flow, FlowOf, Saves
  <2>2. [id |-> id, matrix |-> Cleaned(input[r], known[r])] \in Row
    BY <1>1, <2>1, MatrixTypes DEF Row
  <2> QED
    BY <1>4, <2>2 DEF Written, Saves
<1> QED
  BY <1>1, <1>2, <1>3, <1>4 DEF Routes, Saves

(* The initial state.                                                      *)
LEMMA InitInv == Init => Inv
<1> SUFFICES ASSUME Init PROVE Inv
  OBVIOUS
<1>1. TypeOK
  BY DEF Init, TypeOK
<1>2. Flow
  BY DEF Init, Flow, FlowOf
<1>3. Rows
  BY DEF Init, Rows, RowsOf
<1> QED
  BY <1>1, <1>2, <1>3 DEF Inv

(***************************************************************************)
(* Accounts.                                                               *)
(***************************************************************************)

(* A login changes the token only.                                         *)
LEMMA LoginInv ==
  ASSUME Inv, NEW u \in Users, Login(u)
  PROVE  Inv'
<1> USE DEF Login, handler, history
<1>1. TypeOK'
  BY DEF Inv, TypeOK
<1>2. Flow'
  BY DEF Inv, Flow, FlowOf
<1>3. Rows'
  BY DEF Inv, Rows, RowsOf
<1> QED
  BY <1>1, <1>2, <1>3 DEF Inv

(* A change of role keeps the row, and no account loses its role.          *)
LEMMA SetRoleInv ==
  ASSUME Inv, NEW u \in Users, NEW ro \in Roles, SetRole(u, ro)
  PROVE  Inv'
<1> USE DEF SetRole, handler, history
<1>1. TypeOK'
  BY DEF Inv, TypeOK
<1>2. \A v \in Users : role'[v] = role[v] \/ (role[v] # None /\ role'[v] \in Roles)
  BY DEF Inv, TypeOK
<1>3. Flow'
  BY <1>2 DEF Inv, Flow, FlowOf
<1>4. \A v \in Users : role'[v] = None => role[v] = None
  BY <1>2, PermissionsAssumption DEF PermissionsAssumption
<1>5. Rows'
  BY <1>4 DEF Inv, Rows, RowsOf
<1> QED
  BY <1>1, <1>3, <1>5 DEF Inv

(* A new account has no row or the seed of its role, and no request.       *)
LEMMA CreateUserInv ==
  ASSUME Inv, NEW u \in Users, NEW ro \in Roles, CreateUser(u, ro)
  PROVE  Inv'
<1> DEFINE row == [id |-> u, matrix |-> RoleDefaults(ro)]
<1>1. row \in Row /\ row # None
  BY MatrixTypes, PermissionsAssumption DEF PermissionsAssumption, Row, Ids
<1>2. /\ role' = [role EXCEPT ![u] = ro]
      /\ born' = [born EXCEPT ![u] = ro]
      /\ perm' = [perm EXCEPT ![u] = IF ro = "admin" THEN None ELSE row]
      /\ role[u] = None
      /\ UNCHANGED <<claim, handler, saved, ticked>>
  BY DEF CreateUser
<1> HIDE DEF row
<1>3. TypeOK'
  BY <1>1, <1>2 DEF Inv, TypeOK, handler
<1>4. \A v \in Users : role'[v] = role[v] \/ role'[v] \in Roles
  BY <1>2 DEF Inv, TypeOK
<1>5. Flow'
  BY <1>2, <1>4 DEF Inv, Flow, FlowOf, handler
<1>6. ASSUME NEW v \in Users PROVE RowsOf(v)'
  <2>1. CASE v # u
    BY <1>2, <2>1 DEF Inv, TypeOK, Rows, RowsOf
  <2>2. CASE v = u
    <3>1. saved'[u] = None /\ role'[u] = ro /\ born'[u] = ro /\ ro # None
      BY <1>2, PermissionsAssumption DEF PermissionsAssumption, Inv, TypeOK, Rows, RowsOf
    <3>2. perm'[u] = None \/ perm'[u].matrix = RoleDefaults(born'[u])
      BY <1>2, <3>1 DEF Inv, TypeOK, row
    <3> QED
      BY <2>2, <3>1, <3>2 DEF RowsOf
  <2> QED
    BY <2>1, <2>2
<1> QED
  BY <1>3, <1>5, <1>6 DEF Inv, Rows

(***************************************************************************)
(* Requests.                                                               *)
(***************************************************************************)

(* What a step keeps when it changes neither accounts nor history, nor any *)
(* other request than r.                                                   *)
LEMMA HandlerOnly ==
  ASSUME Inv, NEW r \in Requests, UNCHANGED <<accounts, history>>,
         \A q \in Requests \ {r} :
           /\ op'[q] = op[q] /\ at'[q] = at[q] /\ target'[q] = target[q]
           /\ input'[q] = input[q] /\ known'[q] = known[q] /\ found'[q] = found[q],
         TypeOK', FlowOf(r)'
  PROVE  Inv'
<1>1. Rows'
  BY DEF Inv, Rows, RowsOf, accounts, history
<1>2. ASSUME NEW q \in Requests \ {r} PROVE FlowOf(q)'
  BY DEF Inv, Flow, FlowOf, accounts
<1> QED
  BY <1>1, <1>2 DEF Inv, Flow

(* A step of r that gives no account another role leaves the other         *)
(* requests where they are.                                                *)
LEMMA OtherFlows ==
  ASSUME Inv, NEW r \in Requests, role' = role,
         \A q \in Requests \ {r} :
           /\ op'[q] = op[q] /\ at'[q] = at[q] /\ target'[q] = target[q]
           /\ input'[q] = input[q] /\ known'[q] = known[q] /\ found'[q] = found[q],
         FlowOf(r)'
  PROVE  Flow'
<1>1. ASSUME NEW q \in Requests \ {r} PROVE FlowOf(q)'
  BY DEF Inv, Flow, FlowOf
<1> QED
  BY <1>1 DEF Flow

(* A request by account arrives.                                           *)
LEMMA ArriveInv ==
  ASSUME Inv, NEW r \in Requests, NEW u \in Users,
         NEW route \in {"saveByUser", "create"}, NEW m \in Inputs \cup {None},
         route = "saveByUser" => m \in Inputs, Arrive(r, route, u, m)
  PROVE  Inv'
<1> USE DEF Arrive
<1>1. TypeOK'
  BY PermissionsAssumption DEF PermissionsAssumption,  Inv, TypeOK, Routes, accounts, history
<1>2. FlowOf(r)'
  BY PermissionsAssumption DEF PermissionsAssumption,  Inv, TypeOK, Flow, FlowOf, Routes, Saves, accounts, history
<1> QED
  BY <1>1, <1>2, HandlerOnly DEF Inv, TypeOK, accounts, history

(* A request by the id of a row arrives.                                   *)
LEMMA ArriveByIdInv ==
  ASSUME Inv, NEW r \in Requests, NEW u \in Users,
         NEW route \in {"saveById", "delete"}, NEW m \in Inputs \cup {None},
         route = "saveById" => m \in Inputs, ArriveById(r, route, u, m)
  PROVE  Inv'
<1> USE DEF ArriveById
<1>a. perm[u] \in Row /\ perm[u].id \in Ids
  BY DEF Inv, TypeOK, Row
<1>b. role[u] \in Roles
  BY DEF Inv, TypeOK, Rows, RowsOf
<1>1. TypeOK'
  BY <1>a, <1>b, PermissionsAssumption DEF PermissionsAssumption, Inv, TypeOK, Routes, accounts, history
<1>2. FlowOf(r)'
  BY <1>a, <1>b, PermissionsAssumption DEF PermissionsAssumption, Inv, TypeOK, Flow, FlowOf, Routes, Saves, accounts, history
<1> QED
  BY <1>1, <1>2, HandlerOnly DEF Inv, TypeOK, accounts, history

(* The role of the account is read: it has one.                            *)
LEMMA ReadUserInv ==
  ASSUME Inv, NEW r \in Requests, ReadUser(r)
  PROVE  Inv'
<1> USE DEF ReadUser
<1>a. target[r] \in Users /\ role[target[r]] \in Roles
  BY DEF Inv, Flow, FlowOf
<1>1. TypeOK'
  BY <1>a DEF Inv, TypeOK, Routes, accounts, history
<1>2. FlowOf(r)'
  BY <1>a DEF Inv, TypeOK, Flow, FlowOf, Routes, Saves, accounts, history
<1> QED
  BY <1>1, <1>2, HandlerOnly DEF Inv, TypeOK, accounts, history

(* The row of the account is read.                                         *)
LEMMA ReadRowByUserInv ==
  ASSUME Inv, NEW r \in Requests, ReadRowByUser(r)
  PROVE  Inv'
<1> USE DEF ReadRowByUser
<1>a. target[r] \in Users /\ (perm[target[r]] # None => perm[target[r]].id \in Ids)
  BY DEF Inv, TypeOK, Flow, FlowOf, Row
<1>1. TypeOK'
  BY <1>a DEF Inv, TypeOK, Routes, accounts, history
<1>2. FlowOf(r)'
  BY <1>a DEF Inv, TypeOK, Flow, FlowOf, Routes, Saves, accounts, history
<1> QED
  BY <1>1, <1>2, HandlerOnly DEF Inv, TypeOK, accounts, history

(* The row with the id of the request is read.                             *)
LEMMA ReadRowByIdInv ==
  ASSUME Inv, NEW r \in Requests, ReadRowById(r)
  PROVE  Inv'
<1> USE DEF ReadRowById
<1>1. TypeOK'
  BY DEF Inv, TypeOK, Routes, accounts, history
<1>2. FlowOf(r)'
  BY DEF Inv, TypeOK, Flow, FlowOf, Routes, Saves, accounts, history
<1> QED
  BY <1>1, <1>2, HandlerOnly DEF Inv, TypeOK, accounts, history

(* The statement runs.                                                     *)
LEMMA WriteInv ==
  ASSUME Inv, NEW r \in Requests, Write(r)
  PROVE  Inv'
<1> USE DEF Write
<1>1. TypeOK'
  BY DEF Inv, TypeOK, Routes, accounts, history
<1>2. FlowOf(r)'
  BY DEF Inv, TypeOK, Flow, FlowOf, Routes, Saves, accounts, history
<1> QED
  BY <1>1, <1>2, HandlerOnly DEF Inv, TypeOK, accounts, history

(* The transaction ends without effect.                                    *)
LEMMA AbortInv ==
  ASSUME Inv, NEW r \in Requests, Abort(r)
  PROVE  Inv'
<1> USE DEF Abort
<1>1. TypeOK'
  BY DEF Inv, TypeOK, Routes, accounts, history
<1>2. FlowOf(r)'
  BY DEF Inv, TypeOK, Flow, FlowOf, Routes, Saves, accounts, history
<1> QED
  BY <1>1, <1>2, HandlerOnly DEF Inv, TypeOK, accounts, history

(* The commit: the row is the one of the save, of the seed, or gone.       *)
LEMMA CommitInv ==
  ASSUME Inv, NEW r \in Requests, Commit(r)
  PROVE  Inv'
<1>1. PICK u \in Users : u = target[r]
  BY DEF Inv, Flow, FlowOf, Commit
<1>2. /\ at[r] = "written" /\ at' = [at EXCEPT ![r] = "ok"]
      /\ UNCHANGED <<role, claim, op, target, input, known, found, born>>
      /\ op[r] \in Routes /\ role[u] \in Roles
  BY <1>1 DEF Commit, Inv, Flow, FlowOf
<1>3. /\ Written(r) \in Row \cup {None}
      /\ op[r] \in Saves => /\ Written(r) \in Row
                            /\ Written(r).matrix = Cleaned(input[r], known[r])
      /\ op[r] = "create" => Written(r) \in Row /\ Written(r).matrix = Empty
      /\ op[r] = "delete" => Written(r) = None
  BY <1>2, WrittenIsRow DEF Inv
<1>4. FlowOf(r)'
  BY <1>2 DEF Inv, TypeOK, Flow, FlowOf
<1>5. CASE ~Touches(r)
  <2>1. UNCHANGED <<perm, saved, ticked>>
    BY <1>5 DEF Commit
  <2>2. TypeOK'
    BY <1>2, <2>1 DEF Inv, TypeOK
  <2> QED
    BY <1>2, <1>4, <2>1, <2>2, HandlerOnly DEF Inv, TypeOK, accounts, history
<1>6. CASE Touches(r) /\ op[r] \in Saves
  <2> DEFINE save == [matrix |-> input[r], role |-> known[r]]
  <2>1. /\ perm' = [perm EXCEPT ![u] = Written(r)]
        /\ saved' = [saved EXCEPT ![u] = save]
        /\ ticked' = [ticked EXCEPT ![u] = @ \cup Granted(input[r])]
    BY <1>1, <1>6 DEF Commit, Saves
  <2>2. save \in Save /\ save # None /\ Written(r) # None
    BY <1>2, <1>3, <1>6, PermissionsAssumption
    DEF PermissionsAssumption, Inv, Flow, FlowOf, Save
  <2>3. Granted(input[r]) \subseteq Grants
    BY DEF Granted
  <2>4. save.matrix = input[r] /\ save.role = known[r]
    OBVIOUS
  <2> HIDE DEF save
  <2>5. TypeOK'
    BY <1>2, <1>3, <1>6, <2>1, <2>2, <2>3 DEF Inv, TypeOK
  <2>6. ASSUME NEW v \in Users PROVE RowsOf(v)'
    <3>1. CASE v # u
      BY <1>2, <2>1, <3>1 DEF Inv, TypeOK, Rows, RowsOf
    <3>2. CASE v = u
      <4>1. /\ perm'[u] = Written(r) /\ saved'[u] = save /\ role'[u] # None
            /\ Granted(input[r]) \subseteq ticked'[u]
        BY <1>2, <2>1, PermissionsAssumption DEF PermissionsAssumption, Inv, TypeOK
      <4> QED
        BY <1>3, <1>6, <2>2, <2>4, <3>2, <4>1 DEF RowsOf
    <3> QED
      BY <3>1, <3>2
  <2> QED
    BY <1>2, <1>4, <2>5, <2>6, OtherFlows DEF Inv, Rows
<1>7. CASE Touches(r) /\ op[r] \notin Saves
  <2>1. /\ perm' = [perm EXCEPT ![u] = Written(r)]
        /\ saved' = [saved EXCEPT ![u] = None]
        /\ ticked' = ticked
    BY <1>1, <1>7 DEF Commit, Saves
  <2>2. TypeOK'
    BY <1>2, <1>3, <2>1 DEF Inv, TypeOK
  <2>3. Written(r) = None \/ Written(r).matrix = Empty
    BY <1>2, <1>3, <1>7 DEF Routes, Saves
  <2>4. ASSUME NEW v \in Users PROVE RowsOf(v)'
    <3>1. CASE v # u
      BY <1>2, <2>1, <3>1 DEF Inv, TypeOK, Rows, RowsOf
    <3>2. CASE v = u
      <4>1. perm'[u] = Written(r) /\ saved'[u] = None /\ role'[u] # None
        BY <1>2, <2>1, PermissionsAssumption DEF PermissionsAssumption, Inv, TypeOK
      <4> QED
        BY <2>3, <3>2, <4>1 DEF RowsOf
    <3> QED
      BY <3>1, <3>2
  <2> QED
    BY <1>2, <1>4, <2>2, <2>4, OtherFlows DEF Inv, Rows
<1> QED
  BY <1>5, <1>6, <1>7

(***************************************************************************)
(* The invariant.                                                          *)
(***************************************************************************)

(* Every step keeps the invariant.                                         *)
LEMMA StepInv == Inv /\ [Next]_vars => Inv'
<1> SUFFICES ASSUME Inv, [Next]_vars PROVE Inv'
  OBVIOUS
<1>1. ASSUME NEW u \in Users, Login(u) PROVE Inv'
  BY <1>1, LoginInv
<1>2. ASSUME NEW u \in Users, NEW ro \in Roles, CreateUser(u, ro) PROVE Inv'
  BY <1>2, CreateUserInv
<1>3. ASSUME NEW u \in Users, NEW ro \in Roles, SetRole(u, ro) PROVE Inv'
  BY <1>3, SetRoleInv
<1>4. ASSUME NEW r \in Requests, SaveByUser(r) \/ CreateRow(r) PROVE Inv'
  BY <1>4, ArriveInv DEF SaveByUser, CreateRow
<1>5. ASSUME NEW r \in Requests, SaveById(r) \/ DeleteRow(r) PROVE Inv'
  BY <1>5, ArriveByIdInv DEF SaveById, DeleteRow
<1>6. ASSUME NEW r \in Requests, ReadUser(r) \/ ReadRowByUser(r) \/ ReadRowById(r) PROVE Inv'
  BY <1>6, ReadUserInv, ReadRowByUserInv, ReadRowByIdInv
<1>7. ASSUME NEW r \in Requests, Write(r) \/ Commit(r) \/ Abort(r) PROVE Inv'
  BY <1>7, WriteInv, CommitInv, AbortInv
<1>8. CASE UNCHANGED vars
  BY <1>8 DEF vars, Inv, TypeOK, Flow, FlowOf, Rows, RowsOf
<1> QED
  BY <1>1, <1>2, <1>3, <1>4, <1>5, <1>6, <1>7, <1>8 DEF Next, Handle

(* The invariant holds in every behaviour.                                 *)
LEMMA Invariance == Spec => []Inv
BY InitInv, StepInv, PTL DEF Spec

(* Type correctness of Permissions, whatever handlers interleave.          *)
THEOREM TypeCorrect == Spec => []TypeOK
<1>1. Inv => TypeOK
  BY DEF Inv
<1> QED
  BY Invariance, <1>1, PTL

(* The denials stored for unticked defaults make the saved matrix exactly  *)
(* what the account may do under the role the save was made for.           *)
THEOREM SavedMatrixTheorem == Spec => []SavedMatrixIsEffective
<1>1. Inv => SavedMatrixIsEffective
  <2> SUFFICES ASSUME Inv, NEW u \in Users, saved[u] # None, role[u] = saved[u].role
               PROVE  May(u) = Granted(saved[u].matrix)
    BY DEF SavedMatrixIsEffective
  <2>1. saved[u].matrix \in Matrix
    BY DEF Inv, TypeOK, Save
  <2>2. perm[u] # None /\ perm[u].matrix = Cleaned(saved[u].matrix, role[u])
    BY DEF Inv, Rows, RowsOf
  <2>3. May(u) =
          {p \in Pairs : HasAction(MergeOver(RoleDefaults(role[u]), perm[u].matrix), p)}
    BY <2>2 DEF May, EffectivePermissions, Layered
  <2> QED
    BY <2>1, <2>2, <2>3, CleanedOverDefaults
<1> QED
  BY Invariance, <1>1, PTL

(* Nothing is permitted that no save granted and no default of the role,   *)
(* or of the first role, of the account contains.                          *)
THEOREM SourceTheorem == Spec => []GrantsHaveASource
<1>1. Inv => GrantsHaveASource
  <2> SUFFICES ASSUME Inv, NEW u \in Users, NEW p \in Pairs, HasAction(Layered(u, role[u]), p)
               PROVE  \/ p \in ticked[u]
                      \/ p \in Grants /\ (\/ RoleDefaults(role[u])[p] = "granted"
                                          \/ RoleDefaults(born[u])[p] = "granted")
    BY DEF GrantsHaveASource, May, EffectivePermissions
  <2>1. CASE perm[u] = None
    <3>1. HasAction(RoleDefaults(role[u]), p)
      BY <2>1 DEF Layered
    <3> QED
      BY <3>1, DefaultsAreDeclared DEF HasAction, Pairs
  <2>2. CASE perm[u] # None /\ saved[u] # None
    <3>1. saved[u].matrix \in Matrix
      BY <2>2 DEF Inv, TypeOK, Save
    <3>2. HasAction(MergeOver(RoleDefaults(role[u]),
                              Cleaned(saved[u].matrix, saved[u].role)), p)
      BY <2>2 DEF Layered, Inv, Rows, RowsOf
    <3>3. p \in Granted(saved[u].matrix) \/ (p \in Grants /\ RoleDefaults(role[u])[p] = "granted")
      BY <3>1, <3>2, CleanedHasASource
    <3> QED
      BY <2>2, <3>3 DEF Inv, Rows, RowsOf
  <2>3. CASE perm[u] # None /\ saved[u] = None
    <3>1. perm[u].matrix = Empty \/ perm[u].matrix = RoleDefaults(born[u])
      BY <2>3 DEF Inv, Rows, RowsOf
    <3>2. HasAction(MergeOver(RoleDefaults(role[u]), perm[u].matrix), p)
      BY <2>3 DEF Layered
    <3> QED
      BY <3>1, <3>2, SeedHasASource
  <2> QED
    BY <2>1, <2>2, <2>3
<1> QED
  BY Invariance, <1>1, PTL

(* What a token opens beyond the matrix saved last are defaults of its     *)
(* role, unmentioned in the save and foreign to the role it was made for.  *)
THEOREM GateTheorem == Spec => []TokensObeySaves
<1>1. Inv => TokensObeySaves
  <2> SUFFICES ASSUME Inv, NEW u \in Users, saved[u] # None, claim[u] \notin {None, "admin"},
                      NEW p \in Grants
               PROVE  RequirePermission(u, p) <=>
                        \/ p \in Granted(saved[u].matrix)
                        \/ /\ saved[u].matrix[p] = "absent"
                           /\ RoleDefaults(claim[u])[p] = "granted"
                           /\ RoleDefaults(saved[u].role)[p] # "granted"
    BY DEF TokensObeySaves
  <2>1. saved[u].matrix \in Matrix
    BY DEF Inv, TypeOK, Save
  <2>2. perm[u] # None /\ perm[u].matrix = Cleaned(saved[u].matrix, saved[u].role)
    BY DEF Inv, Rows, RowsOf
  <2>3. RequirePermission(u, p)
          <=> HasAction(MergeOver(RoleDefaults(claim[u]), perm[u].matrix), p)
    BY <2>2 DEF RequirePermission, Layered
  <2> QED
    BY <2>1, <2>2, <2>3, CleanedOverOthers
<1> QED
  BY Invariance, <1>1, PTL

(***************************************************************************)
(* What becomes of the row a handler has read.                             *)
(***************************************************************************)

(* The row r has read was deleted by a request that is answered.           *)
Deleted(r) ==
  \E q \in Requests : /\ op[q] = "delete" /\ at[q] = "ok"
                      /\ target[q] = target[r] /\ found[q] = found[r]

(* A row that was read is there or was deleted; one transaction at a time  *)
(* has written the row of an account; an inserted row has no rival and an  *)
(* id nobody has seen before.                                              *)
Fate  == \A r \in Requests : found[r] # None => RowIsThere(r) \/ Deleted(r)
Alone == \A q, r \in Requests, u \in Users : HoldsRow(q, u) /\ HoldsRow(r, u) => q = r
Free  == \A r \in Requests : at[r] = "written" /\ Inserts(r) => perm[target[r]] = None
Fresh == /\ \A r \in Requests : found[r] \in Requests => at[found[r]] = "ok"
         /\ \A u \in Users : perm[u] # None /\ perm[u].id \in Requests => at[perm[u].id] = "ok"
         /\ \A r \in Requests : at[r] = "idle" => found[r] = None

Tracked == Fate /\ Alone /\ Free /\ Fresh

(* The other requests stay where they are, and r was not answered.         *)
Only(r) ==
  /\ at[r] # "ok"
  /\ \A q \in Requests \ {r} : /\ op'[q] = op[q] /\ at'[q] = at[q]
                               /\ target'[q] = target[q] /\ found'[q] = found[q]

(* A deletion that is answered stays one.                                  *)
LEMMA DeletedStays ==
  ASSUME NEW r \in Requests, Only(r), NEW q \in Requests, Deleted(q),
         target'[q] = target[q], found'[q] = found[q]
  PROVE  Deleted(q)'
BY DEF Deleted, Only

(* A step that changes no row and reads at most the one that is there.     *)
LEMMA RowsStand ==
  ASSUME Inv, Tracked, NEW r \in Requests, Only(r), perm' = perm,
         (found'[r] = found[r] /\ target'[r] = target[r]) \/ found'[r] = None \/ RowIsThere(r)',
         at'[r] = "idle" => found'[r] = None,
         RowIsThere(r)' /\ found'[r] # found[r] => target'[r] \in Users,
         at'[r] = "written" =>
           /\ found'[r] = found[r] /\ target'[r] = target[r]
           /\ Touches(r) => \A q \in Requests : ~HoldsRow(q, target[r])
           /\ Inserts(r) => perm[target[r]] = None
  PROVE  Tracked'
<1>1. Fate'
  <2>1. ASSUME NEW q \in Requests \ {r}, found'[q] # None PROVE (RowIsThere(q) \/ Deleted(q))'
    <3>1. found'[q] = found[q] /\ target'[q] = target[q]
      BY DEF Only
    <3>2. RowIsThere(q) \/ Deleted(q)
      BY <2>1, <3>1 DEF Tracked, Fate
    <3>3. RowIsThere(q) => RowIsThere(q)'
      BY <3>1 DEF RowIsThere
    <3>4. Deleted(q) => Deleted(q)'
      BY <3>1, DeletedStays
    <3> QED
      BY <3>2, <3>3, <3>4
  <2>2. ASSUME found'[r] # None PROVE (RowIsThere(r) \/ Deleted(r))'
    <3>1. CASE found'[r] = found[r] /\ target'[r] = target[r]
      <4>1. RowIsThere(r) \/ Deleted(r)
        BY <2>2, <3>1 DEF Tracked, Fate
      <4>2. RowIsThere(r) => RowIsThere(r)'
        BY <3>1 DEF RowIsThere
      <4> QED
        BY <3>1, <4>1, <4>2, DeletedStays
    <3>2. CASE RowIsThere(r)'
      BY <3>2
    <3> QED
      BY <2>2, <3>1, <3>2
  <2> QED
    BY <2>1, <2>2 DEF Fate
<1>2. Alone'
  <2>1. ASSUME NEW q \in Requests \ {r}, NEW u \in Users, HoldsRow(q, u)'
        PROVE  HoldsRow(q, u)
    BY <2>1 DEF Only, RowIsThere, Touches, Inserts, HoldsRow
  <2>2. ASSUME NEW q \in Requests \ {r}, NEW u \in Users, HoldsRow(q, u)', HoldsRow(r, u)'
        PROVE  FALSE
    <3>1. HoldsRow(q, u)
      BY <2>1, <2>2
    <3>2. at'[r] = "written" /\ target'[r] = u
      BY <2>2 DEF HoldsRow
    <3>3. target[r] = u /\ Touches(r)
      BY <2>2, <3>2 DEF HoldsRow, Touches, Inserts, RowIsThere
    <3> QED
      BY <3>1, <3>2, <3>3
  <2>3. SUFFICES ASSUME NEW p \in Requests, NEW q \in Requests, NEW u \in Users,
                        HoldsRow(p, u)', HoldsRow(q, u)', p # q
                 PROVE  FALSE
    BY DEF Alone
  <2>4. CASE p = r
    BY <2>2, <2>3, <2>4
  <2>5. CASE q = r
    BY <2>2, <2>3, <2>5
  <2>6. CASE p # r /\ q # r
    BY <2>1, <2>3, <2>6 DEF Tracked, Alone
  <2> QED
    BY <2>4, <2>5, <2>6
<1>3. Free'
  BY DEF Tracked, Free, Only, Inserts
<1>4. Fresh'
  <2>1. ASSUME NEW q \in Requests, found'[q] \in Requests PROVE at'[found'[q]] = "ok"
    <3>1. CASE found'[q] = found[q]
      BY <2>1, <3>1 DEF Tracked, Fresh, Only
    <3>2. CASE found'[q] # found[q]
      <4>1. q = r /\ RowIsThere(r)' /\ target'[r] \in Users
        BY <2>1, <3>2, PermissionsAssumption DEF Only, PermissionsAssumption
      <4>2. perm[target'[r]] # None /\ perm[target'[r]].id = found'[r]
        BY <4>1 DEF RowIsThere
      <4> QED
        BY <2>1, <4>1, <4>2 DEF Tracked, Fresh, Only
    <3> QED
      BY <3>1, <3>2
  <2> QED
    BY <2>1 DEF Tracked, Fresh, Only
<1> QED
  BY <1>1, <1>2, <1>3, <1>4 DEF Tracked

(* Accounts come and change under requests that are about other accounts,  *)
(* or that do not read roles.                                              *)
LEMMA AccountsTracked ==
  ASSUME Inv, Tracked, NEW u \in Users,
         \/ Login(u)
         \/ \E ro \in Roles : CreateUser(u, ro) \/ SetRole(u, ro)
  PROVE  Tracked'
<1>1. op' = op /\ at' = at /\ target' = target /\ found' = found
  BY DEF Login, CreateUser, SetRole, handler
<1>2. \A v \in Users : \/ perm'[v] = perm[v]
                       \/ role[v] = None /\ perm'[v] = None
                       \/ role[v] = None /\ perm'[v].id = v
  BY DEF Login, CreateUser, SetRole, Inv, TypeOK
<1>3. ASSUME NEW r \in Requests, at[r] # "idle"
      PROVE  target[r] \in Users /\ perm'[target[r]] = perm[target[r]]
  BY <1>2, <1>3, PermissionsAssumption DEF PermissionsAssumption, Inv, Flow, FlowOf
<1>4. Fate'
  <2>1. SUFFICES ASSUME NEW r \in Requests, found[r] # None
                 PROVE  RowIsThere(r)' \/ Deleted(r)'
    BY <1>1 DEF Fate
  <2>2. at[r] # "idle"
    BY <2>1 DEF Tracked, Fresh
  <2>3. RowIsThere(r) => RowIsThere(r)'
    BY <1>1, <1>3, <2>2 DEF RowIsThere
  <2>4. Deleted(r) => Deleted(r)'
    BY <1>1 DEF Deleted
  <2> QED
    BY <2>1, <2>3, <2>4 DEF Tracked, Fate
<1>5. Alone'
  <2>1. ASSUME NEW q \in Requests, NEW v \in Users, HoldsRow(q, v)' PROVE HoldsRow(q, v)
    BY <1>1, <1>3, <2>1 DEF HoldsRow, Touches, Inserts, RowIsThere
  <2> QED
    BY <2>1 DEF Alone, Tracked
<1>6. Free'
  BY <1>1, <1>3 DEF Tracked, Free, Inserts
<1>7. Fresh'
  BY <1>1, <1>2, PermissionsAssumption DEF PermissionsAssumption, Tracked, Fresh
<1> QED
  BY <1>4, <1>5, <1>6, <1>7 DEF Tracked

(* A commit that touches the row of its account inserts one where there    *)
(* was none, or keeps the id, or deletes; nobody else has it locked.       *)
LEMMA CommitTracked ==
  ASSUME Inv, Tracked, NEW r \in Requests, Commit(r)
  PROVE  Tracked'
<1>1. PICK u \in Users : u = target[r]
  BY DEF Inv, Flow, FlowOf, Commit
<1>2. /\ at[r] = "written" /\ at' = [at EXCEPT ![r] = "ok"]
      /\ op' = op /\ target' = target /\ found' = found
  BY DEF Commit
<1>3. Only(r)
  BY <1>2 DEF Only, Inv, TypeOK
<1>4. CASE ~Touches(r)
  <2>1. perm' = perm
    BY <1>4 DEF Commit
  <2>2. at'[r] = "ok"
    BY <1>2 DEF Inv, TypeOK
  <2> QED
    BY <1>2, <1>3, <2>1, <2>2, RowsStand
<1>5. CASE Touches(r)
  <2>1. perm' = [perm EXCEPT ![u] = Written(r)]
    BY <1>1, <1>5 DEF Commit
  <2>2. \/ op[r] = "delete" /\ perm'[u] = None
        \/ op[r] # "delete" /\ perm'[u].id = IF Inserts(r) THEN r ELSE found[r]
    BY <1>2, <2>1 DEF Written, Inv, TypeOK, Flow, FlowOf, Routes
  <2>3. op[r] = "delete" => ~Inserts(r)
    BY <1>2, PermissionsAssumption DEF PermissionsAssumption, Inv, Flow, FlowOf, Inserts, Ids
  <2>4. op[r] # "delete" => perm'[u] # None
    BY <1>2, <2>1, WrittenIsRow, PermissionsAssumption
    DEF PermissionsAssumption, Inv, TypeOK, Flow, FlowOf, Routes, Saves
  <2>5. HoldsRow(r, u)
    BY <1>1, <1>2, <1>5 DEF HoldsRow
  <2>6. Inserts(r) => perm[u] = None
    BY <1>1, <1>2 DEF Tracked, Free
  <2>7. ~Inserts(r) => perm[u] # None /\ perm[u].id = found[r]
    BY <1>1, <1>5 DEF Touches, RowIsThere
  <2>8. \A v \in Users \ {u} : perm'[v] = perm[v]
    BY <2>1 DEF Inv, TypeOK
  <2>9. \A q \in Requests : at'[q] = IF q = r THEN "ok" ELSE at[q]
    BY <1>2 DEF Inv, TypeOK
  <2>10. \A q \in Requests : found[q] # None => target[q] \in Users
    BY DEF Tracked, Fresh, Inv, Flow, FlowOf
  <2>11. ASSUME NEW q \in Requests, found[q] # None, RowIsThere(q)'
         PROVE  RowIsThere(q)
    <3>1. CASE target[q] # u
      BY <1>2, <2>8, <2>10, <2>11, <3>1 DEF RowIsThere
    <3>2. CASE target[q] = u
      <4>1. perm'[u] # None /\ perm'[u].id = found[q]
        BY <1>2, <2>11, <3>2 DEF RowIsThere
      <4>2. found[q] = r => at[r] = "ok"
        BY DEF Tracked, Fresh
      <4>3. ~Inserts(r) /\ perm[u].id = found[q]
        BY <1>2, <2>2, <2>7, <4>1, <4>2
      <4> QED
        BY <2>7, <3>2, <4>3 DEF RowIsThere
    <3> QED
      BY <3>1, <3>2
  <2>12. Fate'
    <3>1. SUFFICES ASSUME NEW q \in Requests, found[q] # None
                   PROVE  RowIsThere(q)' \/ Deleted(q)'
      BY <1>2 DEF Fate
    <3>2. CASE Deleted(q)
      <4>1. target'[q] = target[q] /\ found'[q] = found[q]
        BY <1>2
      <4> QED
        BY <1>3, <3>2, <4>1, DeletedStays
    <3>3. CASE RowIsThere(q) /\ target[q] # u
      <4>1. RowIsThere(q)'
        BY <1>2, <2>8, <2>10, <3>1, <3>3 DEF RowIsThere
      <4> QED
        BY <4>1
    <3>4. CASE RowIsThere(q) /\ target[q] = u
      <4>1. perm[u] # None /\ perm[u].id = found[q]
        BY <3>4 DEF RowIsThere
      <4>2. ~Inserts(r) /\ found[r] = found[q]
        BY <2>6, <2>7, <4>1
      <4>3. CASE op[r] = "delete"
        <5>1. op'[r] = "delete" /\ at'[r] = "ok" /\ target'[r] = target'[q] /\ found'[r] = found'[q]
          BY <1>1, <1>2, <2>9, <3>4, <4>2, <4>3
        <5>2. Deleted(q)'
          BY <5>1 DEF Deleted
        <5> QED
          BY <5>2
      <4>4. CASE op[r] # "delete"
        <5>1. RowIsThere(q)'
          BY <1>2, <2>2, <2>4, <3>4, <4>2, <4>4 DEF RowIsThere
        <5> QED
          BY <5>1
      <4> QED
        BY <4>3, <4>4
    <3> QED
      BY <3>1, <3>2, <3>3, <3>4 DEF Tracked, Fate
  <2>13. Alone'
    <3>1. ASSUME NEW q \in Requests, NEW v \in Users, HoldsRow(q, v)' PROVE HoldsRow(q, v)
      <4>1. at[q] = "written" /\ target[q] = v
        BY <1>2, <2>9, <3>1 DEF HoldsRow
      <4>2. Touches(q)
        BY <1>2, <2>11, <3>1 DEF HoldsRow, Touches, Inserts
      <4> QED
        BY <4>1, <4>2 DEF HoldsRow
    <3> QED
      BY <3>1 DEF Alone, Tracked
  <2>14. Free'
    <3>1. SUFFICES ASSUME NEW q \in Requests, at'[q] = "written", Inserts(q)
                   PROVE  perm'[target[q]] = None
      BY <1>2 DEF Free, Inserts
    <3>2. q # r /\ at[q] = "written" /\ target[q] \in Users /\ perm[target[q]] = None
      BY <2>9, <3>1 DEF Tracked, Free, Inv, Flow, FlowOf
    <3>3. target[q] # u
      BY <2>5, <3>1, <3>2 DEF Tracked, Alone, HoldsRow, Touches
    <3> QED
      BY <2>8, <3>2, <3>3
  <2>15. Fresh'
    <3>1. \A q \in Requests : found'[q] \in Requests => at'[found'[q]] = "ok"
      BY <1>2, <2>9 DEF Tracked, Fresh
    <3>2. \A q \in Requests : at'[q] = "idle" => found'[q] = None
      BY <1>2, <2>9 DEF Tracked, Fresh
    <3>3. ASSUME NEW v \in Users, perm'[v] # None, perm'[v].id \in Requests
          PROVE  at'[perm'[v].id] = "ok"
      <4>1. CASE v # u
        BY <2>8, <2>9, <3>3, <4>1 DEF Tracked, Fresh
      <4>2. CASE v = u
        BY <1>2, <2>2, <2>9, <3>1, <3>3, <4>2
      <4> QED
        BY <4>1, <4>2
    <3> QED
      BY <3>1, <3>2, <3>3 DEF Fresh
  <2> QED
    BY <2>12, <2>13, <2>14, <2>15 DEF Tracked
<1> QED
  BY <1>4, <1>5

(* Every step keeps track of the rows that were read.                      *)
LEMMA StepTracked == Inv /\ Tracked /\ [Next]_vars => Tracked'
<1> SUFFICES ASSUME Inv, Tracked, [Next]_vars PROVE Tracked'
  OBVIOUS
<1> USE DEF Inv, TypeOK
<1>1. ASSUME NEW r \in Requests, NEW route, NEW u \in Users, NEW m, Arrive(r, route, u, m)
      PROVE  Tracked'
  <2>1. at'[r] = "arrived" /\ found' = found /\ found[r] = None /\ Only(r) /\ perm' = perm
    BY <1>1 DEF Arrive, Only, Tracked, Fresh, accounts
  <2> QED
    BY <2>1, RowsStand
<1>2. ASSUME NEW r \in Requests, NEW route, NEW u \in Users, NEW m, ArriveById(r, route, u, m)
      PROVE  Tracked'
  <2>1. at'[r] = "arrived" /\ target'[r] = u /\ Only(r) /\ perm' = perm
    BY <1>2 DEF ArriveById, Only, accounts
  <2>2. RowIsThere(r)'
    BY <1>2, <2>1 DEF ArriveById, RowIsThere
  <2> QED
    BY <2>1, <2>2, RowsStand
<1>3. ASSUME NEW r \in Requests, ReadUser(r) PROVE Tracked'
  <2>1. at'[r] \in {"ready", "knows"} /\ found' = found /\ target' = target /\ Only(r) /\ perm' = perm
    BY <1>3 DEF ReadUser, Only, accounts
  <2> QED
    BY <2>1, RowsStand
<1>4. ASSUME NEW r \in Requests, ReadRowByUser(r) PROVE Tracked'
  <2>1. at'[r] \in {"ready", "error"} /\ target' = target /\ Only(r) /\ perm' = perm
    BY <1>4 DEF ReadRowByUser, Only, accounts
  <2>2. found'[r] = None \/ RowIsThere(r)'
    BY <1>4, <2>1 DEF ReadRowByUser, RowIsThere
  <2>3. target[r] \in Users
    BY <1>4 DEF ReadRowByUser, Flow, FlowOf
  <2> QED
    BY <2>1, <2>2, <2>3, RowsStand
<1>5. ASSUME NEW r \in Requests, ReadRowById(r) PROVE Tracked'
  <2>1. at'[r] \in {"ready", "error", "finds"} /\ found' = found /\ target' = target /\ Only(r) /\ perm' = perm
    BY <1>5 DEF ReadRowById, Only, accounts
  <2> QED
    BY <2>1, RowsStand
<1>6. ASSUME NEW r \in Requests, Write(r) PROVE Tracked'
  <2>1. at'[r] = "written" /\ found' = found /\ target' = target /\ Only(r) /\ perm' = perm
    BY <1>6 DEF Write, Only, accounts
  <2>2. /\ Touches(r) => \A q \in Requests : ~HoldsRow(q, target[r])
        /\ Inserts(r) => perm[target[r]] = None
    BY <1>6 DEF Write
  <2> QED
    BY <2>1, <2>2, RowsStand
<1>7. ASSUME NEW r \in Requests, Abort(r) PROVE Tracked'
  <2>1. at'[r] = "error" /\ found' = found /\ target' = target /\ Only(r) /\ perm' = perm
    BY <1>7 DEF Abort, Only, accounts
  <2> QED
    BY <2>1, RowsStand
<1>8. CASE UNCHANGED vars
  <2>1. op' = op /\ at' = at /\ target' = target /\ found' = found /\ perm' = perm
    BY <1>8 DEF vars
  <2> QED
    BY <2>1 DEF Tracked, Fate, Alone, Free, Fresh, Deleted, HoldsRow, Touches, Inserts, RowIsThere
<1> QED
  BY <1>1, <1>2, <1>3, <1>4, <1>5, <1>6, <1>7, <1>8, AccountsTracked, CommitTracked
  DEF Next, Handle, SaveByUser, SaveById, CreateRow, DeleteRow

(* A save that is answered with success is in the row, unless a deletion   *)
(* of the row it had read was answered before: UpdateByUserID and Update   *)
(* of usecase/permission.go lose no save to each other, to a creation or   *)
(* to the unique index.                                                    *)
THEOREM SaveTheorem == Spec => SaveIsStored
<1>1. Init => Tracked
  BY PermissionsAssumption DEF PermissionsAssumption, Init, Tracked, Fate, Alone, Free, Fresh, HoldsRow
<1>2. ASSUME Inv, Tracked, [Next]_vars, NEW r \in Requests, op[r] \in Saves,
             at[r] = "written", at'[r] = "ok"
      PROVE  \/ perm'[target[r]] # None /\ Granted(perm'[target[r]].matrix) = Granted(input[r])
             \/ Deleted(r)
  <2>1. Commit(r)
    <3>1. ASSUME NEW q \in Requests, Handle(q)
          PROVE  Commit(q) \/ \E x \in {"arrived", "knows", "finds", "ready", "written", "error"} :
                                at' = [at EXCEPT ![q] = x]
      <4>1. CASE SaveByUser(q) \/ SaveById(q) \/ CreateRow(q) \/ DeleteRow(q)
        BY <4>1 DEF SaveByUser, SaveById, CreateRow, DeleteRow, Arrive, ArriveById
      <4>2. CASE ReadUser(q) \/ ReadRowByUser(q) \/ ReadRowById(q)
        BY <4>2 DEF ReadUser, ReadRowByUser, ReadRowById
      <4>3. CASE Write(q) \/ Abort(q)
        BY <4>3 DEF Write, Abort
      <4> QED
        BY <3>1, <4>1, <4>2, <4>3 DEF Handle
    <3>2. ASSUME NEW q \in Requests, Handle(q) PROVE Commit(r)
      <4>1. CASE Commit(q)
        BY <1>2, <4>1 DEF Commit, Inv, TypeOK
      <4>2. CASE \E x \in {"arrived", "knows", "finds", "ready", "written", "error"} :
                   at' = [at EXCEPT ![q] = x]
        BY <1>2, <4>2 DEF Inv, TypeOK
      <4> QED
        BY <3>1, <3>2, <4>1, <4>2
    <3>3. ASSUME NEW u \in Users, Login(u) \/ \E ro \in Roles : CreateUser(u, ro) \/ SetRole(u, ro)
          PROVE  at' = at
      BY <3>3 DEF Login, CreateUser, SetRole, handler
    <3> QED
      BY <1>2, <3>2, <3>3 DEF Next, vars
  <2>2. PICK u \in Users : u = target[r]
    BY <1>2 DEF Inv, Flow, FlowOf
  <2>3. CASE Touches(r)
    <3>1. perm' = [perm EXCEPT ![u] = Written(r)]
      BY <2>1, <2>2, <2>3 DEF Commit
    <3>2. perm'[u] = Written(r)
      BY <1>2, <3>1 DEF Inv, TypeOK
    <3>3. Written(r) # None /\ Written(r).matrix = Cleaned(input[r], known[r])
      BY <1>2, WrittenIsRow, PermissionsAssumption DEF PermissionsAssumption, Inv
    <3>4. Granted(Cleaned(input[r], known[r])) = Granted(input[r])
      BY DEF Granted, Cleaned, FilterValid, Pairs
    <3> QED
      BY <2>2, <3>2, <3>3, <3>4
  <2>4. CASE ~Touches(r)
    BY <1>2, <2>4 DEF Touches, Inserts, Tracked, Fate
  <2> QED
    BY <2>3, <2>4
<1>3. Inv /\ Tracked /\ [Next]_vars => [SaveKept]_vars
  BY <1>2 DEF SaveKept, Saves, Deleted
<1> QED
  BY <1>1, <1>3, Invariance, StepTracked, PTL DEF Spec, SaveIsStored

=============================================================================

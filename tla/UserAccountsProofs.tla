------------------------- MODULE UserAccountsProofs -------------------------
(***************************************************************************)
(* Proofs about UserAccounts, for every set of accounts, of requests and   *)
(* of handlers.                                                            *)
(*                                                                         *)
(* Shape says what the position of a handler implies of its variables: a   *)
(* handler that is about to write has a target and a row, the statements   *)
(* of a transaction belong to a handler that runs one, a request that was  *)
(* not sent has written nothing.  TypeOK is inductive together with it.    *)
(***************************************************************************)
EXTENDS UserAccounts, TLAPS

(* Positions at which a handler holds the row it has read. *)
InFlight == {"loaded", "uploaded", "stored", "cleared", "audited"}

Shape ==
  \A r \in Requests :
    /\ at[r] = "idle" => op[r] = "none" /\ \A u \in Users : <<r, u>> \notin written
    /\ at[r] \in InFlight => target[r] \in Users /\ entity[r] \in Row
    /\ at[r] = "loaded" => op[r] \in TxRoutes \cup PlainRoutes
    /\ at[r] \in {"stored", "cleared", "audited"} => op[r] \in TxRoutes
    /\ at[r] = "uploaded" => op[r] = "upload"
    /\ at[r] = "saved" => /\ op[r] \in PlainRoutes
                          /\ target[r] \in Users
                          /\ <<r, target[r]>> \in written
    /\ at[r] = "batch" => op[r] \in BulkRoutes

(***************************************************************************)
(* Lemmas about the data.                                                  *)
(***************************************************************************)

(* Every change a handler makes to the row it has read gives a row.        *)
LEMMA RowChanges ==
  ASSUME NEW row \in Row
  PROVE  /\ \A x \in Roles : [row EXCEPT !.role = x] \in Row
         /\ \A x \in {"active", "locked"} : [row EXCEPT !.status = x] \in Row
         /\ \A p \in Passwords : [row EXCEPT !.password = p] \in Row
         /\ \A p \in Passwords, b \in BOOLEAN :
              [row EXCEPT !.password = p, !.force = b] \in Row
         /\ \A p \in Passwords, x \in Avatar :
              [row EXCEPT !.password = p, !.avatar = x] \in Row
         /\ \A x \in Avatar : [row EXCEPT !.avatar = x] \in Row
         /\ [row EXCEPT !.deleted = TRUE] \in Row
BY DEF Row

(* A change of one entry of a table of tables keeps its type.              *)
LEMMA NestedChange ==
  ASSUME NEW A, NEW B, NEW S, NEW t \in [A -> [B -> S]],
         NEW a \in A, NEW b \in B, NEW x \in S
  PROVE  [t EXCEPT ![a][b] = x] \in [A -> [B -> S]]
<1>1. t[a] \in [B -> S]
  OBVIOUS
<1>2. [t[a] EXCEPT ![b] = x] \in [B -> S]
  BY <1>1
<1>3. [t EXCEPT ![a] = [t[a] EXCEPT ![b] = x]] \in [A -> [B -> S]]
  BY <1>2
<1> QED
  BY <1>3

(* The entries of the changed table: the new value, and the old ones.      *)
LEMMA NestedValue ==
  ASSUME NEW A, NEW B, NEW S, NEW t \in [A -> [B -> S]],
         NEW a \in A, NEW b \in B, NEW x
  PROVE  \A c \in A, d \in B :
           [t EXCEPT ![a][b] = x][c][d] = IF c = a /\ d = b THEN x ELSE t[c][d]
<1> TAKE c \in A, d \in B
<1>1. t[a] \in [B -> S]
  OBVIOUS
<1>2. [t EXCEPT ![a] = [t[a] EXCEPT ![b] = x]][c]
        = IF c = a THEN [t[a] EXCEPT ![b] = x] ELSE t[c]
  OBVIOUS
<1> QED
  BY <1>1, <1>2

(* A bulk action notes the outcome for its target and for nothing else.    *)
LEMMA BulkConcludes ==
  ASSUME TypeOK, NEW r \in Requests, op[r] \in BulkRoutes, target[r] \in Users,
         NEW outcome, Conclude(r, outcome)
  PROVE  /\ \A q \in Requests, u \in Users :
              tally'[q][u] = IF q = r /\ u = target[r]
                             THEN IF outcome = "ok" THEN "ok" ELSE "failed"
                             ELSE tally[q][u]
         /\ at' = [at EXCEPT ![r] = "batch"]
         /\ target' = [target EXCEPT ![r] = None]
<1>1. tally \in [Requests -> [Users -> Marks]]
  BY DEF TypeOK
<1> QED
  BY <1>1, NestedValue DEF Conclude

(***************************************************************************)
(* The steps that several handlers share.                                  *)
(***************************************************************************)

(* Every handler with one target keeps the types when it has read its row. *)
LEMMA LoadKeepsType ==
  ASSUME TypeOK, NEW r \in Requests, NEW route, NEW u \in Users, NEW row \in Row,
         Load(r, route, u, row), key' \in [Requests -> Requests \cup {None}]
  PROVE  TypeOK'
<1>1. /\ op' \in [Requests -> Routes \cup {"none"}]
      /\ at' \in [Requests -> Steps]
      /\ target' \in [Requests -> Users \cup {None}]
      /\ entity' \in [Requests -> Row \cup {None}]
  BY DEF Load, TypeOK, Steps
<1>2. /\ rows' = rows /\ reset' = reset /\ audit' = audit /\ expired' = expired
      /\ objects' = objects /\ tally' = tally /\ written' = written /\ stale' = stale
  BY DEF Load, database, history
<1> QED
  BY <1>1, <1>2 DEF TypeOK

(* The read of a row gives the handler a target and a row.                 *)
LEMMA LoadKeepsShape ==
  ASSUME TypeOK, Shape, NEW r \in Requests, NEW route \in TxRoutes \cup PlainRoutes,
         NEW u \in Users, NEW row \in Row, Load(r, route, u, row)
  PROVE  Shape'
BY DEF Load, TypeOK, Shape, InFlight, history, TxRoutes, PlainRoutes, BulkRoutes

(* The outcome of a transaction is noted in variables of the right type.   *)
LEMMA ConcludeKeepsType ==
  ASSUME TypeOK, NEW r \in Requests, target[r] \in Users,
         NEW outcome \in Finished, Conclude(r, outcome)
  PROVE  /\ at' \in [Requests -> Steps]
         /\ tally' \in [Requests -> [Users -> Marks]]
         /\ target' \in [Requests -> Users \cup {None}]
<1>1. tally \in [Requests -> [Users -> Marks]]
  BY DEF TypeOK
<1>2. CASE op[r] \in BulkRoutes
  <2> DEFINE mark == IF outcome = "ok" THEN "ok" ELSE "failed"
  <2>1. mark \in Marks
    BY DEF Marks
  <2>2. tally' = [tally EXCEPT ![r][target[r]] = mark]
    BY <1>2 DEF Conclude
  <2> HIDE DEF mark
  <2>3. tally' \in [Requests -> [Users -> Marks]]
    BY <1>1, <2>1, <2>2, NestedChange
  <2>4. at' \in [Requests -> Steps]
    BY <1>2 DEF TypeOK, Conclude, Steps
  <2>5. target' \in [Requests -> Users \cup {None}]
    BY <1>2 DEF TypeOK, Conclude
  <2> QED
    BY <2>3, <2>4, <2>5
<1>3. CASE op[r] \notin BulkRoutes
  BY <1>3 DEF TypeOK, Conclude, Finished, Steps
<1> QED
  BY <1>2, <1>3

(***************************************************************************)
(* TypeOK and Shape: one lemma per group of actions.                       *)
(***************************************************************************)

(* The rows the handlers find are rows.                                    *)
LEMMA RowsAreRows ==
  ASSUME TypeOK, NEW u \in Users
  PROVE  rows[u] \in Row /\ rows[u].role \in Roles /\ rows[u].avatar \in Avatar
BY DEF TypeOK, Row

(* What the handlers with one target have in common when they have read    *)
(* their row: which of them change the force flag, the avatar, the key.    *)
Reads(r, route, u, row) ==
  /\ route \in (TxRoutes \ BulkRoutes) \cup PlainRoutes
  /\ row \in Row
  /\ Load(r, route, u, row)
  /\ route \notin {"changePassword", "redeem"} => row.force = rows[u].force
  /\ IF route = "upload" THEN row.avatar = r
                         ELSE row.avatar \in {External, rows[u].avatar}
  /\ IF route = "redeem"
     THEN \E k \in Requests : /\ op[k] = "forgot" /\ at[k] = "ok"
                              /\ reset[u] = k
                              /\ key' = [key EXCEPT ![r] = k]
     ELSE key' = key

(* A request that is sent reads a row so, or writes nothing.               *)
LEMMA ArriveReads ==
  ASSUME TypeOK, NEW r \in Requests, Arrive(r)
  PROVE  \/ \E route \in TxRoutes \cup PlainRoutes, u \in Users, row \in Row :
               Reads(r, route, u, row)
         \/ ForgotSilently(r) \/ StartBulk(r) \/ Refuse(r)
<1>1. CASE Update(r)
  <2>1. PICK u \in Users, role \in Roles :
          Load(r, "update", u, [rows[u] EXCEPT !.role = role])
    BY <1>1, RowsAreRows, UserAccountsAssumption DEF Update, UserAccountsAssumption
  <2> DEFINE row == [rows[u] EXCEPT !.role = role]
  <2>2. row \in Row
    BY <2>1, RowsAreRows, RowChanges
  <2>3. row.avatar \in {External, rows[u].avatar} /\ row.force = rows[u].force
    BY RowsAreRows DEF Row
  <2>4. Load(r, "update", u, row) /\ key' = key
    BY <1>1, <2>1 DEF Update
  <2> HIDE DEF row
  <2>5. Reads(r, "update", u, row)
    BY <2>2, <2>3, <2>4 DEF Reads, TxRoutes, PlainRoutes, BulkRoutes
  <2> QED
    BY <2>2, <2>5 DEF Reads
<1>2. CASE AdminReset(r)
  <2>1. PICK u \in Users, p \in Passwords :
          Load(r, "adminReset", u, [rows[u] EXCEPT !.password = p])
    BY <1>2 DEF AdminReset
  <2> DEFINE row == [rows[u] EXCEPT !.password = p]
  <2>2. row \in Row
    BY <2>1, RowsAreRows, RowChanges
  <2>3. row.avatar \in {External, rows[u].avatar} /\ row.force = rows[u].force
    BY RowsAreRows DEF Row
  <2>4. Load(r, "adminReset", u, row) /\ key' = key
    BY <1>2, <2>1 DEF AdminReset
  <2> HIDE DEF row
  <2>5. Reads(r, "adminReset", u, row)
    BY <2>2, <2>3, <2>4 DEF Reads, TxRoutes, PlainRoutes, BulkRoutes
  <2> QED
    BY <2>2, <2>5 DEF Reads
<1>3. CASE ToggleStatus(r)
  <2>1. PICK u \in Users, s \in {"active", "locked"} :
          Load(r, "toggle", u, [rows[u] EXCEPT !.status = s])
    BY <1>3 DEF ToggleStatus
  <2> DEFINE row == [rows[u] EXCEPT !.status = s]
  <2>2. row \in Row
    BY <2>1, RowsAreRows, RowChanges
  <2>3. row.avatar \in {External, rows[u].avatar} /\ row.force = rows[u].force
    BY RowsAreRows DEF Row
  <2>4. Load(r, "toggle", u, row) /\ key' = key
    BY <1>3, <2>1 DEF ToggleStatus
  <2> HIDE DEF row
  <2>5. Reads(r, "toggle", u, row)
    BY <2>2, <2>3, <2>4 DEF Reads, TxRoutes, PlainRoutes, BulkRoutes
  <2> QED
    BY <2>2, <2>5 DEF Reads
<1>4. CASE UpdateProfile(r)
  <2>1. PICK u \in Users, p \in Passwords, url \in Avatar :
          /\ url \in {External, rows[u].avatar}
          /\ Load(r, "profile", u, [rows[u] EXCEPT !.password = p, !.avatar = url])
    BY <1>4, RowsAreRows DEF UpdateProfile, Avatar
  <2> DEFINE row == [rows[u] EXCEPT !.password = p, !.avatar = url]
  <2>r. rows[u] \in Row
    BY RowsAreRows
  <2>2. row \in Row
    BY <2>r, RowChanges
  <2>3. row.avatar \in {External, rows[u].avatar} /\ row.force = rows[u].force
    BY <2>1, <2>r DEF Row
  <2>4. Load(r, "profile", u, row) /\ key' = key
    BY <1>4, <2>1 DEF UpdateProfile
  <2> HIDE DEF row
  <2>5. Reads(r, "profile", u, row)
    BY <2>2, <2>3, <2>4 DEF Reads, TxRoutes, PlainRoutes, BulkRoutes
  <2> QED
    BY <2>2, <2>5 DEF Reads
<1>5. CASE ChangePassword(r)
  <2>1. PICK u \in Users, p \in Passwords :
          Load(r, "changePassword", u, [rows[u] EXCEPT !.password = p, !.force = FALSE])
    BY <1>5 DEF ChangePassword
  <2> DEFINE row == [rows[u] EXCEPT !.password = p, !.force = FALSE]
  <2>2. row \in Row
    BY <2>1, RowsAreRows, RowChanges
  <2>3. row.avatar \in {External, rows[u].avatar}
    BY RowsAreRows DEF Row
  <2>4. Load(r, "changePassword", u, row) /\ key' = key
    BY <1>5, <2>1 DEF ChangePassword
  <2> HIDE DEF row
  <2>5. Reads(r, "changePassword", u, row)
    BY <2>2, <2>3, <2>4 DEF Reads, TxRoutes, PlainRoutes, BulkRoutes
  <2> QED
    BY <2>2, <2>5 DEF Reads
<1>6. CASE Forgot(r)
  <2>1. PICK u \in Users :
          Load(r, "forgot", u, rows[u])
    BY <1>6 DEF Forgot
  <2> DEFINE row == rows[u]
  <2>2. row \in Row
    BY <2>1, RowsAreRows, RowChanges
  <2>3. row.avatar \in {External, rows[u].avatar} /\ row.force = rows[u].force
    BY RowsAreRows DEF Row
  <2>4. Load(r, "forgot", u, row) /\ key' = key
    BY <1>6, <2>1 DEF Forgot
  <2> HIDE DEF row
  <2>5. Reads(r, "forgot", u, row)
    BY <2>2, <2>3, <2>4 DEF Reads, TxRoutes, PlainRoutes, BulkRoutes
  <2> QED
    BY <2>2, <2>5 DEF Reads
<1>7. CASE Upload(r)
  <2>1. PICK u \in Users :
          Load(r, "upload", u, [rows[u] EXCEPT !.avatar = r])
    BY <1>7 DEF Upload
  <2> DEFINE row == [rows[u] EXCEPT !.avatar = r]
  <2>2. row \in Row
    BY <2>1, RowsAreRows, RowChanges DEF Avatar
  <2>3. row.avatar = r /\ row.force = rows[u].force
    BY RowsAreRows DEF Row
  <2>4. Load(r, "upload", u, row) /\ key' = key
    BY <1>7, <2>1 DEF Upload
  <2> HIDE DEF row
  <2>5. Reads(r, "upload", u, row)
    BY <2>2, <2>3, <2>4 DEF Reads, TxRoutes, PlainRoutes, BulkRoutes
  <2> QED
    BY <2>2, <2>5 DEF Reads
<1>8. CASE Redeem(r)
  <2>1. PICK u \in Users, k \in Requests, p \in Passwords :
          /\ op[k] = "forgot" /\ at[k] = "ok"
          /\ reset[u] = k
          /\ Load(r, "redeem", u, [rows[u] EXCEPT !.password = p, !.force = FALSE])
          /\ key' = [key EXCEPT ![r] = k]
    BY <1>8 DEF Redeem, Matches
  <2> DEFINE row == [rows[u] EXCEPT !.password = p, !.force = FALSE]
  <2>2. row \in Row
    BY RowsAreRows, RowChanges
  <2>3. row.avatar \in {External, rows[u].avatar}
    BY RowsAreRows DEF Row
  <2>4. Load(r, "redeem", u, row)
    BY <2>1
  <2> HIDE DEF row
  <2>5. Reads(r, "redeem", u, row)
    BY <2>1, <2>2, <2>3, <2>4 DEF Reads, TxRoutes, BulkRoutes
  <2> QED
    BY <2>2, <2>5 DEF Reads
<1> QED
  BY <1>1, <1>2, <1>3, <1>4, <1>5, <1>6, <1>7, <1>8 DEF Arrive

(* The first step of a request keeps the types.                            *)
LEMMA ArriveKeepsType ==
  ASSUME TypeOK, NEW r \in Requests, Arrive(r)
  PROVE  TypeOK'
<1>1. ASSUME NEW route, NEW u \in Users, NEW row \in Row, Reads(r, route, u, row)
      PROVE  TypeOK'
  <2>1. key' \in [Requests -> Requests \cup {None}]
    BY <1>1 DEF Reads, TypeOK
  <2> QED
    BY <1>1, <2>1, LoadKeepsType DEF Reads
<1>2. CASE ForgotSilently(r)
  BY <1>2 DEF ForgotSilently, TypeOK, database, history, Steps
<1>3. CASE StartBulk(r)
  <2>1. PICK route \in BulkRoutes \cap Routes, ids \in SUBSET Users, caller \in Users :
          /\ op' = [op EXCEPT ![r] = route]
          /\ tally' = [tally EXCEPT ![r] =
                         [u \in Users |-> CASE u \notin ids -> "out"
                                            [] u = caller   -> "failed"
                                            [] OTHER        -> "pending"]]
    BY <1>3 DEF StartBulk
  <2>2. tally' \in [Requests -> [Users -> Marks]]
    BY <2>1 DEF TypeOK, Marks
  <2>3. op' \in [Requests -> Routes \cup {"none"}]
    BY <2>1 DEF TypeOK
  <2>4. at' \in [Requests -> Steps]
    BY <1>3 DEF StartBulk, TypeOK, Steps
  <2> QED
    BY <1>3, <2>2, <2>3, <2>4 DEF StartBulk, TypeOK, database, history
<1>4. CASE Refuse(r)
  BY <1>4 DEF Refuse, TypeOK, database, history, Steps
<1> QED
  BY <1>1, <1>2, <1>3, <1>4, ArriveReads

(* A step of a request under way keeps the types.                          *)
LEMMA ProceedKeepsType ==
  ASSUME TypeOK, Shape, NEW r \in Requests, Proceed(r)
  PROVE  TypeOK'
<1>1. CASE BulkSkip(r)
  <2>1. PICK u \in Users : tally' = [tally EXCEPT ![r][u] = "failed"]
    BY <1>1 DEF BulkSkip
  <2>2. tally' \in [Requests -> [Users -> Marks]]
    <3>1. tally \in [Requests -> [Users -> Marks]] /\ "failed" \in Marks
      BY DEF TypeOK, Marks
    <3> QED
      BY <2>1, <3>1, NestedChange
  <2> QED
    BY <1>1, <2>2 DEF BulkSkip, TypeOK, database, history
<1>2. CASE BulkLoad(r)
  <2>1. PICK u \in Users : /\ target' = [target EXCEPT ![r] = u]
                           /\ entity' = [entity EXCEPT ![r] = BulkEntity(op[r], rows[u])]
    BY <1>2 DEF BulkLoad
  <2>2. op[r] \in BulkRoutes
    BY <1>2 DEF BulkLoad, Shape
  <2>3. BulkEntity(op[r], rows[u]) \in Row
    BY <2>2, RowsAreRows, RowChanges DEF BulkEntity, BulkRoutes
  <2>4. target' \in [Requests -> Users \cup {None}] /\ entity' \in [Requests -> Row \cup {None}]
    BY <2>1, <2>3 DEF TypeOK
  <2>5. at' \in [Requests -> Steps]
    BY <1>2 DEF BulkLoad, TypeOK, Steps
  <2> QED
    BY <1>2, <2>4, <2>5 DEF BulkLoad, TypeOK, database, history
<1>3. CASE BulkReply(r)
  BY <1>3 DEF BulkReply, TypeOK, Steps, database, history
<1>4. CASE StoreRow(r)
  BY <1>4 DEF StoreRow, TypeOK, Steps, database, history
<1>5. CASE ClearResetToken(r)
  BY <1>5 DEF ClearResetToken, TypeOK, Steps, database, history
<1>6. CASE WriteAudit(r)
  BY <1>6 DEF WriteAudit, TypeOK, Steps, database, history
<1>7. CASE Commit(r)
  <2>1. target[r] \in Users /\ entity[r] \in Row
    BY <1>7 DEF Commit, Shape, InFlight
  <2>2. PICK outcome \in Finished : Conclude(r, outcome)
    BY <1>7 DEF Commit
  <2>3. /\ at' \in [Requests -> Steps]
        /\ tally' \in [Requests -> [Users -> Marks]]
        /\ target' \in [Requests -> Users \cup {None}]
    BY <2>1, <2>2, ConcludeKeepsType
  <2>4. StoredRow(r) \in Row
    BY <2>1, RowsAreRows, RowChanges DEF StoredRow
  <2>5. rows' \in [Users -> Row]
    BY <1>7, <2>4 DEF Commit, TypeOK
  <2>6. reset' \in [Users -> Requests \cup {None}]
    BY <1>7 DEF Commit, TypeOK
  <2>7. entity' \in [Requests -> Row \cup {None}]
    BY <1>7 DEF Commit, TypeOK
  <2>8. audit' \subseteq Requests \X Users /\ written' \subseteq Requests \X Users
    BY <1>7, <2>1 DEF Commit, TypeOK
  <2>9. stale' \subseteq Requests
    BY <1>7 DEF Commit, Outdates, Readers, TypeOK
  <2>10. expired' = expired /\ objects' = objects /\ op' = op /\ key' = key
    BY <1>7 DEF Commit
  <2> QED
    BY <2>3, <2>5, <2>6, <2>7, <2>8, <2>9, <2>10 DEF TypeOK
<1>8. CASE PutObject(r)
  BY <1>8 DEF PutObject, TypeOK, Steps, database, history
<1>9. CASE SaveAvatar(r)
  <2>1. target[r] \in Users /\ entity[r] \in Row
    BY <1>9 DEF SaveAvatar, Shape, InFlight
  <2>2. rows' \in [Users -> Row]
    BY <1>9, <2>1 DEF SaveAvatar, TypeOK
  <2>3. stale' \subseteq Requests
    BY <1>9 DEF SaveAvatar, Outdates, Readers, TypeOK
  <2>4. at' \in [Requests -> Steps] /\ entity' \in [Requests -> Row \cup {None}]
    BY <1>9 DEF SaveAvatar, TypeOK, Steps
  <2> QED
    BY <1>9, <2>1, <2>2, <2>3, <2>4 DEF SaveAvatar, TypeOK
<1>10. CASE SaveResetToken(r)
  <2>1. target[r] \in Users
    BY <1>10 DEF SaveResetToken, Shape, InFlight
  <2> QED
    BY <1>10, <2>1 DEF SaveResetToken, TypeOK, Steps
<1>11. CASE ReplySaved(r)
  <2>1. target[r] \in Users
    BY <1>11 DEF ReplySaved, Shape
  <2> QED
    BY <1>11, <2>1 DEF ReplySaved, TypeOK, Steps, history
<1> QED
  BY <1>1, <1>2, <1>3, <1>4, <1>5, <1>6, <1>7, <1>8, <1>9, <1>10, <1>11 DEF Proceed

(* A rollback, or a handler that gives up, keeps the types.                *)
LEMMA FailKeepsType ==
  ASSUME TypeOK, Shape, NEW r \in Requests, Fail(r)
  PROVE  TypeOK'
<1>1. CASE Rollback(r)
  <2>1. target[r] \in Users
    BY <1>1 DEF Rollback, Shape, InFlight
  <2>2. /\ at' \in [Requests -> Steps]
        /\ tally' \in [Requests -> [Users -> Marks]]
        /\ target' \in [Requests -> Users \cup {None}]
    BY <1>1, <2>1, ConcludeKeepsType DEF Rollback, Finished
  <2> QED
    BY <1>1, <2>2 DEF Rollback, TypeOK, database
<1>2. CASE GiveUp(r)
  BY <1>2 DEF GiveUp, TypeOK, Steps, database
<1> QED
  BY <1>1, <1>2 DEF Fail

(* The first step of a request keeps the shape.                            *)
LEMMA ArriveKeepsShape ==
  ASSUME TypeOK, Shape, NEW r \in Requests, Arrive(r)
  PROVE  Shape'
<1>1. ASSUME NEW route, NEW u \in Users, NEW row \in Row, Reads(r, route, u, row)
      PROVE  Shape'
  BY <1>1, LoadKeepsShape DEF Reads
<1>2. CASE ForgotSilently(r)
  BY <1>2 DEF ForgotSilently, Shape, TypeOK, InFlight, history
<1>3. CASE StartBulk(r)
  BY <1>3 DEF StartBulk, Shape, TypeOK, InFlight, history
<1>4. CASE Refuse(r)
  BY <1>4 DEF Refuse, Shape, TypeOK, InFlight, history
<1> QED
  BY <1>1, <1>2, <1>3, <1>4, ArriveReads

(* A step of a request under way keeps the shape.                          *)
LEMMA ProceedKeepsShape ==
  ASSUME TypeOK, Shape, NEW r \in Requests, Proceed(r)
  PROVE  Shape'
<1> USE DEF Shape, TypeOK, InFlight
<1>1. CASE BulkSkip(r)
  BY <1>1 DEF BulkSkip, database, history
<1>2. CASE BulkLoad(r)
  <2>1. PICK u \in Users : /\ target' = [target EXCEPT ![r] = u]
                           /\ entity' = [entity EXCEPT ![r] = BulkEntity(op[r], rows[u])]
    BY <1>2 DEF BulkLoad
  <2>2. op[r] \in BulkRoutes
    BY <1>2 DEF BulkLoad
  <2>3. BulkEntity(op[r], rows[u]) \in Row
    BY <2>2, RowsAreRows, RowChanges DEF BulkEntity, BulkRoutes
  <2> QED
    BY <1>2, <2>1, <2>2, <2>3 DEF BulkLoad, history, TxRoutes
<1>3. CASE BulkReply(r)
  BY <1>3 DEF BulkReply, history
<1>4. CASE StoreRow(r)
  BY <1>4 DEF StoreRow, history
<1>5. CASE ClearResetToken(r)
  BY <1>5 DEF ClearResetToken, history, TxRoutes
<1>6. CASE WriteAudit(r)
  BY <1>6 DEF WriteAudit, history
<1>7. CASE Commit(r)
  BY <1>7 DEF Commit, Conclude, Finished, TxRoutes, PlainRoutes, BulkRoutes
<1>8. CASE PutObject(r)
  BY <1>8 DEF PutObject, history
<1>9. CASE SaveAvatar(r)
  BY <1>9 DEF SaveAvatar, PlainRoutes
<1>10. CASE SaveResetToken(r)
  BY <1>10 DEF SaveResetToken, PlainRoutes
<1>11. CASE ReplySaved(r)
  BY <1>11 DEF ReplySaved, history
<1> QED
  BY <1>1, <1>2, <1>3, <1>4, <1>5, <1>6, <1>7, <1>8, <1>9, <1>10, <1>11 DEF Proceed

(* A rollback, or a handler that gives up, keeps the shape.                *)
LEMMA FailKeepsShape ==
  ASSUME TypeOK, Shape, NEW r \in Requests, Fail(r)
  PROVE  Shape'
<1>1. CASE Rollback(r)
  BY <1>1 DEF Rollback, Conclude, Shape, TypeOK, InFlight, TxRoutes, PlainRoutes, BulkRoutes
<1>2. CASE GiveUp(r)
  BY <1>2 DEF GiveUp, Shape, TypeOK, InFlight
<1> QED
  BY <1>1, <1>2 DEF Fail

(* The seeded accounts, with no request sent.                              *)
LEMMA InitKeeps == Init => TypeOK /\ Shape
<1> SUFFICES ASSUME Init PROVE TypeOK /\ Shape
  OBVIOUS
<1>1. TypeOK
  BY UserAccountsAssumption
  DEF UserAccountsAssumption, Init, TypeOK, Row, Roles, Avatar, Steps, Marks
<1>2. Shape
  BY DEF Init, Shape, InFlight
<1> QED
  BY <1>1, <1>2

(* A reset token that expires changes nothing else.                        *)
LEMMA ExpireKeeps ==
  ASSUME TypeOK, Shape, Expire
  PROVE  TypeOK' /\ Shape'
<1>1. PICK u \in Users : reset[u] # None /\ expired' = expired \cup {reset[u]}
  BY DEF Expire
<1>2. TypeOK'
  BY <1>1 DEF Expire, TypeOK, database, handler, history
<1>3. Shape'
  BY DEF Expire, Shape, InFlight, handler, history
<1> QED
  BY <1>2, <1>3

(* A step that changes nothing.                                            *)
LEMMA StutterKeeps ==
  ASSUME TypeOK, Shape, UNCHANGED vars
  PROVE  TypeOK' /\ Shape'
BY DEF vars, TypeOK, Shape, InFlight

(* TypeOK and Shape are inductive together.                                *)
LEMMA StepKeeps ==
  ASSUME TypeOK, Shape, [Next]_vars
  PROVE  TypeOK' /\ Shape'
<1>1. ASSUME NEW r \in Requests, Arrive(r) PROVE TypeOK' /\ Shape'
  BY <1>1, ArriveKeepsType, ArriveKeepsShape
<1>2. ASSUME NEW r \in Requests, Proceed(r) PROVE TypeOK' /\ Shape'
  BY <1>2, ProceedKeepsType, ProceedKeepsShape
<1>3. ASSUME NEW r \in Requests, Fail(r) PROVE TypeOK' /\ Shape'
  BY <1>3, FailKeepsType, FailKeepsShape
<1> QED
  BY <1>1, <1>2, <1>3, ExpireKeeps, StutterKeeps DEF Next

(* Every variable keeps its type, and the position of a handler tells what *)
(* it holds, whatever the interleaving of requests, failures and expiries. *)
THEOREM TypesHold == Spec => [](TypeOK /\ Shape)
BY InitKeeps, StepKeeps, PTL DEF Spec

(* Column for column: the committed and in-flight state of the handlers of *)
(* user.go and auth.go stays within its type.                              *)
THEOREM TypeCorrect == Spec => []TypeOK
BY TypesHold, PTL

(***************************************************************************)
(* What is committed, audited and answered.                                *)
(***************************************************************************)

(* A handler that reads its row, or does anything but commit, leaves the   *)
(* audit log and the history of commits alone; only a request that is      *)
(* sent changes its handler.                                               *)
Quiet(r) ==
  /\ audit' = audit /\ written' = written
  /\ \A q \in Requests \ {r} : op'[q] = op[q]
  /\ op'[r] = op[r] \/ at[r] = "idle"

(* The first step of a request writes neither rows nor audit rows.         *)
LEMMA ArriveQuiet ==
  ASSUME TypeOK, NEW r \in Requests, Arrive(r)
  PROVE  Quiet(r)
<1>1. ASSUME NEW route, NEW u, NEW row, Reads(r, route, u, row)
      PROVE  Quiet(r)
  BY <1>1 DEF Reads, Load, Quiet, database, history, TypeOK
<1>2. CASE ForgotSilently(r)
  BY <1>2 DEF ForgotSilently, Quiet, database, history, TypeOK
<1>3. CASE StartBulk(r)
  BY <1>3 DEF StartBulk, Quiet, database, history, TypeOK
<1>4. CASE Refuse(r)
  BY <1>4 DEF Refuse, Quiet, database, history, TypeOK
<1> QED
  BY <1>1, <1>2, <1>3, <1>4, ArriveReads

(* The steps that write rows or audit rows are four; the others are quiet. *)
LEMMA ProceedQuiet ==
  ASSUME TypeOK, Shape, NEW r \in Requests, Proceed(r)
  PROVE  Commit(r) \/ SaveAvatar(r) \/ SaveResetToken(r) \/ ReplySaved(r) \/ Quiet(r)
<1>1. CASE BulkSkip(r)
  BY <1>1 DEF BulkSkip, Quiet, database, history
<1>2. CASE BulkLoad(r)
  BY <1>2 DEF BulkLoad, Quiet, database, history
<1>3. CASE BulkReply(r)
  BY <1>3 DEF BulkReply, Quiet, database, history
<1>4. CASE StoreRow(r)
  BY <1>4 DEF StoreRow, Quiet, database, history
<1>5. CASE ClearResetToken(r)
  BY <1>5 DEF ClearResetToken, Quiet, database, history
<1>6. CASE WriteAudit(r)
  BY <1>6 DEF WriteAudit, Quiet, database, history
<1>7. CASE PutObject(r)
  BY <1>7 DEF PutObject, Quiet, database, history
<1> QED
  BY <1>1, <1>2, <1>3, <1>4, <1>5, <1>6, <1>7 DEF Proceed

(* A failed transaction leaves nothing in the database.                    *)
LEMMA FailQuiet ==
  ASSUME NEW r \in Requests, Fail(r)
  PROVE  Quiet(r)
BY DEF Fail, Rollback, GiveUp, Quiet, database, history

(* A step that writes nothing keeps audit rows and commits in step.        *)
LEMMA QuietKeepsAudit ==
  ASSUME Shape, AuditMatchesCommits, NEW r \in Requests, Quiet(r)
  PROVE  AuditMatchesCommits'
BY DEF Quiet, Shape, AuditMatchesCommits

(* Commit writes the change and its audit row in one step; ReplySaved      *)
(* audits a write that is committed.                                       *)
LEMMA AuditStep ==
  ASSUME TypeOK, Shape, AuditMatchesCommits, [Next]_vars
  PROVE  AuditMatchesCommits'
<1>1. ASSUME NEW r \in Requests, Commit(r) PROVE AuditMatchesCommits'
  BY <1>1 DEF Commit, AuditMatchesCommits
<1>2. ASSUME NEW r \in Requests, SaveAvatar(r) PROVE AuditMatchesCommits'
  BY <1>2 DEF SaveAvatar, AuditMatchesCommits, Shape, TxRoutes, BulkRoutes
<1>3. ASSUME NEW r \in Requests, SaveResetToken(r) PROVE AuditMatchesCommits'
  BY <1>3 DEF SaveResetToken, AuditMatchesCommits, TxRoutes, BulkRoutes
<1>4. ASSUME NEW r \in Requests, ReplySaved(r) PROVE AuditMatchesCommits'
  BY <1>4 DEF ReplySaved, AuditMatchesCommits, Shape, history
<1>5. CASE Expire
  BY <1>5 DEF Expire, AuditMatchesCommits, database, handler, history
<1>6. CASE UNCHANGED vars
  BY <1>6 DEF vars, AuditMatchesCommits
<1> QED
  BY <1>1, <1>2, <1>3, <1>4, <1>5, <1>6, ArriveQuiet, ProceedQuiet, FailQuiet,
     QuietKeepsAudit DEF Next

(* A change made under TxRunner and its row in audit_log are committed     *)
(* together, and no audit row is about a change that was not made.         *)
THEOREM AuditTheorem == Spec => []AuditMatchesCommits
<1>1. Init => AuditMatchesCommits
  BY DEF Init, AuditMatchesCommits
<1>2. TypeOK /\ Shape /\ AuditMatchesCommits /\ [Next]_vars => AuditMatchesCommits'
  BY AuditStep
<1> QED
  BY <1>1, <1>2, TypesHold, PTL DEF Spec

(* A transaction reports success after its commit only.                    *)
LEMMA SuccessStep ==
  ASSUME TypeOK, Shape, SuccessIsCommitted, [Next]_vars
  PROVE  SuccessIsCommitted'
<1> USE DEF SuccessIsCommitted
<1>1. ASSUME NEW r \in Requests, Arrive(r) PROVE SuccessIsCommitted'
  <2>1. ASSUME NEW route, NEW u, NEW row, Reads(r, route, u, row)
        PROVE  SuccessIsCommitted'
    BY <2>1 DEF Reads, Load, history, TypeOK
  <2>2. CASE ForgotSilently(r)
    BY <2>2 DEF ForgotSilently, history, TypeOK, TxRoutes, BulkRoutes
  <2>3. CASE StartBulk(r)
    <3>1. PICK route \in BulkRoutes \cap Routes, ids \in SUBSET Users, caller \in Users :
            /\ op' = [op EXCEPT ![r] = route]
            /\ tally' = [tally EXCEPT ![r] =
                           [u \in Users |-> CASE u \notin ids -> "out"
                                              [] u = caller   -> "failed"
                                              [] OTHER        -> "pending"]]
      BY <2>3 DEF StartBulk
    <3>2. \A u \in Users : tally'[r][u] # "ok"
      BY <3>1 DEF TypeOK
    <3>3. \A q \in Requests \ {r} : tally'[q] = tally[q]
      BY <3>1 DEF TypeOK
    <3> QED
      BY <2>3, <3>2, <3>3 DEF StartBulk, history, TypeOK
  <2>4. CASE Refuse(r)
    BY <2>4 DEF Refuse, history, TypeOK
  <2> QED
    BY <1>1, <2>1, <2>2, <2>3, <2>4, ArriveReads
<1>2. ASSUME NEW r \in Requests, BulkSkip(r) PROVE SuccessIsCommitted'
  BY <1>2 DEF BulkSkip, history, TypeOK
<1>3. ASSUME NEW r \in Requests, BulkLoad(r) PROVE SuccessIsCommitted'
  BY <1>3 DEF BulkLoad, history, TypeOK
<1>4. ASSUME NEW r \in Requests, BulkReply(r) PROVE SuccessIsCommitted'
  BY <1>4 DEF BulkReply, history, TypeOK, Shape
<1>5. ASSUME NEW r \in Requests, StoreRow(r) PROVE SuccessIsCommitted'
  BY <1>5 DEF StoreRow, history, TypeOK
<1>6. ASSUME NEW r \in Requests, ClearResetToken(r) PROVE SuccessIsCommitted'
  BY <1>6 DEF ClearResetToken, history, TypeOK
<1>7. ASSUME NEW r \in Requests, WriteAudit(r) PROVE SuccessIsCommitted'
  BY <1>7 DEF WriteAudit, history, TypeOK
<1>8. ASSUME NEW r \in Requests, Commit(r) PROVE SuccessIsCommitted'
  <2>1. written' = written \cup {<<r, target[r]>>} /\ op' = op
    BY <1>8 DEF Commit
  <2>2. PICK outcome \in Finished : Conclude(r, outcome)
    BY <1>8 DEF Commit
  <2>3. CASE op[r] \in BulkRoutes
    <3>1. target[r] \in Users
      BY <1>8 DEF Commit, Shape, InFlight
    <3>2. /\ \A q \in Requests, u \in Users :
                tally'[q][u] = IF q = r /\ u = target[r]
                               THEN IF outcome = "ok" THEN "ok" ELSE "failed"
                               ELSE tally[q][u]
          /\ at' = [at EXCEPT ![r] = "batch"]
          /\ target' = [target EXCEPT ![r] = None]
      BY <2>2, <2>3, <3>1, BulkConcludes
    <3>3. \A q \in Requests : at'[q] = "ok" => q # r /\ at[q] = "ok" /\ target'[q] = target[q]
      BY <3>2 DEF TypeOK
    <3>4. \A q \in Requests, u \in Users :
            tally'[q][u] = "ok" => tally[q][u] = "ok" \/ (q = r /\ u = target[r])
      BY <3>2
    <3> QED
      BY <2>1, <3>3, <3>4
  <2>4. CASE op[r] \notin BulkRoutes
    BY <2>1, <2>2, <2>4 DEF Conclude, TypeOK
  <2> QED
    BY <2>3, <2>4
<1>9. ASSUME NEW r \in Requests, PutObject(r) PROVE SuccessIsCommitted'
  BY <1>9 DEF PutObject, history, TypeOK
<1>10. ASSUME NEW r \in Requests, SaveAvatar(r) PROVE SuccessIsCommitted'
  BY <1>10 DEF SaveAvatar, TypeOK
<1>11. ASSUME NEW r \in Requests, SaveResetToken(r) PROVE SuccessIsCommitted'
  BY <1>11 DEF SaveResetToken, TypeOK
<1>12. ASSUME NEW r \in Requests, ReplySaved(r) PROVE SuccessIsCommitted'
  BY <1>12 DEF ReplySaved, history, TypeOK, Shape, PlainRoutes, TxRoutes, BulkRoutes
<1>13. ASSUME NEW r \in Requests, Rollback(r) PROVE SuccessIsCommitted'
  <2>1. CASE op[r] \in BulkRoutes
    <3>1. target[r] \in Users
      BY <1>13 DEF Rollback, Shape, InFlight
    <3>2. Conclude(r, "error") /\ written' = written /\ op' = op
      BY <1>13 DEF Rollback
    <3>3. /\ \A q \in Requests, u \in Users :
                tally'[q][u] = IF q = r /\ u = target[r]
                               THEN "failed"
                               ELSE tally[q][u]
          /\ at' = [at EXCEPT ![r] = "batch"]
          /\ target' = [target EXCEPT ![r] = None]
      BY <2>1, <3>1, <3>2, BulkConcludes
    <3>4. \A q \in Requests : at'[q] = "ok" => q # r /\ at[q] = "ok" /\ target'[q] = target[q]
      BY <3>3 DEF TypeOK
    <3>5. \A q \in Requests, u \in Users : tally'[q][u] = "ok" => tally[q][u] = "ok"
      BY <3>3
    <3> QED
      BY <3>2, <3>4, <3>5
  <2>2. CASE op[r] \notin BulkRoutes
    BY <1>13, <2>2 DEF Rollback, Conclude, TypeOK
  <2> QED
    BY <2>1, <2>2
<1>14. ASSUME NEW r \in Requests, GiveUp(r) PROVE SuccessIsCommitted'
  BY <1>14 DEF GiveUp, TypeOK
<1>15. CASE Expire
  BY <1>15 DEF Expire, handler, history
<1>16. CASE UNCHANGED vars
  BY <1>16 DEF vars
<1> QED
  BY <1>1, <1>2, <1>3, <1>4, <1>5, <1>6, <1>7, <1>8, <1>9, <1>10, <1>11, <1>12,
     <1>13, <1>14, <1>15, <1>16 DEF Next, Proceed, Fail

(* A success told to the client, and every id counted in the OK of a bulk  *)
(* reply, is committed.                                                    *)
THEOREM SuccessTheorem == Spec => []SuccessIsCommitted
<1>1. Init => SuccessIsCommitted
  BY DEF Init, SuccessIsCommitted
<1>2. TypeOK /\ Shape /\ SuccessIsCommitted /\ [Next]_vars => SuccessIsCommitted'
  BY SuccessStep
<1> QED
  BY <1>1, <1>2, TypesHold, PTL DEF Spec

(***************************************************************************)
(* A request acts on its own variables and stops when it is answered.      *)
(***************************************************************************)

Touches(r) ==
  /\ at[r] \notin Finished
  /\ \A q \in Requests \ {r} : /\ op'[q] = op[q] /\ at'[q] = at[q] /\ target'[q] = target[q]
                               /\ entity'[q] = entity[q] /\ key'[q] = key[q]

(* A step of one request leaves the variables of the others alone.         *)
LEMMA StepTouches ==
  ASSUME TypeOK, Shape, NEW r \in Requests, Arrive(r) \/ Proceed(r) \/ Fail(r)
  PROVE  Touches(r)
<1> USE DEF Touches, Finished, TypeOK
<1>1. ASSUME NEW route, NEW u, NEW row, Reads(r, route, u, row)
      PROVE  Touches(r)
  BY <1>1 DEF Reads, Load
<1>2. CASE ForgotSilently(r)
  BY <1>2 DEF ForgotSilently
<1>3. CASE StartBulk(r)
  BY <1>3 DEF StartBulk
<1>4. CASE Refuse(r)
  BY <1>4 DEF Refuse
<1>5. CASE BulkSkip(r)
  BY <1>5 DEF BulkSkip
<1>6. CASE BulkLoad(r)
  BY <1>6 DEF BulkLoad
<1>7. CASE BulkReply(r)
  BY <1>7 DEF BulkReply
<1>8. CASE StoreRow(r)
  BY <1>8 DEF StoreRow
<1>9. CASE ClearResetToken(r)
  BY <1>9 DEF ClearResetToken
<1>10. CASE WriteAudit(r)
  BY <1>10 DEF WriteAudit
<1>11. CASE Commit(r)
  BY <1>11 DEF Commit, Conclude
<1>12. CASE PutObject(r)
  BY <1>12 DEF PutObject
<1>13. CASE SaveAvatar(r)
  BY <1>13 DEF SaveAvatar
<1>14. CASE SaveResetToken(r)
  BY <1>14 DEF SaveResetToken
<1>15. CASE ReplySaved(r)
  BY <1>15 DEF ReplySaved
<1>16. CASE Rollback(r)
  BY <1>16 DEF Rollback, Conclude
<1>17. CASE GiveUp(r)
  BY <1>17 DEF GiveUp
<1> QED
  BY <1>1, <1>2, <1>3, <1>4, <1>5, <1>6, <1>7, <1>8, <1>9, <1>10, <1>11, <1>12,
     <1>13, <1>14, <1>15, <1>16, <1>17, ArriveReads DEF Proceed, Fail

(***************************************************************************)
(* Reset links.                                                            *)
(***************************************************************************)

(* Request k is answered and mailed a link for account u. *)
Issued(k, u) == k \in Requests /\ op[k] = "forgot" /\ at[k] = "ok" /\ target[k] = u

(* A stored token was made for its account; a token reset works on the     *)
(* account its link was mailed for.                                        *)
Tokens ==
  /\ \A u \in Users :
       reset[u] # None => op[reset[u]] = "forgot" /\ target[reset[u]] = u
                          /\ at[reset[u]] \in {"saved", "ok", "error"}
  /\ \A r \in Requests :
       op[r] = "redeem" =>
         /\ at[r] \in InFlight => Issued(key[r], target[r])
         /\ \A u \in Users : <<r, u>> \in written => Issued(key[r], u)

(* A request that redeems a link takes the account of the row that holds   *)
(* its token.                                                              *)
LEMMA TokensArrive ==
  ASSUME TypeOK, Shape, Tokens, NEW r \in Requests, Arrive(r)
  PROVE  Tokens'
<1>t. Touches(r)
  BY StepTouches
<1>1. ASSUME NEW route, NEW u \in Users, NEW row \in Row, Reads(r, route, u, row)
      PROVE  Tokens'
  <2>1. at[r] = "idle" /\ reset' = reset /\ written' = written
    BY <1>1 DEF Reads, Load, database, history
  <2>2. op'[r] = route /\ at'[r] = "loaded" /\ target'[r] = u
    BY <1>1 DEF Reads, Load, TypeOK
  <2>3. route = "redeem" => Issued(key[r], u)'
    <3> SUFFICES ASSUME route = "redeem" PROVE Issued(key[r], u)'
      OBVIOUS
    <3>1. PICK k \in Requests : /\ op[k] = "forgot" /\ at[k] = "ok" /\ reset[u] = k
                                /\ key' = [key EXCEPT ![r] = k]
      BY <1>1 DEF Reads
    <3>2. target[k] = u /\ key'[r] = k /\ k # r
      BY <3>1, <2>1, UserAccountsAssumption DEF Tokens, TypeOK, UserAccountsAssumption
    <3> QED
      BY <3>1, <3>2, <1>t DEF Touches, Issued
  <2>4. \A v \in Users : reset[v] # r
    BY <2>1, UserAccountsAssumption DEF Tokens, UserAccountsAssumption
  <2>5. \A v \in Users : <<r, v>> \notin written
    BY <2>1 DEF Shape
  <2>6. ASSUME NEW v \in Users, reset'[v] # None
        PROVE  /\ op'[reset'[v]] = "forgot" /\ target'[reset'[v]] = v
               /\ at'[reset'[v]] \in {"saved", "ok", "error"}
    BY <2>1, <2>4, <2>6, <1>t DEF Touches, Tokens, TypeOK
  <2>7. ASSUME NEW q \in Requests, op'[q] = "redeem"
        PROVE  /\ at'[q] \in InFlight => Issued(key[q], target[q])'
               /\ \A v \in Users : <<q, v>> \in written' => Issued(key[q], v)'
    BY <2>1, <2>2, <2>3, <2>5, <2>7, <1>t DEF Touches, Tokens, Issued, Finished
  <2> QED
    BY <2>6, <2>7 DEF Tokens
<1>2. CASE ForgotSilently(r) \/ StartBulk(r) \/ Refuse(r)
  <2>1. /\ at[r] = "idle" /\ reset' = reset /\ written' = written
        /\ at'[r] \notin InFlight
    BY <1>2 DEF ForgotSilently, StartBulk, Refuse, database, history, TypeOK, InFlight
  <2>2. \A v \in Users : reset[v] # r
    BY <2>1, UserAccountsAssumption DEF Tokens, UserAccountsAssumption
  <2>3. \A v \in Users : <<r, v>> \notin written
    BY <2>1 DEF Shape
  <2>4. ASSUME NEW v \in Users, reset'[v] # None
        PROVE  /\ op'[reset'[v]] = "forgot" /\ target'[reset'[v]] = v
               /\ at'[reset'[v]] \in {"saved", "ok", "error"}
    BY <2>1, <2>2, <2>4, <1>t DEF Touches, Tokens, TypeOK
  <2>5. ASSUME NEW q \in Requests, op'[q] = "redeem"
        PROVE  /\ at'[q] \in InFlight => Issued(key[q], target[q])'
               /\ \A v \in Users : <<q, v>> \in written' => Issued(key[q], v)'
    BY <2>1, <2>3, <2>5, <1>t DEF Touches, Tokens, Issued, Finished
  <2> QED
    BY <2>4, <2>5 DEF Tokens
<1> QED
  BY <1>1, <1>2, ArriveReads

(* A step of a request already sent keeps Tokens when it issues no token,  *)
(* goes no way back and records at most the account it works on.           *)
LEMMA TokensLocal ==
  ASSUME TypeOK, Tokens, NEW r \in Requests, Touches(r),
         op'[r] = op[r], key'[r] = key[r],
         at[r] = "saved" => at'[r] \in {"saved", "ok", "error"} /\ target'[r] = target[r],
         at'[r] \in InFlight /\ op[r] = "redeem" => /\ at[r] \in InFlight
                                                  /\ target'[r] = target[r],
         \A v \in Users : reset'[v] \in {reset[v], None},
         written' = written \/ (/\ at[r] \in InFlight
                               /\ written' = written \cup {<<r, target[r]>>})
  PROVE  Tokens'
<1>1. ASSUME NEW v \in Users, reset'[v] # None
      PROVE  /\ op'[reset'[v]] = "forgot" /\ target'[reset'[v]] = v
             /\ at'[reset'[v]] \in {"saved", "ok", "error"}
  BY <1>1 DEF Touches, Tokens, TypeOK, Finished
<1>2. ASSUME NEW q \in Requests, op'[q] = "redeem"
      PROVE  /\ at'[q] \in InFlight => Issued(key[q], target[q])'
             /\ \A v \in Users : <<q, v>> \in written' => Issued(key[q], v)'
  <2>1. op[q] = "redeem" /\ key'[q] = key[q]
    BY <1>2 DEF Touches
  <2>2. \A k \in Requests, v \in Users :
          Issued(k, v) => op'[k] = "forgot" /\ at'[k] = "ok" /\ target'[k] = v
    BY DEF Issued, Touches, Finished
  <2>3. ASSUME at'[q] \in InFlight PROVE Issued(key[q], target[q])'
    <3>1. at[q] \in InFlight /\ target'[q] = target[q]
      BY <2>1, <2>3 DEF Touches
    <3>2. Issued(key[q], target[q])
      BY <2>1, <3>1 DEF Tokens
    <3> QED
      BY <2>1, <3>1, <3>2 DEF Issued, Touches, Finished
  <2>4. ASSUME NEW v \in Users, <<q, v>> \in written' PROVE Issued(key[q], v)'
    <3>1. Issued(key[q], v)
      BY <2>1, <2>4 DEF Tokens
    <3> QED
      BY <2>1, <3>1 DEF Issued, Touches, Finished
  <2> QED
    BY <2>3, <2>4
<1> QED
  BY <1>1, <1>2 DEF Tokens

(* Only SaveResetToken puts a token into a row, the one of the request     *)
(* that issued it.                                                         *)
LEMMA TokensStep ==
  ASSUME TypeOK, Shape, Tokens, [Next]_vars
  PROVE  Tokens'
<1>1. ASSUME NEW r \in Requests, Proceed(r) \/ Fail(r) PROVE Tokens'
  <2>t. Touches(r)
    BY <1>1, StepTouches
  <2>1. CASE BulkSkip(r)
    BY <2>t, <2>1, TokensLocal DEF BulkSkip, database, history, TypeOK, InFlight
  <2>2. CASE BulkLoad(r)
    BY <2>t, <2>2, TokensLocal DEF BulkLoad, database, history, BulkRoutes, Shape, TypeOK, InFlight
  <2>3. CASE BulkReply(r)
    BY <2>t, <2>3, TokensLocal DEF BulkReply, database, history, TypeOK, InFlight
  <2>4. CASE StoreRow(r)
    BY <2>t, <2>4, TokensLocal DEF StoreRow, database, history, TypeOK, InFlight
  <2>5. CASE ClearResetToken(r)
    BY <2>t, <2>5, TokensLocal DEF ClearResetToken, database, history, TypeOK, InFlight
  <2>6. CASE WriteAudit(r)
    BY <2>t, <2>6, TokensLocal DEF WriteAudit, database, history, TypeOK, InFlight
  <2>7. CASE Commit(r)
    BY <2>t, <2>7, TokensLocal DEF Commit, Conclude, BulkRoutes, Finished, TypeOK, InFlight
  <2>8. CASE PutObject(r)
    BY <2>t, <2>8, TokensLocal DEF PutObject, database, history, TypeOK, InFlight
  <2>9. CASE SaveAvatar(r)
    BY <2>t, <2>9, TokensLocal DEF SaveAvatar, TypeOK, InFlight
  <2>10. CASE ReplySaved(r)
    BY <2>t, <2>10, TokensLocal DEF ReplySaved, history, TypeOK, InFlight
  <2>11. CASE Rollback(r)
    BY <2>t, <2>11, TokensLocal DEF Rollback, database, Conclude, BulkRoutes, Finished, TypeOK, InFlight
  <2>12. CASE GiveUp(r)
    BY <2>t, <2>12, TokensLocal DEF GiveUp, database, TypeOK, InFlight
  <2>13. CASE SaveResetToken(r)
    <3>1. /\ at[r] = "loaded" /\ op[r] = "forgot" /\ op' = op /\ target' = target /\ key' = key
          /\ at' = [at EXCEPT ![r] = "saved"]
          /\ reset' = [reset EXCEPT ![target[r]] = r]
          /\ written' = written \cup {<<r, target[r]>>}
      BY <2>13 DEF SaveResetToken
    <3>2. ASSUME NEW v \in Users, reset'[v] # None
          PROVE  /\ op'[reset'[v]] = "forgot" /\ target'[reset'[v]] = v
                 /\ at'[reset'[v]] \in {"saved", "ok", "error"}
      BY <3>1, <3>2 DEF Tokens, TypeOK
    <3>3. ASSUME NEW q \in Requests, op'[q] = "redeem"
          PROVE  /\ at'[q] \in InFlight => Issued(key[q], target[q])'
                 /\ \A v \in Users : <<q, v>> \in written' => Issued(key[q], v)'
      BY <3>1, <3>3 DEF Tokens, TypeOK, Issued
    <3> QED
      BY <3>2, <3>3 DEF Tokens
  <2> QED
    BY <1>1, <2>1, <2>2, <2>3, <2>4, <2>5, <2>6, <2>7, <2>8, <2>9,
       <2>10, <2>11, <2>12, <2>13 DEF Proceed, Fail
<1>2. CASE Expire
  BY <1>2 DEF Expire, Tokens, Issued, database, handler, history
<1>3. CASE UNCHANGED vars
  BY <1>3 DEF vars, Tokens, Issued
<1> QED
  BY <1>1, <1>2, <1>3, TokensArrive DEF Next

(* A token is stored only in the row of the account it was issued for.     *)
THEOREM TokensHold == Spec => []Tokens
<1>1. Init => Tokens
  BY DEF Init, Tokens, InFlight
<1>2. TypeOK /\ Shape /\ Tokens /\ [Next]_vars => Tokens'
  BY TokensStep
<1> QED
  BY <1>1, <1>2, TypesHold, PTL DEF Spec

(* A reset link sets the password of the account it was mailed to, and of  *)
(* no other: POST /auth/reset-password finds its row by the token alone.   *)
THEOREM LinkTheorem == Spec => []LinkSetsItsOwnAccount
<1>1. Tokens => LinkSetsItsOwnAccount
  BY DEF Tokens, Issued, LinkSetsItsOwnAccount
<1> QED
  BY <1>1, TokensHold, PTL

(* A step that stores no token and commits no token reset cannot bring a   *)
(* spent link back.                                                        *)
LEMMA SpentLocal ==
  ASSUME TypeOK, Tokens, SpentLinkStaysDead, NEW r \in Requests, Touches(r),
         \/ op'[r] = op[r] /\ key'[r] = key[r]
         \/ \A u \in Users : <<r, u>> \notin written,
         \A v \in Users : reset'[v] \in {reset[v], None},
         written' = written \/ (/\ op'[r] # "redeem"
                               /\ written' = written \cup {<<r, target[r]>>})
  PROVE  SpentLinkStaysDead'
<1>1. SUFFICES ASSUME NEW q \in Requests, NEW u \in Users, NEW v \in Users,
                      op'[q] = "redeem", <<q, u>> \in written', reset'[v] = key'[q]
               PROVE  FALSE
  BY DEF SpentLinkStaysDead
<1>2. <<q, u>> \in written /\ op[q] = "redeem" /\ key'[q] = key[q]
  BY <1>1 DEF Touches
<1>3. key[q] \in Requests
  BY <1>2 DEF Tokens, Issued
<1>4. reset[v] = key[q]
  BY <1>1, <1>2, <1>3, UserAccountsAssumption DEF UserAccountsAssumption
<1> QED
  BY <1>2, <1>4 DEF SpentLinkStaysDead

(* A commit of a token reset clears the one row that can hold the token of *)
(* its link.                                                               *)
LEMMA SpentStep ==
  ASSUME TypeOK, Shape, Tokens, SpentLinkStaysDead, [Next]_vars
  PROVE  SpentLinkStaysDead'
<1>1. ASSUME NEW r \in Requests, Arrive(r) PROVE SpentLinkStaysDead'
  <2>t. Touches(r)
    BY <1>1, StepTouches
  <2>1. ASSUME NEW route, NEW u, NEW row, Reads(r, route, u, row) PROVE SpentLinkStaysDead'
    BY <2>1, <2>t, SpentLocal DEF Reads, Load, Shape, database, history
  <2>2. CASE ForgotSilently(r) \/ StartBulk(r) \/ Refuse(r)
    BY <2>2, <2>t, SpentLocal
    DEF ForgotSilently, StartBulk, Refuse, Shape, database, history
  <2> QED
    BY <1>1, <2>1, <2>2, ArriveReads
<1>2. ASSUME NEW r \in Requests, Proceed(r) \/ Fail(r) PROVE SpentLinkStaysDead'
  <2>t. Touches(r)
    BY <1>2, StepTouches
  <2>1. CASE BulkSkip(r)
    BY <2>t, <2>1, SpentLocal DEF BulkSkip, database, history
  <2>2. CASE BulkLoad(r)
    BY <2>t, <2>2, SpentLocal DEF BulkLoad, database, history
  <2>3. CASE BulkReply(r)
    BY <2>t, <2>3, SpentLocal DEF BulkReply, database, history
  <2>4. CASE StoreRow(r)
    BY <2>t, <2>4, SpentLocal DEF StoreRow, database, history
  <2>5. CASE ClearResetToken(r)
    BY <2>t, <2>5, SpentLocal DEF ClearResetToken, database, history
  <2>6. CASE WriteAudit(r)
    BY <2>t, <2>6, SpentLocal DEF WriteAudit, database, history
  <2>7. CASE PutObject(r)
    BY <2>t, <2>7, SpentLocal DEF PutObject, database, history
  <2>8. CASE SaveAvatar(r)
    BY <2>t, <2>8, SpentLocal DEF SaveAvatar, Shape
  <2>9. CASE ReplySaved(r)
    BY <2>t, <2>9, SpentLocal DEF ReplySaved, history
  <2>10. CASE Rollback(r)
    BY <2>t, <2>10, SpentLocal DEF Rollback, database
  <2>11. CASE GiveUp(r)
    BY <2>t, <2>11, SpentLocal DEF GiveUp, database
  <2>12. CASE Commit(r)
    <3>1. /\ op' = op /\ key' = key
          /\ written' = written \cup {<<r, target[r]>>}
          /\ reset' = IF op[r] = "redeem" THEN [reset EXCEPT ![target[r]] = None] ELSE reset
          /\ at[r] \in InFlight
      BY <2>12 DEF Commit, InFlight
    <3>2. CASE op[r] # "redeem"
      BY <3>1, <3>2, <2>t, SpentLocal
    <3>3. CASE op[r] = "redeem"
      <4>1. SUFFICES ASSUME NEW q \in Requests, NEW u \in Users, NEW v \in Users,
                            op[q] = "redeem", <<q, u>> \in written', reset'[v] = key[q]
                     PROVE  FALSE
        BY <3>1 DEF SpentLinkStaysDead
      <4>2. Issued(key[q], u)
        BY <3>1, <3>3, <4>1 DEF Tokens
      <4>3. key[q] # None
        BY <4>2, UserAccountsAssumption DEF Issued, UserAccountsAssumption
      <4>4. v # target[r] /\ reset[v] = key[q]
        BY <3>1, <3>3, <4>1, <4>3 DEF TypeOK
      <4>5. CASE <<q, u>> \in written
        BY <4>1, <4>4, <4>5 DEF SpentLinkStaysDead
      <4>6. CASE q = r /\ u = target[r]
        BY <4>2, <4>3, <4>4, <4>6 DEF Tokens, Issued
      <4> QED
        BY <3>1, <4>1, <4>5, <4>6
    <3> QED
      BY <3>2, <3>3
  <2>13. CASE SaveResetToken(r)
    <3>1. /\ at[r] = "loaded" /\ op[r] = "forgot" /\ op' = op /\ key' = key
          /\ reset' = [reset EXCEPT ![target[r]] = r]
          /\ written' = written \cup {<<r, target[r]>>}
      BY <2>13 DEF SaveResetToken
    <3>2. SUFFICES ASSUME NEW q \in Requests, NEW u \in Users, NEW v \in Users,
                          op[q] = "redeem", <<q, u>> \in written', reset'[v] = key[q]
                   PROVE  FALSE
      BY <3>1 DEF SpentLinkStaysDead
    <3>3. <<q, u>> \in written
      BY <3>1, <3>2
    <3>4. at[key[q]] = "ok"
      BY <3>2, <3>3 DEF Tokens, Issued
    <3>5. reset[v] = key[q]
      BY <3>1, <3>2, <3>4 DEF TypeOK
    <3> QED
      BY <3>2, <3>3, <3>5 DEF SpentLinkStaysDead
  <2> QED
    BY <1>2, <2>1, <2>2, <2>3, <2>4, <2>5, <2>6, <2>7, <2>8, <2>9,
       <2>10, <2>11, <2>12, <2>13 DEF Proceed, Fail
<1>3. CASE Expire
  BY <1>3 DEF Expire, SpentLinkStaysDead, database, handler, history
<1>4. CASE UNCHANGED vars
  BY <1>4 DEF vars, SpentLinkStaysDead
<1> QED
  BY <1>1, <1>2, <1>3, <1>4 DEF Next

(* Once the reset of a password is committed its link is dead for good: no *)
(* whole row write of another handler restores password_reset_token_hash.  *)
THEOREM SpentLinkTheorem == Spec => []SpentLinkStaysDead
<1>1. Init => SpentLinkStaysDead
  BY DEF Init, SpentLinkStaysDead
<1>2. TypeOK /\ Shape /\ Tokens /\ SpentLinkStaysDead /\ [Next]_vars => SpentLinkStaysDead'
  BY SpentStep
<1> QED
  BY <1>1, <1>2, TypesHold, TokensHold, PTL DEF Spec

(***************************************************************************)
(* The force flag.                                                         *)
(***************************************************************************)

(* The owner of u set a password. *)
Rotated(u) == \E r \in Requests : /\ op[r] \in {"changePassword", "redeem"}
                                  /\ <<r, u>> \in written

(* The row a handler is about to write has a cleared flag only if the      *)
(* handler rotates the password or the row was read after a rotation.      *)
ForceKept ==
  \A r \in Requests :
    at[r] \in InFlight /\ target[r] \in Invited /\ ~entity[r].force
      => op[r] \in {"changePassword", "redeem"} \/ Rotated(target[r])

(* A rotation is history: the request that made it keeps its handler.      *)
LEMMA RotatedStays ==
  ASSUME Shape, NEW r \in Requests, Touches(r), op'[r] = op[r] \/ at[r] = "idle",
         written \subseteq written', NEW u \in Users, Rotated(u)
  PROVE  Rotated(u)'
<1>1. PICK q \in Requests : op[q] \in {"changePassword", "redeem"} /\ <<q, u>> \in written
  BY DEF Rotated
<1>2. op'[q] = op[q] /\ <<q, u>> \in written'
  BY <1>1 DEF Touches, Shape
<1> QED
  BY <1>1, <1>2 DEF Rotated

(* A step that changes no row and takes no other row into its hands.       *)
LEMMA ForceLocal ==
  ASSUME TypeOK, Shape, ForceKept, ForcedRotation, NEW r \in Requests, Touches(r),
         op'[r] = op[r] \/ at[r] = "idle", rows' = rows, written \subseteq written',
         at'[r] \in InFlight => /\ at[r] \in InFlight /\ op'[r] = op[r]
                                /\ target'[r] = target[r] /\ entity'[r] = entity[r]
  PROVE  ForceKept' /\ ForcedRotation'
<1>1. \A u \in Users : Rotated(u) => Rotated(u)'
  BY RotatedStays
<1>2. Invited \subseteq Users
  BY UserAccountsAssumption DEF UserAccountsAssumption
<1>3. ForcedRotation'
  BY <1>1, <1>2 DEF ForcedRotation, Rotated
<1>4. ForceKept'
  BY <1>1, <1>2 DEF ForceKept, Touches
<1> QED
  BY <1>3, <1>4

(* Every write to the row of an invited account keeps force, or is a       *)
(* rotation by its owner.                                                  *)
LEMMA ForceStep ==
  ASSUME TypeOK, Shape, ForceKept, ForcedRotation, [Next]_vars
  PROVE  ForceKept' /\ ForcedRotation'
<1>i. Invited \subseteq Users
  BY UserAccountsAssumption DEF UserAccountsAssumption
<1>r. ASSUME NEW u \in Invited, ~rows[u].force PROVE Rotated(u)
  BY <1>r DEF ForcedRotation, Rotated
<1>1. ASSUME NEW r \in Requests, Arrive(r) PROVE ForceKept' /\ ForcedRotation'
  <2>t. Touches(r)
    BY <1>1, StepTouches
  <2>1. ASSUME NEW route, NEW u \in Users, NEW row \in Row, Reads(r, route, u, row)
        PROVE  ForceKept' /\ ForcedRotation'
    <3>1. /\ at[r] = "idle" /\ rows' = rows /\ written' = written
          /\ op'[r] = route /\ target'[r] = u /\ entity'[r] = row
      BY <2>1 DEF Reads, Load, TypeOK, database, history
    <3>2. \A v \in Users : Rotated(v) => Rotated(v)'
      BY <3>1, <2>t, RotatedStays
    <3>3. route \notin {"changePassword", "redeem"} => row.force = rows[u].force
      BY <2>1 DEF Reads
    <3>4. ForcedRotation'
      BY <3>1, <3>2, <1>i DEF ForcedRotation, Rotated
    <3>5. ASSUME NEW q \in Requests, at'[q] \in InFlight, target'[q] \in Invited, ~entity'[q].force
          PROVE  op'[q] \in {"changePassword", "redeem"} \/ Rotated(target[q])'
      <4>1. CASE q = r
        BY <4>1, <3>5, <3>1, <3>2, <3>3, <1>r DEF Rotated
      <4>2. CASE q # r
        BY <4>2, <3>5, <3>2, <2>t, <1>i DEF Touches, ForceKept
      <4> QED
        BY <4>1, <4>2
    <3> QED
      BY <3>4, <3>5 DEF ForceKept
  <2>2. CASE ForgotSilently(r) \/ StartBulk(r) \/ Refuse(r)
    <3>1. /\ at[r] = "idle" /\ rows' = rows /\ written' = written /\ at'[r] \notin InFlight
      BY <2>2 DEF ForgotSilently, StartBulk, Refuse, TypeOK, InFlight, database, history
    <3> QED
      BY <3>1, <2>t, ForceLocal
  <2> QED
    BY <1>1, <2>1, <2>2, ArriveReads
<1>2. ASSUME NEW r \in Requests, Proceed(r) \/ Fail(r) PROVE ForceKept' /\ ForcedRotation'
  <2>t. Touches(r)
    BY <1>2, StepTouches
  <2>1. CASE BulkSkip(r)
    BY <2>t, <2>1, ForceLocal DEF BulkSkip, database, history, TypeOK, InFlight
  <2>2. CASE BulkReply(r)
    BY <2>t, <2>2, ForceLocal DEF BulkReply, database, history, TypeOK, InFlight
  <2>3. CASE StoreRow(r)
    BY <2>t, <2>3, ForceLocal DEF StoreRow, database, history, TypeOK, InFlight
  <2>4. CASE ClearResetToken(r)
    BY <2>t, <2>4, ForceLocal DEF ClearResetToken, database, history, TypeOK, InFlight
  <2>5. CASE WriteAudit(r)
    BY <2>t, <2>5, ForceLocal DEF WriteAudit, database, history, TypeOK, InFlight
  <2>6. CASE PutObject(r)
    BY <2>t, <2>6, ForceLocal DEF PutObject, database, history, TypeOK, InFlight
  <2>7. CASE SaveResetToken(r)
    BY <2>t, <2>7, ForceLocal DEF SaveResetToken, TypeOK, InFlight
  <2>8. CASE ReplySaved(r)
    BY <2>t, <2>8, ForceLocal DEF ReplySaved, history, TypeOK, InFlight
  <2>9. CASE Rollback(r)
    BY <2>t, <2>9, ForceLocal DEF Rollback, database, Conclude, TypeOK, InFlight
  <2>10. CASE GiveUp(r)
    BY <2>t, <2>10, ForceLocal DEF GiveUp, database, TypeOK, InFlight
  <2>11. CASE BulkLoad(r)
    <3>1. PICK u \in Users : /\ target' = [target EXCEPT ![r] = u]
                             /\ entity' = [entity EXCEPT ![r] = BulkEntity(op[r], rows[u])]
      BY <2>11 DEF BulkLoad
    <3>2. op' = op /\ rows' = rows /\ written' = written /\ op[r] \in BulkRoutes
      BY <2>11 DEF BulkLoad, database, history, Shape
    <3>3. BulkEntity(op[r], rows[u]).force = rows[u].force
      BY <3>2, RowsAreRows DEF BulkEntity, BulkRoutes, Row
    <3>4. \A v \in Users : Rotated(v) => Rotated(v)'
      BY <3>2 DEF Rotated
    <3>5. ForcedRotation'
      BY <3>2 DEF ForcedRotation
    <3>6. ASSUME NEW q \in Requests, at'[q] \in InFlight, target'[q] \in Invited, ~entity'[q].force
          PROVE  op'[q] \in {"changePassword", "redeem"} \/ Rotated(target[q])'
      <4>1. CASE q = r
        <5>1. target'[q] = u /\ entity'[q].force = rows[u].force
          BY <4>1, <3>1, <3>3 DEF TypeOK
        <5>2. Rotated(u)
          BY <5>1, <3>6, <1>r
        <5> QED
          BY <5>1, <5>2, <3>2 DEF Rotated
      <4>2. CASE q # r
        BY <4>2, <3>6, <3>4, <2>t, <1>i DEF Touches, ForceKept
      <4> QED
        BY <4>1, <4>2
    <3> QED
      BY <3>5, <3>6 DEF ForceKept
  <2>12. CASE SaveAvatar(r)
    <3>1. /\ op' = op /\ written' = written \cup {<<r, target[r]>>}
          /\ rows' = [rows EXCEPT ![target[r]] = entity[r]]
          /\ at[r] \in InFlight /\ target[r] \in Users
      BY <2>12 DEF SaveAvatar, InFlight, Shape
    <3>2. at'[r] \notin InFlight
      BY <2>12 DEF SaveAvatar, InFlight, TypeOK
    <3>3. \A v \in Users : Rotated(v) => Rotated(v)'
      BY <3>1 DEF Rotated
    <3>u. PICK u \in Users : u = target[r]
      BY <3>1
    <3>4. ASSUME u \in Invited, ~entity[r].force PROVE Rotated(u)'
      <4>1. op[r] \in {"changePassword", "redeem"} \/ Rotated(u)
        BY <3>1, <3>4, <3>u DEF ForceKept
      <4> QED
        BY <4>1, <3>1, <3>u DEF Rotated
    <3>5. ASSUME NEW v \in Invited, ~rows'[v].force PROVE Rotated(v)'
      <4>1. CASE v = u
        <5>1. rows'[u] = entity[r]
          BY <3>1, <3>u DEF TypeOK
        <5> QED
          BY <4>1, <5>1, <3>5, <3>4
      <4>2. CASE v # u
        <5>1. rows'[v] = rows[v]
          BY <4>2, <3>1, <3>u, <1>i DEF TypeOK
        <5> QED
          BY <5>1, <3>5, <3>3, <1>r, <1>i
      <4> QED
        BY <4>1, <4>2
    <3>6. ForcedRotation'
      BY <3>5 DEF ForcedRotation, Rotated
    <3>7. ForceKept'
      BY <3>2, <3>3, <2>t, <1>i DEF ForceKept, Touches
    <3> QED
      BY <3>6, <3>7
  <2>13. CASE Commit(r)
    <3>1. /\ op' = op /\ written' = written \cup {<<r, target[r]>>}
          /\ rows' = [rows EXCEPT ![target[r]] = StoredRow(r)]
          /\ at[r] \in InFlight /\ target[r] \in Users
      BY <2>13 DEF Commit, InFlight, Shape
    <3>2. at'[r] \notin InFlight
      BY <2>13 DEF Commit, InFlight, TypeOK, Conclude, Finished
    <3>3. \A v \in Users : Rotated(v) => Rotated(v)'
      BY <3>1 DEF Rotated
    <3>u. PICK u \in Users : u = target[r]
      BY <3>1
    <3>4. ASSUME u \in Invited, ~StoredRow(r).force PROVE Rotated(u)'
      <4>1. CASE op[r] = "bulkDelete"
        <5>1. StoredRow(r).force = rows[u].force
          BY <4>1, <3>u, RowsAreRows DEF StoredRow, Row
        <5> QED
          BY <5>1, <3>1, <3>3, <3>4, <1>r
      <4>2. CASE op[r] # "bulkDelete"
        <5>1. StoredRow(r) = entity[r]
          BY <4>2 DEF StoredRow
        <5>2. op[r] \in {"changePassword", "redeem"} \/ Rotated(u)
          BY <5>1, <3>1, <3>4, <3>u DEF ForceKept
        <5> QED
          BY <5>2, <3>1, <3>u DEF Rotated
      <4> QED
        BY <4>1, <4>2
    <3>5. ASSUME NEW v \in Invited, ~rows'[v].force PROVE Rotated(v)'
      <4>1. CASE v = u
        <5>1. rows'[u] = StoredRow(r)
          BY <3>1, <3>u DEF TypeOK
        <5> QED
          BY <4>1, <5>1, <3>5, <3>4
      <4>2. CASE v # u
        <5>1. rows'[v] = rows[v]
          BY <4>2, <3>1, <3>u, <1>i DEF TypeOK
        <5> QED
          BY <5>1, <3>5, <3>3, <1>r, <1>i
      <4> QED
        BY <4>1, <4>2
    <3>6. ForcedRotation'
      BY <3>5 DEF ForcedRotation, Rotated
    <3>7. ForceKept'
      BY <3>2, <3>3, <2>t, <1>i DEF ForceKept, Touches
    <3> QED
      BY <3>6, <3>7
  <2> QED
    BY <1>2, <2>1, <2>2, <2>3, <2>4, <2>5, <2>6, <2>7, <2>8, <2>9,
       <2>10, <2>11, <2>12, <2>13 DEF Proceed, Fail
<1>3. CASE Expire
  BY <1>3 DEF Expire, ForceKept, ForcedRotation, Rotated, database, handler, history
<1>4. CASE UNCHANGED vars
  BY <1>4 DEF vars, ForceKept, ForcedRotation, Rotated
<1> QED
  BY <1>1, <1>2, <1>3, <1>4 DEF Next

(* An invited account keeps force_password_change until its owner sets a   *)
(* password, whatever rows the other handlers read early and write late.   *)
THEOREM ForcedRotationTheorem == Spec => []ForcedRotation
<1>1. Init => ForceKept /\ ForcedRotation
  <2>1. ASSUME Init, NEW u \in Invited PROVE rows[u].force
    BY <2>1, UserAccountsAssumption DEF Init, UserAccountsAssumption
  <2>2. Init => ForceKept
    BY DEF Init, ForceKept, InFlight
  <2> QED
    BY <2>1, <2>2 DEF ForcedRotation
<1>2. TypeOK /\ Shape /\ ForceKept /\ ForcedRotation /\ [Next]_vars
        => (ForceKept /\ ForcedRotation)'
  BY ForceStep
<1> QED
  BY <1>1, <1>2, TypesHold, PTL DEF Spec

(***************************************************************************)
(* Avatars.                                                                *)
(***************************************************************************)

(* The row a handler is about to write points to a stored object, or to    *)
(* the one it is itself about to upload.                                   *)
AvatarKept ==
  \A r \in Requests :
    /\ at[r] \in InFlight => \/ entity[r].avatar \in objects \cup {None, External}
                             \/ op[r] = "upload" /\ entity[r].avatar = r
    /\ at[r] = "uploaded" => r \in objects

(* A step that stores no object and writes no row.                         *)
LEMMA AvatarLocal ==
  ASSUME TypeOK, AvatarKept, AvatarIsStored, NEW r \in Requests, Touches(r),
         rows' = rows, objects \subseteq objects',
         at'[r] \in InFlight => /\ at[r] \in InFlight /\ op'[r] = op[r]
                                /\ entity'[r] = entity[r],
         at'[r] = "uploaded" => r \in objects'
  PROVE  AvatarKept' /\ AvatarIsStored'
<1>1. AvatarIsStored'
  BY DEF AvatarIsStored
<1>2. AvatarKept'
  BY DEF AvatarKept, Touches
<1> QED
  BY <1>1, <1>2

(* A row that is written points to a stored object.                        *)
LEMMA AvatarWrite ==
  ASSUME TypeOK, AvatarKept, AvatarIsStored, NEW r \in Requests, Touches(r),
         NEW row, row.avatar \in objects \cup {None, External},
         rows' = [rows EXCEPT ![target[r]] = row], objects' = objects,
         at'[r] \notin InFlight
  PROVE  AvatarKept' /\ AvatarIsStored'
<1>1. AvatarIsStored'
  BY DEF AvatarIsStored, TypeOK
<1>2. AvatarKept'
  BY DEF AvatarKept, Touches, InFlight
<1> QED
  BY <1>1, <1>2

(* The upload comes before the write of the row.                           *)
LEMMA AvatarStep ==
  ASSUME TypeOK, Shape, AvatarKept, AvatarIsStored, [Next]_vars
  PROVE  AvatarKept' /\ AvatarIsStored'
<1>1. ASSUME NEW r \in Requests, Arrive(r) PROVE AvatarKept' /\ AvatarIsStored'
  <2>t. Touches(r)
    BY <1>1, StepTouches
  <2>1. ASSUME NEW route, NEW u \in Users, NEW row \in Row, Reads(r, route, u, row)
        PROVE  AvatarKept' /\ AvatarIsStored'
    <3>1. /\ rows' = rows /\ objects' = objects
          /\ op'[r] = route /\ at'[r] = "loaded" /\ entity'[r] = row
      BY <2>1 DEF Reads, Load, TypeOK, database
    <3>2. IF route = "upload" THEN row.avatar = r
                              ELSE row.avatar \in {External, rows[u].avatar}
      BY <2>1 DEF Reads
    <3>3. AvatarIsStored'
      BY <3>1 DEF AvatarIsStored
    <3>4. rows[u].avatar \in objects \cup {None, External}
      BY DEF AvatarIsStored
    <3>5. AvatarKept'
      BY <3>1, <3>2, <3>4, <2>t DEF AvatarKept, Touches
    <3> QED
      BY <3>3, <3>5
  <2>2. CASE ForgotSilently(r) \/ StartBulk(r) \/ Refuse(r)
    <3>1. rows' = rows /\ objects' = objects /\ at'[r] \notin InFlight
      BY <2>2 DEF ForgotSilently, StartBulk, Refuse, TypeOK, InFlight, database
    <3> QED
      BY <3>1, <2>t, AvatarLocal DEF InFlight
  <2> QED
    BY <1>1, <2>1, <2>2, ArriveReads
<1>2. ASSUME NEW r \in Requests, Proceed(r) \/ Fail(r) PROVE AvatarKept' /\ AvatarIsStored'
  <2>t. Touches(r)
    BY <1>2, StepTouches
  <2>1. CASE BulkSkip(r)
    BY <2>t, <2>1, AvatarLocal DEF BulkSkip, database, TypeOK, InFlight
  <2>2. CASE BulkReply(r)
    BY <2>t, <2>2, AvatarLocal DEF BulkReply, database, TypeOK, InFlight
  <2>3. CASE StoreRow(r)
    BY <2>t, <2>3, AvatarLocal DEF StoreRow, database, TypeOK, InFlight
  <2>4. CASE ClearResetToken(r)
    BY <2>t, <2>4, AvatarLocal DEF ClearResetToken, database, TypeOK, InFlight
  <2>5. CASE WriteAudit(r)
    BY <2>t, <2>5, AvatarLocal DEF WriteAudit, database, TypeOK, InFlight
  <2>6. CASE PutObject(r)
    BY <2>t, <2>6, AvatarLocal DEF PutObject, database, TypeOK, InFlight
  <2>7. CASE SaveResetToken(r)
    BY <2>t, <2>7, AvatarLocal DEF SaveResetToken, TypeOK, InFlight
  <2>8. CASE ReplySaved(r)
    BY <2>t, <2>8, AvatarLocal DEF ReplySaved, TypeOK, InFlight
  <2>9. CASE Rollback(r)
    BY <2>t, <2>9, AvatarLocal DEF Rollback, database, Conclude, TypeOK, InFlight
  <2>10. CASE GiveUp(r)
    BY <2>t, <2>10, AvatarLocal DEF GiveUp, database, TypeOK, InFlight
  <2>11. CASE BulkLoad(r)
    <3>1. PICK u \in Users : entity' = [entity EXCEPT ![r] = BulkEntity(op[r], rows[u])]
      BY <2>11 DEF BulkLoad
    <3>2. op' = op /\ rows' = rows /\ objects' = objects /\ at'[r] = "loaded" /\ op[r] \in BulkRoutes
      BY <2>11 DEF BulkLoad, database, TypeOK, Shape
    <3>3. BulkEntity(op[r], rows[u]).avatar = rows[u].avatar
      BY <3>2, RowsAreRows DEF BulkEntity, BulkRoutes, Row
    <3>4. entity'[r].avatar = rows[u].avatar
      BY <3>1, <3>3 DEF TypeOK
    <3>5. rows[u].avatar \in objects \cup {None, External}
      BY DEF AvatarIsStored
    <3>6. AvatarIsStored'
      BY <3>2 DEF AvatarIsStored
    <3>7. AvatarKept'
      BY <3>2, <3>4, <3>5, <2>t DEF AvatarKept, Touches
    <3> QED
      BY <3>6, <3>7
  <2>12. CASE SaveAvatar(r)
    <3>1. entity[r].avatar \in objects \cup {None, External}
      BY <2>12 DEF SaveAvatar, AvatarKept, InFlight
    <3>2. at'[r] \notin InFlight
      BY <2>12 DEF SaveAvatar, TypeOK, InFlight
    <3> QED
      BY <2>12, <2>t, <3>1, <3>2, AvatarWrite DEF SaveAvatar
  <2>13. CASE Commit(r)
    <3>1. at[r] \in InFlight /\ target[r] \in Users /\ op[r] # "upload"
      BY <2>13 DEF Commit, Shape, InFlight, TxRoutes, BulkRoutes
    <3>2. entity[r].avatar \in objects \cup {None, External}
      BY <3>1 DEF AvatarKept
    <3>3. StoredRow(r).avatar \in {entity[r].avatar, rows[target[r]].avatar}
      BY <3>1, RowsAreRows DEF StoredRow, Row
    <3>4. StoredRow(r).avatar \in objects \cup {None, External}
      BY <3>1, <3>2, <3>3 DEF AvatarIsStored
    <3>5. at'[r] \notin InFlight
      BY <2>13 DEF Commit, Conclude, Finished, TypeOK, InFlight
    <3>6. rows' = [rows EXCEPT ![target[r]] = StoredRow(r)] /\ objects' = objects
      BY <2>13 DEF Commit
    <3> QED
      BY <2>t, <3>4, <3>5, <3>6, AvatarWrite
  <2> QED
    BY <1>2, <2>1, <2>2, <2>3, <2>4, <2>5, <2>6, <2>7, <2>8, <2>9,
       <2>10, <2>11, <2>12, <2>13 DEF Proceed, Fail
<1>3. CASE Expire
  BY <1>3 DEF Expire, AvatarKept, AvatarIsStored, database, handler
<1>4. CASE UNCHANGED vars
  BY <1>4 DEF vars, AvatarKept, AvatarIsStored
<1> QED
  BY <1>1, <1>2, <1>3, <1>4 DEF Next

(* No row points to an avatar the upload handler made but did not store,   *)
(* through failed uploads, failed writes and stale whole-row writes.       *)
THEOREM AvatarTheorem == Spec => []AvatarIsStored
<1>1. Init => AvatarKept /\ AvatarIsStored
  BY DEF Init, AvatarKept, AvatarIsStored, InFlight
<1>2. TypeOK /\ Shape /\ AvatarKept /\ AvatarIsStored /\ [Next]_vars
        => (AvatarKept /\ AvatarIsStored)'
  BY AvatarStep
<1> QED
  BY <1>1, <1>2, TypesHold, PTL DEF Spec

(***************************************************************************)
(* Whole-row writes and reset links.                                       *)
(*                                                                         *)
(* OneLock says that the row locks exclude each other, Kept that a handler *)
(* whose row is still as it was read is about to write a row it may write. *)
(* Both are inductive together with TypeOK and Shape: a row changes under  *)
(* a handler only before its UPDATE, and then the handler is stale.        *)
(***************************************************************************)

OneLock ==
  \A r, q \in Requests, u \in Users : HoldsLock(r, u) /\ HoldsLock(q, u) => r = q

KeptOf(r) ==
  at[r] \in InFlight /\ r \notin stale =>
    /\ Keeps(op[r], rows[target[r]], StoredRow(r))
    /\ op[r] \in BulkRoutes => rows[target[r]].role # "admin" /\ ~rows[target[r]].deleted

Kept == \A r \in Requests : KeptOf(r)

(* A handler that writes no row, and holds no row it has not held before.  *)
LEMMA NoWrite ==
  ASSUME TypeOK, Shape, OneLock, Kept, NEW r \in Requests, Touches(r),
         rows' = rows, stale \ {r} \subseteq stale',
         at'[r] \in InFlight => /\ at[r] \in InFlight /\ op'[r] = op[r]
                                /\ target'[r] = target[r] /\ entity'[r] = entity[r]
                                /\ stale' = stale,
         at'[r] \in {"stored", "cleared", "audited"} =>
           at[r] \in {"stored", "cleared", "audited"} \/ CanWrite(r, target[r])
  PROVE  OneLock' /\ Kept'
<1>1. ASSUME NEW q \in Requests, KeptOf(q),
             op'[q] = op[q], at'[q] = at[q], target'[q] = target[q], entity'[q] = entity[q],
             q \in stale => q \in stale'
      PROVE  KeptOf(q)'
  BY <1>1 DEF KeptOf, StoredRow
<1>2. ASSUME NEW q \in Requests \ {r} PROVE KeptOf(q)'
  <2>1. KeptOf(q)
    BY DEF Kept
  <2> QED
    BY <1>1, <2>1 DEF Touches
<1>3. KeptOf(r)'
  <2>1. CASE at'[r] \in InFlight
    BY <2>1 DEF Kept, KeptOf, StoredRow
  <2>2. CASE at'[r] \notin InFlight
    BY <2>2 DEF KeptOf
  <2> QED
    BY <2>1, <2>2
<1>4. ASSUME NEW q \in Requests \ {r}, NEW u \in Users, HoldsLock(q, u)' PROVE HoldsLock(q, u)
  BY <1>4 DEF HoldsLock, Touches
<1>5. ASSUME NEW q \in Requests \ {r}, NEW u \in Users, HoldsLock(q, u)', HoldsLock(r, u)'
      PROVE  FALSE
  <2>1. HoldsLock(q, u)
    BY <1>4, <1>5
  <2>2. at'[r] \in {"stored", "cleared", "audited"} /\ target'[r] = u /\ op'[r] \in TxRoutes
    BY <1>5 DEF HoldsLock
  <2>3. target[r] = u /\ op[r] \in TxRoutes
    BY <2>2 DEF InFlight
  <2>4. ~HoldsLock(r, u)
    BY <2>1 DEF OneLock
  <2>5. CanWrite(r, u)
    BY <2>2, <2>3, <2>4 DEF HoldsLock
  <2> QED
    BY <2>1, <2>5 DEF CanWrite
<1>6. OneLock'
  <2>1. SUFFICES ASSUME NEW p \in Requests, NEW q \in Requests, NEW u \in Users,
                        HoldsLock(p, u)', HoldsLock(q, u)', p # q
                 PROVE  FALSE
    BY DEF OneLock
  <2>2. CASE p = r
    BY <1>5, <2>1, <2>2
  <2>3. CASE q = r
    BY <1>5, <2>1, <2>3
  <2>4. CASE p # r /\ q # r
    BY <1>4, <2>1, <2>4 DEF OneLock
  <2> QED
    BY <2>2, <2>3, <2>4
<1> QED
  BY <1>2, <1>3, <1>6 DEF Kept

(* A handler that writes its row, which nobody else has locked, and is     *)
(* done with it.                                                           *)
LEMMA RowWrite ==
  ASSUME TypeOK, Shape, OneLock, Kept, NEW r \in Requests, Touches(r),
         CanWrite(r, target[r]), NEW new, rows' = [rows EXCEPT ![target[r]] = new],
         Outdates(r, target[r], new), at'[r] \notin InFlight
  PROVE  OneLock' /\ Kept'
<1>1. ASSUME NEW q \in Requests \ {r}, at[q] \in InFlight, q \notin stale'
      PROVE  q \notin stale /\ rows'[target[q]] = rows[target[q]]
  <2>1. q \notin stale
    BY <1>1 DEF Outdates
  <2>2. CASE new = rows[target[r]]
    BY <2>1, <2>2 DEF TypeOK
  <2>3. CASE new # rows[target[r]]
    <3>1. q \notin Readers(target[r])
      BY <1>1, <2>3 DEF Outdates
    <3>2. target[q] = target[r] => at[q] \in {"stored", "cleared", "audited"}
      BY <1>1, <3>1 DEF Readers, InFlight
    <3>3. target[q] = target[r] => HoldsLock(q, target[r])
      BY <3>2 DEF HoldsLock, Shape
    <3>4. target[q] # target[r]
      BY <3>3 DEF CanWrite
    <3> QED
      BY <2>1, <3>4 DEF TypeOK
  <2> QED
    BY <2>2, <2>3
<1>2. ASSUME NEW q \in Requests \ {r} PROVE KeptOf(q)'
  <2>1. /\ op'[q] = op[q] /\ at'[q] = at[q] /\ target'[q] = target[q]
        /\ entity'[q] = entity[q]
    BY DEF Touches
  <2>2. KeptOf(q)
    BY DEF Kept
  <2>3. SUFFICES ASSUME at[q] \in InFlight, q \notin stale'
                 PROVE  /\ Keeps(op[q], rows[target[q]], StoredRow(q))
                        /\ StoredRow(q)' = StoredRow(q)
                        /\ rows'[target[q]] = rows[target[q]]
                        /\ op[q] \in BulkRoutes => /\ rows[target[q]].role # "admin"
                                                   /\ ~rows[target[q]].deleted
    BY <2>1 DEF KeptOf
  <2>4. q \notin stale /\ rows'[target[q]] = rows[target[q]]
    BY <1>1, <2>3
  <2>5. StoredRow(q)' = StoredRow(q)
    <3>1. [rows'[target'[q]] EXCEPT !.deleted = TRUE] = [rows[target[q]] EXCEPT !.deleted = TRUE]
      BY <2>1, <2>4
    <3> QED
      BY <2>1, <3>1 DEF StoredRow
  <2> QED
    BY <2>2, <2>3, <2>4, <2>5 DEF KeptOf
<1>3. KeptOf(r)'
  BY DEF KeptOf
<1>4. ASSUME NEW q \in Requests, NEW u \in Users, HoldsLock(q, u)' PROVE HoldsLock(q, u)
  BY <1>4 DEF HoldsLock, Touches, InFlight
<1>5. OneLock'
  BY <1>4 DEF OneLock
<1> QED
  BY <1>2, <1>3, <1>5 DEF Kept

(***************************************************************************)
(* The rows that handlers read.                                            *)
(***************************************************************************)

(* What a handler makes of the row it has read keeps the columns it is not *)
(* about.                                                                  *)
LEMMA ReadKeeps ==
  ASSUME TypeOK, NEW u \in Users
  PROVE  /\ \A x : Keeps("update", rows[u], [rows[u] EXCEPT !.role = x])
         /\ \A x : Keeps("adminReset", rows[u], [rows[u] EXCEPT !.password = x])
         /\ \A x : Keeps("toggle", rows[u], [rows[u] EXCEPT !.status = x])
         /\ \A x, y : Keeps("profile", rows[u], [rows[u] EXCEPT !.password = x, !.avatar = y])
         /\ \A route \in {"changePassword", "redeem"} : \A x :
              Keeps(route, rows[u], [rows[u] EXCEPT !.password = x, !.force = FALSE])
         /\ \A x : Keeps("upload", rows[u], [rows[u] EXCEPT !.avatar = x])
         /\ \A x : Keeps("bulkDelete", rows[u], [rows[u] EXCEPT !.deleted = x])
         /\ \A route \in {"bulkLock", "bulkUnlock"} : \A x :
              Keeps(route, rows[u], [rows[u] EXCEPT !.status = x])
         /\ \A route : Keeps(route, rows[u], rows[u])
<1>1. rows[u] \in Row
  BY RowsAreRows
<1> QED
  BY <1>1 DEF Row, Keeps

(* A request that is sent has loaded such a row, or none.                  *)
LEMMA ArriveKeeps ==
  ASSUME TypeOK, NEW r \in Requests, Arrive(r)
  PROVE  \/ /\ at'[r] = "loaded" /\ op'[r] \in Routes \ BulkRoutes
            /\ rows' = rows /\ stale' = stale
            /\ target'[r] \in Users
            /\ Keeps(op'[r], rows[target'[r]], entity'[r])
         \/ at'[r] \notin InFlight /\ rows' = rows /\ stale' = stale
<1> DEFINE Good == /\ at'[r] = "loaded" /\ op'[r] \in Routes \ BulkRoutes
                   /\ rows' = rows /\ stale' = stale
                   /\ target'[r] \in Users
                   /\ Keeps(op'[r], rows[target'[r]], entity'[r])
<1>1. ASSUME NEW route, NEW u \in Users, NEW row, Load(r, route, u, row),
             route \notin BulkRoutes, Keeps(route, rows[u], row)
      PROVE  Good
  BY <1>1 DEF Load, TypeOK, database, history
<1> HIDE DEF Good
<1>2. ASSUME Update(r) PROVE Good
  <2>0. PICK u \in Users : \E x : Load(r, "update", u, [rows[u] EXCEPT !.role = x])
    BY <1>2 DEF Update
  <2>1. PICK x : Load(r, "update", u, [rows[u] EXCEPT !.role = x])
    BY <2>0
  <2> DEFINE row == [rows[u] EXCEPT !.role = x]
  <2>2. Keeps("update", rows[u], row) /\ "update" \notin BulkRoutes
    BY ReadKeeps DEF BulkRoutes
  <2>3. Load(r, "update", u, row)
    BY <2>1
  <2> HIDE DEF row
  <2> QED
    BY <1>1, <2>2, <2>3
<1>3. ASSUME AdminReset(r) PROVE Good
  <2>0. PICK u \in Users : \E x : Load(r, "adminReset", u, [rows[u] EXCEPT !.password = x])
    BY <1>3 DEF AdminReset
  <2>1. PICK x : Load(r, "adminReset", u, [rows[u] EXCEPT !.password = x])
    BY <2>0
  <2> DEFINE row == [rows[u] EXCEPT !.password = x]
  <2>2. Keeps("adminReset", rows[u], row) /\ "adminReset" \notin BulkRoutes
    BY ReadKeeps DEF BulkRoutes
  <2>3. Load(r, "adminReset", u, row)
    BY <2>1
  <2> HIDE DEF row
  <2> QED
    BY <1>1, <2>2, <2>3
<1>4. ASSUME ToggleStatus(r) PROVE Good
  <2>0. PICK u \in Users : \E x : Load(r, "toggle", u, [rows[u] EXCEPT !.status = x])
    BY <1>4 DEF ToggleStatus
  <2>1. PICK x : Load(r, "toggle", u, [rows[u] EXCEPT !.status = x])
    BY <2>0
  <2> DEFINE row == [rows[u] EXCEPT !.status = x]
  <2>2. Keeps("toggle", rows[u], row) /\ "toggle" \notin BulkRoutes
    BY ReadKeeps DEF BulkRoutes
  <2>3. Load(r, "toggle", u, row)
    BY <2>1
  <2> HIDE DEF row
  <2> QED
    BY <1>1, <2>2, <2>3
<1>5. ASSUME UpdateProfile(r) PROVE Good
  <2>0. PICK u \in Users : \E x, y : Load(r, "profile", u, [rows[u] EXCEPT !.password = x, !.avatar = y])
    BY <1>5 DEF UpdateProfile
  <2>1. PICK x, y : Load(r, "profile", u, [rows[u] EXCEPT !.password = x, !.avatar = y])
    BY <2>0
  <2> DEFINE row == [rows[u] EXCEPT !.password = x, !.avatar = y]
  <2>2. Keeps("profile", rows[u], row) /\ "profile" \notin BulkRoutes
    BY ReadKeeps DEF BulkRoutes
  <2>3. Load(r, "profile", u, row)
    BY <2>1
  <2> HIDE DEF row
  <2> QED
    BY <1>1, <2>2, <2>3
<1>6. ASSUME ChangePassword(r) PROVE Good
  <2>0. PICK u \in Users : \E x : Load(r, "changePassword", u, [rows[u] EXCEPT !.password = x, !.force = FALSE])
    BY <1>6 DEF ChangePassword
  <2>1. PICK x : Load(r, "changePassword", u, [rows[u] EXCEPT !.password = x, !.force = FALSE])
    BY <2>0
  <2> DEFINE row == [rows[u] EXCEPT !.password = x, !.force = FALSE]
  <2>2. Keeps("changePassword", rows[u], row) /\ "changePassword" \notin BulkRoutes
    BY ReadKeeps DEF BulkRoutes
  <2>3. Load(r, "changePassword", u, row)
    BY <2>1
  <2> HIDE DEF row
  <2> QED
    BY <1>1, <2>2, <2>3
<1>7. ASSUME Forgot(r) PROVE Good
  <2>1. PICK u \in Users : Load(r, "forgot", u, rows[u])
    BY <1>7 DEF Forgot
  <2> DEFINE row == rows[u]
  <2>2. Keeps("forgot", rows[u], row) /\ "forgot" \notin BulkRoutes
    BY ReadKeeps DEF BulkRoutes
  <2>3. Load(r, "forgot", u, row)
    BY <2>1
  <2> HIDE DEF row
  <2> QED
    BY <1>1, <2>2, <2>3
<1>8. ASSUME Redeem(r) PROVE Good
  <2>0. PICK u \in Users : \E x : Load(r, "redeem", u, [rows[u] EXCEPT !.password = x, !.force = FALSE])
    BY <1>8 DEF Redeem
  <2>1. PICK x : Load(r, "redeem", u, [rows[u] EXCEPT !.password = x, !.force = FALSE])
    BY <2>0
  <2> DEFINE row == [rows[u] EXCEPT !.password = x, !.force = FALSE]
  <2>2. Keeps("redeem", rows[u], row) /\ "redeem" \notin BulkRoutes
    BY ReadKeeps DEF BulkRoutes
  <2>3. Load(r, "redeem", u, row)
    BY <2>1
  <2> HIDE DEF row
  <2> QED
    BY <1>1, <2>2, <2>3
<1>9. ASSUME Upload(r) PROVE Good
  <2>1. PICK u \in Users : Load(r, "upload", u, [rows[u] EXCEPT !.avatar = r])
    BY <1>9 DEF Upload
  <2> DEFINE row == [rows[u] EXCEPT !.avatar = r]
  <2>2. Keeps("upload", rows[u], row) /\ "upload" \notin BulkRoutes
    BY ReadKeeps DEF BulkRoutes
  <2>3. Load(r, "upload", u, row)
    BY <2>1
  <2> HIDE DEF row
  <2> QED
    BY <1>1, <2>2, <2>3
<1>10. CASE ForgotSilently(r) \/ StartBulk(r) \/ Refuse(r)
  BY <1>10 DEF ForgotSilently, StartBulk, Refuse, TypeOK, InFlight, database, history
<1> QED
  BY <1>2, <1>3, <1>4, <1>5, <1>6, <1>7, <1>8, <1>9, <1>10 DEF Arrive, Good

(* The commit of r leaves StoredRow(r); nobody else has the row locked.    *)
LEMMA CommitWrites ==
  ASSUME TypeOK, Shape, OneLock, NEW r \in Requests, Commit(r)
  PROVE  /\ at[r] \in InFlight /\ target[r] \in Users /\ at'[r] \notin InFlight
         /\ CanWrite(r, target[r])
         /\ rows' = [rows EXCEPT ![target[r]] = StoredRow(r)]
         /\ Outdates(r, target[r], StoredRow(r))
         /\ written' = written \cup {<<r, target[r]>>}
<1>1. at[r] = "audited" /\ target[r] \in Users /\ op[r] \in TxRoutes
  BY DEF Commit, Shape, InFlight
<1>2. HoldsLock(r, target[r])
  BY <1>1 DEF HoldsLock
<1>3. CanWrite(r, target[r])
  BY <1>1, <1>2 DEF CanWrite, OneLock
<1>4. at'[r] \notin InFlight
  BY DEF Commit, Conclude, Finished, TypeOK, InFlight
<1> QED
  BY <1>1, <1>3, <1>4 DEF Commit, InFlight

(* Every step keeps the locks apart and the fresh rows right.              *)
LEMMA KeptStep ==
  ASSUME TypeOK, Shape, OneLock, Kept, [Next]_vars
  PROVE  OneLock' /\ Kept'
<1>1. ASSUME NEW r \in Requests, Arrive(r) PROVE OneLock' /\ Kept'
  <2>t. Touches(r)
    BY <1>1, StepTouches
  <2>1. CASE at'[r] \notin InFlight /\ rows' = rows /\ stale' = stale
    BY <2>t, <2>1, NoWrite DEF InFlight
  <2>2. CASE /\ at'[r] = "loaded" /\ op'[r] \in Routes \ BulkRoutes
             /\ rows' = rows /\ stale' = stale
             /\ target'[r] \in Users
             /\ Keeps(op'[r], rows[target'[r]], entity'[r])
    <3>1. ASSUME NEW q \in Requests \ {r} PROVE KeptOf(q)'
      BY <2>t, <2>2 DEF Kept, KeptOf, StoredRow, Touches
    <3>2. KeptOf(r)'
      BY <2>2 DEF KeptOf, StoredRow, BulkRoutes
    <3>3. ASSUME NEW q \in Requests, NEW u \in Users, HoldsLock(q, u)' PROVE HoldsLock(q, u)
      BY <2>t, <2>2, <3>3 DEF HoldsLock, Touches
    <3>4. OneLock'
      BY <3>3 DEF OneLock
    <3> QED
      BY <3>1, <3>2, <3>4 DEF Kept
  <2> QED
    BY <1>1, <2>1, <2>2, ArriveKeeps
<1>2. ASSUME NEW r \in Requests, Proceed(r) \/ Fail(r) PROVE OneLock' /\ Kept'
  <2>t. Touches(r)
    BY <1>2, StepTouches
  <2>1. CASE BulkSkip(r)
    BY <2>t, <2>1, NoWrite DEF BulkSkip, database, history, InFlight
  <2>2. CASE BulkReply(r)
    BY <2>t, <2>2, NoWrite DEF BulkReply, database, history, TypeOK, InFlight
  <2>3. CASE StoreRow(r)
    BY <2>t, <2>3, NoWrite DEF StoreRow, database, history, TypeOK, InFlight
  <2>4. CASE ClearResetToken(r)
    BY <2>t, <2>4, NoWrite DEF ClearResetToken, database, history, TypeOK, InFlight
  <2>5. CASE WriteAudit(r)
    BY <2>t, <2>5, NoWrite DEF WriteAudit, database, history, TypeOK, InFlight
  <2>6. CASE PutObject(r)
    BY <2>t, <2>6, NoWrite DEF PutObject, database, history, TypeOK, InFlight
  <2>7. CASE SaveResetToken(r)
    BY <2>t, <2>7, NoWrite DEF SaveResetToken, TypeOK, InFlight
  <2>8. CASE ReplySaved(r)
    BY <2>t, <2>8, NoWrite DEF ReplySaved, history, TypeOK, InFlight
  <2>9. CASE Rollback(r)
    BY <2>t, <2>9, NoWrite DEF Rollback, database, Conclude, TypeOK, InFlight
  <2>10. CASE GiveUp(r)
    BY <2>t, <2>10, NoWrite DEF GiveUp, database, TypeOK, InFlight
  <2>11. CASE SaveAvatar(r)
    <3>1. /\ CanWrite(r, target[r]) /\ rows' = [rows EXCEPT ![target[r]] = entity[r]]
          /\ Outdates(r, target[r], entity[r]) /\ at'[r] \notin InFlight
      BY <2>11 DEF SaveAvatar, TypeOK, InFlight
    <3> QED
      BY <2>t, <3>1, RowWrite
  <2>12. CASE Commit(r)
    BY <2>t, <2>12, CommitWrites, RowWrite
  <2>13. CASE BulkLoad(r)
    <3>1. PICK u \in Users : /\ ~BulkSkips(op[r], rows[u])
                             /\ target' = [target EXCEPT ![r] = u]
                             /\ entity' = [entity EXCEPT ![r] = BulkEntity(op[r], rows[u])]
      BY <2>13 DEF BulkLoad
    <3>2. /\ op' = op /\ at'[r] = "loaded" /\ rows' = rows /\ stale' = stale
          /\ op[r] \in BulkRoutes /\ at[r] = "batch"
      BY <2>13 DEF BulkLoad, database, history, TypeOK, Shape
    <3>3. target'[r] = u /\ entity'[r] = BulkEntity(op[r], rows[u])
      BY <3>1 DEF TypeOK
    <3>4. rows[u].role # "admin" /\ ~rows[u].deleted
      BY <3>1 DEF BulkSkips
    <3>5. Keeps(op[r], rows[u], StoredRow(r)')
      <4>1. CASE op[r] = "bulkDelete"
        <5>1. StoredRow(r)' = [rows[u] EXCEPT !.deleted = TRUE]
          BY <3>2, <3>3, <4>1 DEF StoredRow
        <5>2. Keeps("bulkDelete", rows[u], [rows[u] EXCEPT !.deleted = TRUE])
          BY ReadKeeps
        <5> QED
          BY <4>1, <5>1, <5>2
      <4>2. CASE op[r] # "bulkDelete"
        <5>1. StoredRow(r)' = BulkEntity(op[r], rows[u])
          BY <3>2, <3>3, <4>2 DEF StoredRow
        <5>2. op[r] \in {"bulkLock", "bulkUnlock"}
          BY <3>2, <4>2 DEF BulkRoutes
        <5>3. PICK x : BulkEntity(op[r], rows[u]) = [rows[u] EXCEPT !.status = x]
          BY <5>2 DEF BulkEntity
        <5>4. Keeps(op[r], rows[u], [rows[u] EXCEPT !.status = x])
          BY <5>2, ReadKeeps
        <5> QED
          BY <5>1, <5>3, <5>4
      <4> QED
        BY <4>1, <4>2
    <3>6. KeptOf(r)'
      BY <3>2, <3>3, <3>4, <3>5 DEF KeptOf
    <3>7. ASSUME NEW q \in Requests \ {r} PROVE KeptOf(q)'
      BY <2>t, <3>2 DEF Kept, KeptOf, StoredRow, Touches
    <3>8. ASSUME NEW q \in Requests, NEW v \in Users, HoldsLock(q, v)' PROVE HoldsLock(q, v)
      BY <2>t, <3>2, <3>8 DEF HoldsLock, Touches
    <3>9. OneLock'
      BY <3>8 DEF OneLock
    <3> QED
      BY <3>6, <3>7, <3>9 DEF Kept
  <2> QED
    BY <1>2, <2>1, <2>2, <2>3, <2>4, <2>5, <2>6, <2>7, <2>8, <2>9,
       <2>10, <2>11, <2>12, <2>13 DEF Proceed, Fail
<1>3. CASE Expire \/ UNCHANGED vars
  <2>1. rows' = rows /\ stale' = stale /\ UNCHANGED handler
    BY <1>3 DEF Expire, vars, database, history, handler
  <2> QED
    BY <2>1 DEF OneLock, Kept, KeptOf, StoredRow, HoldsLock, handler
<1> QED
  BY <1>1, <1>2, <1>3 DEF Next

(* In every behaviour.                                                     *)
LEMMA KeptHolds == Spec => [](OneLock /\ Kept)
<1>1. Init => OneLock /\ Kept
  BY DEF Init, OneLock, Kept, KeptOf, HoldsLock, InFlight
<1>2. TypeOK /\ Shape /\ OneLock /\ Kept /\ [Next]_vars => (OneLock /\ Kept)'
  BY KeptStep
<1> QED
  BY <1>1, <1>2, TypesHold, PTL DEF Spec

(* A step that records a write is made by the request and about the        *)
(* account recorded, and leaves StoredRow there or touches no row.         *)
LEMMA WriteOf ==
  ASSUME TypeOK, Shape, OneLock, [Next]_vars,
         NEW r \in Requests, NEW u \in Users, <<r, u>> \in written' \ written
  PROVE  /\ at[r] \in InFlight /\ target[r] = u
         /\ \/ rows'[u] = StoredRow(r)
            \/ op[r] \notin BulkRoutes /\ rows' = rows
<1>1. ASSUME NEW q \in Requests, Quiet(q) PROVE FALSE
  BY <1>1 DEF Quiet
<1>2. PICK q \in Requests : Commit(q) \/ SaveAvatar(q) \/ SaveResetToken(q) \/ ReplySaved(q)
  <2>1. written' = written => FALSE
    OBVIOUS
  <2>2. \/ \E q \in Requests : Arrive(q) \/ Proceed(q) \/ Fail(q)
        \/ written' = written
    BY DEF Next, Expire, vars, history
  <2>3. PICK q \in Requests : Arrive(q) \/ Proceed(q) \/ Fail(q)
    BY <2>1, <2>2
  <2> QED
    BY <2>3, <1>1, ArriveQuiet, ProceedQuiet, FailQuiet
<1>3. CASE Commit(q)
  <2>1. r = q /\ u = target[q]
    BY <1>3, CommitWrites
  <2> QED
    BY <1>3, <2>1, CommitWrites DEF TypeOK
<1>4. CASE SaveAvatar(q)
  <2>1. r = q /\ u = target[q] /\ at[r] = "uploaded" /\ rows' = [rows EXCEPT ![u] = entity[r]]
    BY <1>4 DEF SaveAvatar
  <2>2. op[r] = "upload"
    BY <2>1 DEF Shape
  <2> QED
    BY <2>1, <2>2 DEF TypeOK, StoredRow, InFlight
<1>5. CASE SaveResetToken(q)
  BY <1>5 DEF SaveResetToken, InFlight, BulkRoutes
<1>6. CASE ReplySaved(q)
  BY <1>6 DEF ReplySaved, history
<1> QED
  BY <1>2, <1>3, <1>4, <1>5, <1>6

(* Update(ctx, u) writes every column, and yet a handler whose row nobody  *)
(* changed since it was read changes only the columns it is about.         *)
THEOREM FreshWritesTheorem == Spec => FreshWritesKeepTheRest
<1>1. TypeOK /\ Shape /\ OneLock /\ Kept /\ [Next]_vars => [FreshKept]_vars
  <2> SUFFICES ASSUME TypeOK, Shape, OneLock, Kept, [Next]_vars,
                      NEW r \in Requests, NEW u \in Users,
                      <<r, u>> \in written' \ written, r \notin stale
               PROVE  Keeps(op[r], rows[u], rows'[u])
    BY DEF FreshKept
  <2>1. /\ at[r] \in InFlight /\ target[r] = u
        /\ rows'[u] = StoredRow(r) \/ rows' = rows
    BY WriteOf
  <2>2. Keeps(op[r], rows[u], StoredRow(r))
    BY <2>1 DEF Kept, KeptOf
  <2> QED
    BY <2>1, <2>2, ReadKeeps
<1> QED
  BY <1>1, TypesHold, KeptHolds, PTL DEF Spec, FreshWritesKeepTheRest

(* bulk-lock, bulk-unlock and bulk-delete write to an administrator or to  *)
(* a deleted account only when that changed after the check and before the *)
(* UPDATE took the lock of the row.                                        *)
THEOREM AdminsTheorem == Spec => AdminsAreSpared
<1>1. TypeOK /\ Shape /\ OneLock /\ Kept /\ [Next]_vars => [SparesAdmins]_vars
  <2> SUFFICES ASSUME TypeOK, Shape, OneLock, Kept, [Next]_vars,
                      NEW r \in Requests, NEW u \in Users,
                      <<r, u>> \in written' \ written, op[r] \in BulkRoutes,
                      rows[u].role = "admin" \/ rows[u].deleted
               PROVE  r \in stale
    BY DEF SparesAdmins
  <2>1. at[r] \in InFlight /\ target[r] = u
    BY WriteOf
  <2> QED
    BY <2>1 DEF Kept, KeptOf
<1> QED
  BY <1>1, TypesHold, KeptHolds, PTL DEF Spec, AdminsAreSpared

(***************************************************************************)
(* Reset links: UserAccounts implements ResetLinks, every step is a step   *)
(* of the links or none.                                                   *)
(***************************************************************************)

(* A token in a row was written there by its request; a token that has     *)
(* expired was written once; a token is written at most once.              *)
Stored ==
  /\ \A u \in Users : reset[u] # None => <<reset[u], u>> \in written
  /\ \A k \in expired : at[k] \in {"saved", "ok", "error"}
  /\ \A r \in Requests, u \in Users :
       op[r] = "forgot" /\ at[r] = "loaded" => <<r, u>> \notin written

(* A request that stores no token, reads no row for a reset and takes no   *)
(* step back.                                                              *)
LEMMA StoredLocal ==
  ASSUME TypeOK, Shape, Tokens, Stored, NEW r \in Requests, Touches(r),
         expired' = expired, \A v \in Users : reset'[v] \in {reset[v], None},
         written \subseteq written', at'[r] # "idle",
         at[r] = "saved" => at'[r] \in {"saved", "ok", "error"},
         op'[r] = "forgot" /\ at'[r] = "loaded" =>
           \A u \in Users : <<r, u>> \notin written',
         \A q \in Requests \ {r}, u \in Users : <<q, u>> \in written' => <<q, u>> \in written
  PROVE  Stored'
<1>1. \A u \in Users : reset'[u] # None => <<reset'[u], u>> \in written'
  BY DEF Stored
<1>2. \A k \in expired' : at'[k] \in {"saved", "ok", "error"}
  BY DEF Stored, Touches, TypeOK, Finished
<1>3. ASSUME NEW q \in Requests, NEW u \in Users, op'[q] = "forgot", at'[q] = "loaded"
      PROVE  <<q, u>> \notin written'
  BY <1>3 DEF Stored, Touches
<1> QED
  BY <1>1, <1>2, <1>3 DEF Stored

(* Only SaveResetToken writes a token, and records it.                     *)
LEMMA StoredStep ==
  ASSUME TypeOK, Shape, Tokens, Stored, [Next]_vars
  PROVE  Stored'
<1>1. ASSUME NEW r \in Requests, Arrive(r) PROVE Stored'
  <2>t. Touches(r)
    BY <1>1, StepTouches
  <2>1. ASSUME NEW route, NEW u, NEW row, Reads(r, route, u, row) PROVE Stored'
    <3>1. /\ at[r] = "idle" /\ at'[r] = "loaded" /\ expired' = expired /\ reset' = reset
          /\ written' = written
      BY <2>1 DEF Reads, Load, TypeOK, database, history
    <3> QED
      BY <3>1, <2>t, StoredLocal DEF Shape
  <2>2. CASE ForgotSilently(r) \/ StartBulk(r) \/ Refuse(r)
    <3>1. /\ at[r] = "idle" /\ at'[r] \in {"ok", "error", "batch"}
          /\ expired' = expired /\ reset' = reset /\ written' = written
      BY <2>2 DEF ForgotSilently, StartBulk, Refuse, TypeOK, database, history
    <3> QED
      BY <3>1, <2>t, StoredLocal
  <2> QED
    BY <1>1, <2>1, <2>2, ArriveReads
<1>2. ASSUME NEW r \in Requests, Proceed(r) \/ Fail(r) PROVE Stored'
  <2>t. Touches(r)
    BY <1>2, StepTouches
  <2>1. CASE BulkSkip(r)
    BY <2>t, <2>1, StoredLocal DEF BulkSkip, database, history, Stored
  <2>2. CASE BulkLoad(r)
    BY <2>t, <2>2, StoredLocal DEF BulkLoad, database, history, TypeOK, Shape, BulkRoutes
  <2>3. CASE BulkReply(r)
    BY <2>t, <2>3, StoredLocal DEF BulkReply, database, history, TypeOK
  <2>4. CASE StoreRow(r)
    BY <2>t, <2>4, StoredLocal DEF StoreRow, database, history, TypeOK
  <2>5. CASE ClearResetToken(r)
    BY <2>t, <2>5, StoredLocal DEF ClearResetToken, database, history, TypeOK
  <2>6. CASE WriteAudit(r)
    BY <2>t, <2>6, StoredLocal DEF WriteAudit, database, history, TypeOK
  <2>7. CASE Commit(r)
    <3>1. /\ expired' = expired /\ \A v \in Users : reset'[v] \in {reset[v], None}
          /\ written' = written \cup {<<r, target[r]>>}
          /\ at[r] = "audited" /\ at'[r] \in {"batch", "ok", "error"}
      BY <2>7 DEF Commit, Conclude, Finished, TypeOK
    <3> QED
      BY <2>t, <3>1, StoredLocal
  <2>8. CASE PutObject(r)
    BY <2>t, <2>8, StoredLocal DEF PutObject, database, history, TypeOK
  <2>9. CASE SaveAvatar(r)
    BY <2>t, <2>9, StoredLocal DEF SaveAvatar, TypeOK
  <2>10. CASE ReplySaved(r)
    BY <2>t, <2>10, StoredLocal DEF ReplySaved, history, TypeOK
  <2>11. CASE Rollback(r)
    <3>1. /\ expired' = expired /\ reset' = reset /\ written' = written
          /\ at[r] # "saved" /\ at'[r] \in {"batch", "error"}
      BY <2>11 DEF Rollback, database, Conclude, TypeOK
    <3> QED
      BY <2>t, <3>1, StoredLocal
  <2>12. CASE GiveUp(r)
    BY <2>t, <2>12, StoredLocal DEF GiveUp, database, TypeOK
  <2>13. CASE SaveResetToken(r)
    <3>1. /\ at[r] = "loaded" /\ op' = op /\ expired' = expired
          /\ at' = [at EXCEPT ![r] = "saved"]
          /\ reset' = [reset EXCEPT ![target[r]] = r]
          /\ written' = written \cup {<<r, target[r]>>}
      BY <2>13 DEF SaveResetToken
    <3>2. \A u \in Users : reset'[u] # None => <<reset'[u], u>> \in written'
      BY <3>1 DEF Stored, TypeOK
    <3>3. \A k \in expired' : at'[k] \in {"saved", "ok", "error"}
      BY <3>1 DEF Stored, TypeOK
    <3>4. \A q \in Requests, u \in Users :
            op'[q] = "forgot" /\ at'[q] = "loaded" => <<q, u>> \notin written'
      BY <3>1 DEF Stored, TypeOK
    <3> QED
      BY <3>2, <3>3, <3>4 DEF Stored
  <2> QED
    BY <1>2, <2>1, <2>2, <2>3, <2>4, <2>5, <2>6, <2>7, <2>8, <2>9,
       <2>10, <2>11, <2>12, <2>13 DEF Proceed, Fail
<1>3. CASE Expire
  <2>1. PICK u \in Users : reset[u] # None /\ expired' = expired \cup {reset[u]}
    BY <1>3 DEF Expire
  <2>2. at[reset[u]] \in {"saved", "ok", "error"}
    BY <2>1 DEF Tokens
  <2> QED
    BY <1>3, <2>1, <2>2 DEF Expire, Stored, database, handler, history
<1>4. CASE UNCHANGED vars
  BY <1>4 DEF vars, Stored
<1> QED
  BY <1>1, <1>2, <1>3, <1>4 DEF Next

(* In every behaviour.                                                     *)
LEMMA StoredHolds == Spec => []Stored
<1>1. Init => Stored
  BY DEF Init, Stored
<1>2. TypeOK /\ Shape /\ Tokens /\ Stored /\ [Next]_vars => Stored'
  BY StoredStep
<1> QED
  BY <1>1, <1>2, TypesHold, TokensHold, PTL DEF Spec

(***************************************************************************)
(* How the links of the rows change.                                       *)
(***************************************************************************)

(* No two accounts share a live link.                                      *)
LEMMA LinkIsOfOne ==
  ASSUME Tokens, NEW u \in Users, LiveLink(u) # None,
         NEW v \in Users, LiveLink(v) = LiveLink(u)
  PROVE  v = u /\ LiveLink(u) = reset[u]
BY DEF LiveLink, Tokens

(* The row of u gets the link new, another one than before; no other row   *)
(* changes, and no request is taken for one that stored a token.           *)
LEMMA RowReplaced ==
  ASSUME TypeOK, Shape, Tokens, Stored, NEW u \in Users, NEW new,
         LiveLinks' = [LiveLinks EXCEPT ![u] = new], new # LiveLink(u),
         \A v \in Users : LiveLink(v) # None => LiveLink(v) # new,
         \A k \in Requests :
           (op'[k] = "forgot" /\ \E v \in Users : <<k, v>> \in written')
             <=> (op[k] = "forgot" /\ \E v \in Users : <<k, v>> \in written) \/ k = new,
         new \in Requests \cup {None}, new \notin DeadLinks
  PROVE  Links!Replace(u, new)
<1>1. \A v \in Users : LiveLinks[v] = LiveLink(v) /\ LiveLinks'[v] = LiveLink(v)'
  BY DEF LiveLinks
<1>2. \A v \in Users : LiveLink(v)' = IF v = u THEN new ELSE LiveLink(v)
  BY <1>1 DEF LiveLinks
<1>3. ASSUME NEW k \in Requests
      PROVE  k \in DeadLinks' <=> k \in DeadLinks \/ k = LiveLink(u)
  <2> DEFINE Past == op[k] = "forgot" /\ \E v \in Users : <<k, v>> \in written
  <2>1. k \in DeadLinks <=> Past /\ \A v \in Users : LiveLink(v) # k
    BY DEF DeadLinks
  <2>2. k \in DeadLinks' <=> (Past \/ k = new) /\ \A v \in Users : LiveLink(v)' # k
    BY DEF DeadLinks
  <2>3. k = LiveLink(u) => Past
    BY UserAccountsAssumption DEF UserAccountsAssumption, LiveLink, Stored, Tokens
  <2>4. \A v \in Users : k = LiveLink(u) /\ LiveLink(v) = k => v = u
    BY LinkIsOfOne, UserAccountsAssumption DEF UserAccountsAssumption
  <2> HIDE DEF Past
  <2>5. CASE k = new
    BY <1>2, <2>2, <2>5
  <2>6. CASE k # new /\ k = LiveLink(u)
    BY <1>2, <2>2, <2>3, <2>4, <2>6
  <2>7. CASE k # new /\ k # LiveLink(u)
    BY <1>2, <2>1, <2>2, <2>7
  <2> QED
    BY <2>5, <2>6, <2>7
<1>4. DeadLinks \subseteq Requests /\ DeadLinks' \subseteq Requests
  BY DEF DeadLinks
<1>5. LiveLink(u) \in Requests \cup {None} /\ None \notin Requests
  BY UserAccountsAssumption DEF UserAccountsAssumption, TypeOK, LiveLink
<1>6. DeadLinks' = DeadLinks \cup ({LiveLinks[u]} \ {None})
  BY <1>1, <1>3, <1>4, <1>5
<1> QED
  BY <1>6 DEF Links!Replace

(* A step that touches no token and no request that redeems a link.        *)
LEMMA LinksStand ==
  ASSUME TypeOK, Shape, NEW r \in Requests, Touches(r),
         reset' = reset, expired' = expired,
         (op'[r] = op[r] /\ key'[r] = key[r]) \/ at[r] = "idle",
         \/ written' = written
         \/ /\ op[r] \notin {"forgot", "redeem"} /\ at[r] # "idle"
            /\ written' = written \cup {<<r, target[r]>>},
         Redeeming(r)' => Redeeming(r) /\ key'[r] = key[r] /\ target'[r] = target[r],
         Redeeming(r) => Redeeming(r)' /\ key'[r] = key[r] /\ target'[r] = target[r]
  PROVE  UNCHANGED <<LiveLinks, DeadLinks, HeldLinks, UsedLinks>>
<1>1. LiveLinks' = LiveLinks /\ \A u \in Users : LiveLink(u)' = LiveLink(u)
  BY DEF LiveLinks, LiveLink
<1>2. \A k \in Requests, u \in Users :
        op'[k] = "forgot" /\ <<k, u>> \in written' <=> op[k] = "forgot" /\ <<k, u>> \in written
  <2>1. ASSUME NEW k \in Requests, NEW u \in Users
        PROVE  op'[k] = "forgot" /\ <<k, u>> \in written' <=> op[k] = "forgot" /\ <<k, u>> \in written
    <3>1. CASE k = r
      BY <3>1 DEF Shape
    <3>2. CASE k # r
      BY <3>2 DEF Touches
    <3> QED
      BY <3>1, <3>2
  <2> QED
    BY <2>1
<1>3. DeadLinks' = DeadLinks
  BY <1>1, <1>2 DEF DeadLinks
<1>4. \A q \in Requests : (Redeeming(q)' <=> Redeeming(q))
                         /\ (Redeeming(q) => key'[q] = key[q] /\ target'[q] = target[q])
  BY DEF Redeeming, Touches
<1>5. HeldLinks' = HeldLinks
  BY <1>4 DEF HeldLinks
<1>6. UsedLinks' = UsedLinks
  <2>1. \A w \in written' \cup written : w \in Requests \X Users \/ w = <<r, target[r]>>
    BY DEF TypeOK
  <2>2. ASSUME NEW w \in written' \cup written
        PROVE  /\ w \in written' /\ op'[w[1]] = "redeem" <=> w \in written /\ op[w[1]] = "redeem"
               /\ w \in written /\ op[w[1]] = "redeem" => key'[w[1]] = key[w[1]]
    <3>1. CASE w[1] = r
      <4>1. w \in written => w = <<r, w[2]>> /\ w[2] \in Users
        BY <3>1 DEF TypeOK
      <4>2. CASE at[r] = "idle"
        BY <3>1, <4>1, <4>2 DEF Shape
      <4>3. CASE at[r] # "idle"
        BY <3>1, <4>3
      <4> QED
        BY <4>2, <4>3
    <3>2. CASE w[1] # r
      BY <2>1, <3>2 DEF Touches
    <3> QED
      BY <3>1, <3>2
  <2> QED
    BY <2>2 DEF UsedLinks
<1> QED
  BY <1>1, <1>3, <1>5, <1>6

(* A look-up that finds a row admits its link.                             *)
LEMMA RedeemAdmits ==
  ASSUME TypeOK, Shape, Tokens, Stored, NEW r \in Requests, Redeem(r)
  PROVE  \E u \in Users : Links!Admit(r, u)
<1>0. PICK u \in Users, k \in Requests : \E row :
        /\ op[k] = "forgot" /\ at[k] = "ok" /\ Matches(u, k)
        /\ Load(r, "redeem", u, row) /\ key' = [key EXCEPT ![r] = k]
  BY DEF Redeem
<1>1. PICK row :
        /\ op[k] = "forgot" /\ at[k] = "ok" /\ Matches(u, k)
        /\ Load(r, "redeem", u, row) /\ key' = [key EXCEPT ![r] = k]
  BY <1>0
<1>2. /\ at[r] = "idle" /\ op'[r] = "redeem" /\ at'[r] = "loaded" /\ target'[r] = u
      /\ key'[r] = k /\ reset' = reset /\ expired' = expired /\ written' = written
  BY <1>1 DEF Load, TypeOK, database, history
<1>3. LiveLink(u) = k /\ LiveLinks[u] = k /\ k # None
  BY <1>1, UserAccountsAssumption DEF Matches, LiveLink, LiveLinks, UserAccountsAssumption
<1>4. \A q \in Requests \ {r} : /\ op'[q] = op[q] /\ at'[q] = at[q]
                              /\ key'[q] = key[q] /\ target'[q] = target[q]
  BY <1>1 DEF Load, TypeOK
<1>5. LiveLinks' = LiveLinks
  BY <1>2 DEF LiveLinks, LiveLink
<1>6. DeadLinks' = DeadLinks
  <2>1. \A q \in Requests, v \in Users :
          op'[q] = "forgot" /\ <<q, v>> \in written' <=> op[q] = "forgot" /\ <<q, v>> \in written
    BY <1>2, <1>4 DEF Shape
  <2>2. \A v \in Users : LiveLink(v)' = LiveLink(v)
    BY <1>2 DEF LiveLink
  <2> QED
    BY <2>1, <2>2 DEF DeadLinks
<1>7. HeldLinks' = HeldLinks \cup {<<r, k, u>>}
  <2>1. ~Redeeming(r) /\ Redeeming(r)'
    BY <1>2 DEF Redeeming
  <2>2. \A q \in Requests \ {r} : Redeeming(q)' <=> Redeeming(q)
    BY <1>4 DEF Redeeming
  <2> QED
    BY <1>2, <1>4, <2>1, <2>2 DEF HeldLinks
<1>8. UsedLinks' = UsedLinks
  <2>1. ASSUME NEW w \in written PROVE w[1] # r /\ w[1] \in Requests
    <3>1. w[1] \in Requests /\ w[2] \in Users /\ w = <<w[1], w[2]>>
      BY DEF TypeOK
    <3> QED
      BY <1>2, <3>1 DEF Shape
  <2> QED
    BY <1>2, <1>4, <2>1 DEF UsedLinks
<1> QED
  BY <1>3, <1>5, <1>6, <1>7, <1>8 DEF Links!Admit

(* The statement that stores a token issues its link.                      *)
LEMMA SaveIssues ==
  ASSUME TypeOK, Shape, Tokens, Stored, NEW r \in Requests, SaveResetToken(r)
  PROVE  \E u \in Users : Links!Issue(r, u)
<1>1. PICK u \in Users : u = target[r]
  BY DEF SaveResetToken, Shape, InFlight
<1>2. /\ at[r] = "loaded" /\ op[r] = "forgot" /\ op' = op /\ key' = key /\ target' = target
      /\ at' = [at EXCEPT ![r] = "saved"] /\ reset' = [reset EXCEPT ![u] = r]
      /\ written' = written \cup {<<r, u>>} /\ expired' = expired
  BY <1>1 DEF SaveResetToken
<1>3. r \notin expired /\ \A v \in Users : <<r, v>> \notin written /\ reset[v] # r
  BY <1>2, UserAccountsAssumption DEF Stored, Tokens, UserAccountsAssumption
<1>4. r \notin DeadLinks
  BY <1>3 DEF DeadLinks
<1>5. r # None /\ \A v \in Users : LiveLink(v) # r /\ LiveLinks[v] # r
  BY <1>3, UserAccountsAssumption DEF LiveLink, LiveLinks, UserAccountsAssumption
<1>6. LiveLinks' = [LiveLinks EXCEPT ![u] = r]
  BY <1>2, <1>3 DEF LiveLinks, LiveLink, TypeOK
<1>7. \A k \in Requests :
        (op'[k] = "forgot" /\ \E v \in Users : <<k, v>> \in written')
          <=> (op[k] = "forgot" /\ \E v \in Users : <<k, v>> \in written) \/ k = r
  BY <1>2
<1>8. Links!Replace(u, r)
  BY <1>4, <1>5, <1>6, <1>7, RowReplaced
<1>9. HeldLinks' = HeldLinks
  <2>1. \A q \in Requests : Redeeming(q)' <=> Redeeming(q)
    BY <1>2 DEF Redeeming, TypeOK
  <2> QED
    BY <1>2, <2>1 DEF HeldLinks
<1>10. UsedLinks' = UsedLinks
  BY <1>2 DEF UsedLinks
<1> QED
  BY <1>4, <1>5, <1>8, <1>9, <1>10 DEF Links!Issue

(* The commit of a token reset uses its link and ends the live one.        *)
LEMMA CommitUses ==
  ASSUME TypeOK, Shape, Tokens, Stored, NEW r \in Requests, Commit(r), op[r] = "redeem"
  PROVE  \E u \in Users, k \in Requests : Links!Use(r, k, u)
<1>1. PICK u \in Users : u = target[r]
  BY DEF Commit, Shape, InFlight
<1>2. /\ at[r] = "audited" /\ op' = op /\ key' = key /\ expired' = expired
      /\ reset' = [reset EXCEPT ![u] = None] /\ written' = written \cup {<<r, u>>}
      /\ target' = target /\ \E x \in Finished : at' = [at EXCEPT ![r] = x]
  BY <1>1 DEF Commit, Conclude, BulkRoutes
<1>3. PICK k \in Requests : k = key[r]
  BY <1>2 DEF Tokens, Issued, InFlight
<1>4. Redeeming(r) /\ ~Redeeming(r)'
  BY <1>2 DEF Redeeming, Finished, TypeOK
<1>5. \A q \in Requests \ {r} : Redeeming(q)' <=> Redeeming(q)
  BY <1>2 DEF Redeeming, TypeOK
<1>6. <<r, k, u>> \in HeldLinks
  BY <1>1, <1>3, <1>4 DEF HeldLinks
<1>7. HeldLinks' = HeldLinks \ {<<r, k, u>>}
  <2>1. ASSUME NEW h \in HeldLinks, h # <<r, k, u>> PROVE h \in HeldLinks'
    <3>1. PICK q \in Requests : Redeeming(q) /\ h = <<q, key[q], target[q]>>
      BY DEF HeldLinks
    <3>2. q # r
      BY <1>1, <1>3, <2>1, <3>1
    <3> QED
      BY <1>2, <1>5, <3>1, <3>2 DEF HeldLinks
  <2>2. ASSUME NEW h \in HeldLinks' PROVE h \in HeldLinks /\ h # <<r, k, u>>
    <3>1. PICK q \in Requests : Redeeming(q)' /\ h = <<q, key[q], target[q]>>
      BY <1>2 DEF HeldLinks
    <3>2. q # r
      BY <1>4, <3>1
    <3> QED
      BY <1>5, <3>1, <3>2 DEF HeldLinks
  <2> QED
    BY <2>1, <2>2
<1>8. UsedLinks' = UsedLinks \cup {<<r, k, u>>}
  <2> DEFINE Resets(W) == {w \in W : op[w[1]] = "redeem"}
             use(w) == <<w[1], key[w[1]], w[2]>>
  <2>1. Resets(written') = Resets(written) \cup {<<r, u>>}
    BY <1>2
  <2>2. use(<<r, u>>) = <<r, k, u>>
    BY <1>3
  <2>3. UsedLinks = {use(w) : w \in Resets(written)}
    BY DEF UsedLinks
  <2>4. UsedLinks' = {use(w) : w \in Resets(written')}
    BY <1>2 DEF UsedLinks
  <2> QED
    BY <2>1, <2>2, <2>3, <2>4
<1>9. \A q \in Requests :
        (op'[q] = "forgot" /\ \E v \in Users : <<q, v>> \in written')
          <=> (op[q] = "forgot" /\ \E v \in Users : <<q, v>> \in written) \/ q = None
  BY <1>2, UserAccountsAssumption DEF UserAccountsAssumption
<1>10. LiveLinks' = [LiveLinks EXCEPT ![u] = None]
  <2>1. None \notin expired
    BY UserAccountsAssumption DEF UserAccountsAssumption, TypeOK
  <2> QED
    BY <1>2, <2>1 DEF LiveLinks, LiveLink, TypeOK
<1>11. Links!Replace(u, None)
  <2>1. None \notin DeadLinks
    BY UserAccountsAssumption DEF UserAccountsAssumption, DeadLinks
  <2>2. CASE LiveLink(u) # None
    BY <1>9, <1>10, <2>1, <2>2, RowReplaced
  <2>3. CASE LiveLink(u) = None
    <3>1. \A v \in Users : LiveLink(v)' = LiveLink(v)
      <4>1. \A v \in Users : LiveLinks[v] = LiveLink(v) /\ LiveLinks'[v] = LiveLink(v)'
        BY DEF LiveLinks
      <4> QED
        BY <1>10, <2>3, <4>1 DEF LiveLinks
    <3>2. DeadLinks' = DeadLinks
      BY <1>9, <3>1, UserAccountsAssumption DEF DeadLinks, UserAccountsAssumption
    <3> QED
      BY <1>10, <2>3, <3>2 DEF Links!Replace, LiveLinks
  <2> QED
    BY <2>2, <2>3
<1> QED
  BY <1>6, <1>7, <1>8, <1>11 DEF Links!Use

(* A token reset that is rolled back gives up its use.                     *)
LEMMA RollbackDrops ==
  ASSUME TypeOK, Shape, Tokens, NEW r \in Requests, Rollback(r), op[r] = "redeem"
  PROVE  \E u \in Users, k \in Requests : Links!Drop(r, k, u)
<1>1. /\ at[r] \in {"loaded", "stored", "cleared", "audited"}
      /\ op' = op /\ key' = key /\ expired' = expired /\ reset' = reset
      /\ written' = written /\ target' = target /\ at' = [at EXCEPT ![r] = "error"]
  BY DEF Rollback, Conclude, BulkRoutes, database
<1>2. PICK u \in Users, k \in Requests : u = target[r] /\ k = key[r]
  BY <1>1 DEF Tokens, Issued, InFlight, Shape
<1>3. Redeeming(r) /\ ~Redeeming(r)' /\ \A q \in Requests \ {r} : Redeeming(q)' <=> Redeeming(q)
  BY <1>1 DEF Redeeming, TypeOK
<1>4. <<r, k, u>> \in HeldLinks
  BY <1>2, <1>3 DEF HeldLinks
<1>5. HeldLinks' = HeldLinks \ {<<r, k, u>>}
  <2>1. ASSUME NEW h \in HeldLinks, h # <<r, k, u>> PROVE h \in HeldLinks'
    <3>1. PICK q \in Requests : Redeeming(q) /\ h = <<q, key[q], target[q]>>
      BY DEF HeldLinks
    <3>2. q # r
      BY <1>2, <2>1, <3>1
    <3> QED
      BY <1>1, <1>3, <3>1, <3>2 DEF HeldLinks
  <2>2. ASSUME NEW h \in HeldLinks' PROVE h \in HeldLinks /\ h # <<r, k, u>>
    <3>1. PICK q \in Requests : Redeeming(q)' /\ h = <<q, key[q], target[q]>>
      BY <1>1 DEF HeldLinks
    <3>2. q # r
      BY <1>3, <3>1
    <3> QED
      BY <1>3, <3>1, <3>2 DEF HeldLinks
  <2> QED
    BY <2>1, <2>2
<1>6. LiveLinks' = LiveLinks /\ DeadLinks' = DeadLinks /\ UsedLinks' = UsedLinks
  BY <1>1 DEF LiveLinks, LiveLink, DeadLinks, UsedLinks
<1> QED
  BY <1>4, <1>5, <1>6 DEF Links!Drop

(* A token that expires takes its link along, unless it has expired.       *)
LEMMA ExpireEnds ==
  ASSUME TypeOK, Shape, Tokens, Stored, Expire
  PROVE  \/ \E u \in Users : Links!Expires(u)
         \/ UNCHANGED <<LiveLinks, DeadLinks, HeldLinks, UsedLinks>>
<1>1. PICK u \in Users : reset[u] # None /\ expired' = expired \cup {reset[u]}
  BY DEF Expire
<1>2. /\ op' = op /\ at' = at /\ target' = target /\ key' = key
      /\ reset' = reset /\ written' = written
  BY DEF Expire, database, handler, history
<1>3. HeldLinks' = HeldLinks /\ UsedLinks' = UsedLinks
  BY <1>2 DEF HeldLinks, UsedLinks, Redeeming
<1>4. CASE reset[u] \in expired
  <2>1. expired' = expired
    BY <1>1, <1>4
  <2>2. LiveLinks' = LiveLinks /\ DeadLinks' = DeadLinks
    BY <1>2, <2>1 DEF LiveLinks, DeadLinks, LiveLink
  <2> QED
    BY <1>3, <2>2
<1>5. CASE reset[u] \notin expired
  <2>1. LiveLink(u) = reset[u] /\ LiveLinks[u] # None
    BY <1>1, <1>5 DEF LiveLink, LiveLinks
  <2>2. \A v \in Users : reset[v] = reset[u] => v = u
    BY <1>1 DEF Tokens
  <2>3. LiveLinks' = [LiveLinks EXCEPT ![u] = None]
    BY <1>1, <1>2, <2>2 DEF LiveLinks, LiveLink
  <2>4. None \notin DeadLinks
    BY UserAccountsAssumption DEF UserAccountsAssumption, DeadLinks
  <2>5. \A k \in Requests :
          (op'[k] = "forgot" /\ \E v \in Users : <<k, v>> \in written')
            <=> (op[k] = "forgot" /\ \E v \in Users : <<k, v>> \in written) \/ k = None
    BY <1>2, UserAccountsAssumption DEF UserAccountsAssumption
  <2>6. Links!Replace(u, None)
    BY <1>1, <2>1, <2>3, <2>4, <2>5, RowReplaced
  <2> QED
    BY <1>3, <2>1, <2>6 DEF Links!Expires
<1> QED
  BY <1>4, <1>5

(* Every step of the handlers is a step of the links, or none.             *)
LEMMA LinksStep ==
  ASSUME TypeOK, Shape, Tokens, Stored, [Next]_vars
  PROVE  Links!LinksNext \/ UNCHANGED <<LiveLinks, DeadLinks, HeldLinks, UsedLinks>>
<1> DEFINE Goal == Links!LinksNext \/ UNCHANGED <<LiveLinks, DeadLinks, HeldLinks, UsedLinks>>
<1>1. ASSUME NEW r \in Requests, Arrive(r) PROVE Goal
  <2>t. Touches(r)
    BY <1>1, StepTouches
  <2>1. CASE Redeem(r)
    BY <2>1, RedeemAdmits DEF Links!LinksNext
  <2>2. CASE ~Redeem(r)
    <3>1. /\ at[r] = "idle" /\ reset' = reset /\ expired' = expired /\ written' = written
          /\ ~Redeeming(r)'
      BY <1>1, <2>2 DEF Arrive, Update, AdminReset, ToggleStatus, UpdateProfile, ChangePassword,
         Forgot, Upload, ForgotSilently, StartBulk, Refuse, Load, Redeeming, BulkRoutes, TypeOK,
         database, history
    <3>2. ~Redeeming(r)
      BY <3>1 DEF Redeeming
    <3> QED
      BY <2>t, <3>1, <3>2, LinksStand
  <2> QED
    BY <2>1, <2>2
<1>2. ASSUME NEW r \in Requests, Proceed(r) \/ Fail(r) PROVE Goal
  <2>t. Touches(r)
    BY <1>2, StepTouches
  <2>1. CASE BulkSkip(r)
    BY <2>t, <2>1, LinksStand DEF BulkSkip, database, history, Redeeming
  <2>2. CASE BulkLoad(r)
    BY <2>t, <2>2, LinksStand DEF BulkLoad, database, history, Redeeming, Shape, BulkRoutes
  <2>3. CASE BulkReply(r)
    BY <2>t, <2>3, LinksStand DEF BulkReply, database, history, Redeeming, TypeOK
  <2>4. CASE StoreRow(r)
    BY <2>t, <2>4, LinksStand DEF StoreRow, database, history, Redeeming, TypeOK
  <2>5. CASE ClearResetToken(r)
    BY <2>t, <2>5, LinksStand DEF ClearResetToken, database, history, Redeeming, TypeOK
  <2>6. CASE WriteAudit(r)
    BY <2>t, <2>6, LinksStand DEF WriteAudit, database, history, Redeeming, TypeOK
  <2>7. CASE Commit(r) /\ op[r] = "redeem"
    BY <2>7, CommitUses DEF Links!LinksNext
  <2>8. CASE Commit(r) /\ op[r] # "redeem"
    <3>1. /\ reset' = reset /\ expired' = expired /\ op' = op /\ key' = key
          /\ written' = written \cup {<<r, target[r]>>} /\ op[r] # "forgot" /\ at[r] # "idle"
      BY <2>8 DEF Commit, Shape, TxRoutes, BulkRoutes
    <3>2. ~Redeeming(r) /\ ~Redeeming(r)'
      BY <2>8, <3>1 DEF Redeeming
    <3> QED
      BY <2>t, <3>1, <3>2, LinksStand, <2>8
  <2>9. CASE PutObject(r)
    BY <2>t, <2>9, LinksStand DEF PutObject, database, history, Redeeming, TypeOK
  <2>10. CASE SaveAvatar(r)
    BY <2>t, <2>10, LinksStand DEF SaveAvatar, Redeeming, TypeOK, Shape
  <2>11. CASE SaveResetToken(r)
    BY <2>11, SaveIssues DEF Links!LinksNext
  <2>12. CASE ReplySaved(r)
    BY <2>t, <2>12, LinksStand DEF ReplySaved, history, Redeeming, TypeOK
  <2>13. CASE Rollback(r) /\ op[r] = "redeem"
    BY <2>13, RollbackDrops DEF Links!LinksNext
  <2>14. CASE Rollback(r) /\ op[r] # "redeem"
    <3>1. /\ reset' = reset /\ expired' = expired /\ op' = op /\ key' = key
          /\ written' = written
      BY <2>14 DEF Rollback, database
    <3>2. ~Redeeming(r) /\ ~Redeeming(r)'
      BY <2>14, <3>1 DEF Redeeming
    <3> QED
      BY <2>t, <3>1, <3>2, LinksStand
  <2>15. CASE GiveUp(r)
    <3>1. /\ reset' = reset /\ expired' = expired /\ op' = op /\ key' = key
          /\ written' = written /\ at'[r] = "error"
      BY <2>15 DEF GiveUp, database, TypeOK
    <3>2. ~Redeeming(r) /\ ~Redeeming(r)'
      BY <2>15, <3>1 DEF Redeeming, GiveUp, PlainRoutes
    <3> QED
      BY <2>t, <3>1, <3>2, LinksStand
  <2> QED
    BY <1>2, <2>1, <2>2, <2>3, <2>4, <2>5, <2>6, <2>7, <2>8, <2>9, <2>10,
       <2>11, <2>12, <2>13, <2>14, <2>15 DEF Proceed, Fail
<1>3. CASE Expire
  BY <1>3, ExpireEnds DEF Links!LinksNext
<1>4. CASE UNCHANGED vars
  BY <1>4 DEF vars, LiveLinks, LiveLink, DeadLinks, HeldLinks, UsedLinks, Redeeming
<1> QED
  BY <1>1, <1>2, <1>3, <1>4 DEF Next

(* The handlers of POST /auth/forgot-password and /auth/reset-password,    *)
(* with every other writer of the rows around them, implement ResetLinks:  *)
(* one live link an account, no use of a link that was looked up after it  *)
(* died.                                                                   *)
THEOREM LinksTheorem == Spec => ImplementsLinks
<1>1. Init => Links!LinksInit
  <2> SUFFICES ASSUME Init PROVE Links!LinksInit
    OBVIOUS
  <2>1. LiveLinks = [u \in Users |-> None]
    BY DEF Init, LiveLinks, LiveLink
  <2>2. DeadLinks = {} /\ HeldLinks = {} /\ UsedLinks = {}
    BY DEF Init, DeadLinks, HeldLinks, UsedLinks, Redeeming
  <2> QED
    BY <2>1, <2>2 DEF Links!LinksInit
<1>2. TypeOK /\ Shape /\ Tokens /\ Stored /\ [Next]_vars
        => [Links!LinksNext]_(Links!linkVars)
  BY LinksStep DEF Links!linkVars
<1> QED
  BY <1>1, <1>2, TypesHold, TokensHold, StoredHolds, PTL
  DEF Spec, ImplementsLinks, Links!LinksSpec
=============================================================================

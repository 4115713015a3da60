--------------------------- MODULE SessionsProofs ---------------------------
(***************************************************************************)
(* Proofs about Sessions, for every set of accounts and requests, every    *)
(* lifetime of a token and every bound on the clock.                       *)
(*                                                                         *)
(* Flow says what the position of a request implies of its variables and   *)
(* of the token it carries.  Logouts ties the key in Redis to the expiry   *)
(* of the token, Locks the beginning of a login to the lock of its         *)
(* account, Gates what a request may have read of the force flag.  Inv,    *)
(* their conjunction with the types, is inductive.                         *)
(***************************************************************************)
EXTENDS Sessions, TLAPS

(* Positions a request reaches only with a verified token.                 *)
Carrying == {"verified", "cleared", "entered", "revoking", "served", "done", "revoked", "blocked"}

FlowOf(r) ==
  /\ at[r] # "idle" => caller[r] \in Users /\ route[r] \in Routes
  /\ at[r] \in {"read", "granted"} => route[r] = "login"
  /\ at[r] = "granted" => expiry[r] \in Nat /\ expiry[r] <= now + TokenTTL
  /\ at[r] \in Carrying => token[r] \in Requests /\ route[r] # "login"
  /\ at[r] = "cleared" => route[r] = "api"
  /\ token[r] \in Requests => at[token[r]] = "granted"
  /\ at[r] = "revoking" => route[r] = "logout" /\ expiry[token[r]] <= now + ttl[r]

Flow == \A r \in Requests : FlowOf(r)

(* The key of a token came from a logout, stays as long as the token after *)
(* an answered one, and the late requests are those behind such a logout.  *)
LogoutsOf(q) ==
  /\ revoked[q] # None => \E l \in Requests : /\ route[l] = "logout" /\ token[l] = q
                                              /\ at[l] \in {"done", "error"}
  /\ LoggedOut(q) /\ Valid(q) => revoked[q] \in Nat /\ expiry[q] <= revoked[q]
  /\ seen[q].late => at[q] # "idle" /\ token[q] \in Requests /\ LoggedOut(token[q])

Logouts == \A q \in Requests : LogoutsOf(q)

Locks ==
  /\ \A u \in Users : rows[u].locked <=> lockedSince[u] # None
  /\ \A q \in Requests :
       /\ seen[q].began <= now
       /\ at[q] \in {"read", "granted"} /\ lockedSince[caller[q]] # None
            => seen[q].began <= lockedSince[caller[q]]

Gates == \A r \in Requests :
  at[r] \in {"verified", "cleared"} /\ route[r] = "api" => rows[caller[r]].force \in seen[r].gate

Inv == TypeOK /\ Flow /\ Logouts /\ OnlyItsLogoutRevokes /\ Locks /\ Gates /\ GateIsCurrent

(***************************************************************************)
(* Initial states and types.                                               *)
(***************************************************************************)

(* Nothing has been called, signed or revoked.                             *)
LEMMA InitInv == Init => Inv
<1> SUFFICES ASSUME Init PROVE Inv
  OBVIOUS
<1> USE DEF Init
<1>1. TypeOK
  BY SessionsAssumption DEF SessionsAssumption, TypeOK, Time, Row, Answers, Routes, Exempt,
     NoWitness, Witness
<1>2. Flow
  BY SessionsAssumption DEF SessionsAssumption, Flow, FlowOf, Carrying
<1>3. Logouts
  BY DEF Logouts, LogoutsOf, LoggedOut, NoWitness
<1>4. Locks
  BY DEF Locks, NoWitness, Row
<1>5. OnlyItsLogoutRevokes /\ Gates /\ GateIsCurrent
  BY DEF OnlyItsLogoutRevokes, Gates, GateIsCurrent
<1> QED
  BY <1>1, <1>2, <1>3, <1>4, <1>5 DEF Inv

(* An account that has changed its password keeps its lock.                *)
LEMMA RowUpdate ==
  ASSUME NEW x \in Row
  PROVE  LET y == [x EXCEPT !.force = FALSE]
         IN  y \in Row /\ y.force = FALSE /\ y.locked = x.locked
BY DEF Row

(* What a write of a row does to the rows, to the history of locks and to  *)
(* what the requests of the account have seen.                             *)
LEMMA StoreEffect ==
  ASSUME TypeOK, NEW u \in Users, NEW row \in Row, Store(u, row)
  PROVE  /\ rows' \in [Users -> Row]
         /\ \A v \in Users : rows'[v] = IF v = u THEN row ELSE rows[v]
         /\ lockedSince' \in [Users -> Time \cup {None}]
         /\ \A v \in Users \ {u} : lockedSince'[v] = lockedSince[v]
         /\ ~row.locked => lockedSince'[u] = None
         /\ row.locked => lockedSince'[u] = IF lockedSince[u] = None THEN now ELSE lockedSince[u]
         /\ seen' \in [Requests -> Witness]
         /\ \A r \in Requests : /\ seen'[r].began = seen[r].began
                                /\ seen'[r].late = seen[r].late
                                /\ seen[r].gate \subseteq seen'[r].gate
         /\ \A r \in Requests :
              caller[r] = u /\ route[r] = "api" /\ at[r] \in {"verified", "cleared"}
                => row.force \in seen'[r].gate
<1>1. rows' \in [Users -> Row] /\ \A v \in Users : rows'[v] = IF v = u THEN row ELSE rows[v]
  BY DEF TypeOK, Store
<1>2. /\ lockedSince' \in [Users -> Time \cup {None}]
      /\ \A v \in Users \ {u} : lockedSince'[v] = lockedSince[v]
      /\ ~row.locked => lockedSince'[u] = None
      /\ row.locked => lockedSince'[u] = IF lockedSince[u] = None THEN now ELSE lockedSince[u]
  BY DEF TypeOK, Store, Row
<1>3. /\ DOMAIN seen' = Requests
      /\ \A r \in Requests :
           \/ seen'[r] = seen[r]
           \/ seen'[r] = [seen[r] EXCEPT !.gate = @ \cup {row.force}]
      /\ seen' = [r \in Requests |-> seen'[r]]
  BY DEF Store
<1>4. ASSUME NEW r \in Requests
      PROVE  /\ seen'[r] \in Witness
             /\ seen'[r].began = seen[r].began /\ seen'[r].late = seen[r].late
             /\ seen[r].gate \subseteq seen'[r].gate
  <2>1. seen[r] \in Witness /\ row.force \in BOOLEAN
    BY DEF TypeOK, Row
  <2>2. CASE seen'[r] = seen[r]
    BY <2>1, <2>2
  <2>3. CASE seen'[r] = [seen[r] EXCEPT !.gate = @ \cup {row.force}]
    BY <2>1, <2>3 DEF Witness
  <2> QED
    BY <1>3, <2>2, <2>3
<1>5. seen' \in [Requests -> Witness]
  BY <1>3, <1>4
<1>6. \A r \in Requests :
         caller[r] = u /\ route[r] = "api" /\ at[r] \in {"verified", "cleared"}
           => row.force \in seen'[r].gate
  <2> SUFFICES ASSUME NEW r \in Requests, caller[r] = u, route[r] = "api",
                      at[r] \in {"verified", "cleared"}
               PROVE  row.force \in seen'[r].gate
    OBVIOUS
  <2>1. seen'[r] = [seen[r] EXCEPT !.gate = @ \cup {row.force}]
    BY DEF Store
  <2>2. seen[r] \in Witness /\ row.force \in BOOLEAN
    BY DEF TypeOK, Row
  <2> QED
    BY <2>1, <2>2 DEF Witness
<1> QED
  BY <1>1, <1>2, <1>4, <1>5, <1>6

(* What the two actions that begin a request leave behind.                 *)
LEMMA ReadUserEffect ==
  ASSUME TypeOK, NEW r \in Requests, NEW u \in Users, ReadUser(r, u)
  PROVE  /\ at[r] = "idle" /\ at'[r] \in {"read", "refused"}
         /\ at'[r] = "read" => ~rows[u].locked
         /\ at' = [at EXCEPT ![r] = at'[r]]
         /\ route'[r] = "login" /\ caller'[r] = u
         /\ seen'[r] \in Witness /\ seen'[r].began = now /\ seen'[r].late = seen[r].late
         /\ seen' = [seen EXCEPT ![r] = seen'[r]]
         /\ \A s \in Requests \ {r} : /\ at'[s] = at[s] /\ route'[s] = route[s]
                                      /\ caller'[s] = caller[s] /\ seen'[s] = seen[s]
<1>1. seen[r] \in Witness /\ now \in Time
  BY DEF TypeOK
<1>2. seen'[r] = [seen[r] EXCEPT !.began = now] /\ seen' = [seen EXCEPT ![r] = seen'[r]]
  BY DEF ReadUser, TypeOK
<1>3. seen'[r] \in Witness /\ seen'[r].began = now /\ seen'[r].late = seen[r].late
  BY <1>1, <1>2 DEF Witness
<1> QED
  BY <1>2, <1>3 DEF ReadUser, Goes, TypeOK

(* What the arrival of a request with a token leaves behind.               *)
LEMMA VerifyEffect ==
  ASSUME TypeOK, Flow, NEW r \in Requests, NEW q \in Requests, NEW ro \in Routes \ {"login"},
         Verify(r, q, ro)
  PROVE  /\ at[r] = "idle" /\ at[q] = "granted" /\ caller[q] \in Users
         /\ at'[r] = IF Valid(q) THEN "verified" ELSE "refused"
         /\ at' = [at EXCEPT ![r] = at'[r]]
         /\ route'[r] = ro /\ caller'[r] = caller[q] /\ token'[r] = q
         /\ seen'[r] \in Witness /\ seen'[r].began = seen[r].began
         /\ seen'[r].late = LoggedOut(q)
         /\ ro = "api" => rows[caller[q]].force \in seen'[r].gate
         /\ seen' = [seen EXCEPT ![r] = seen'[r]]
         /\ \A s \in Requests \ {r} : /\ at'[s] = at[s] /\ route'[s] = route[s]
                                      /\ caller'[s] = caller[s] /\ token'[s] = token[s]
                                      /\ seen'[s] = seen[s]
<1> DEFINE gate == IF ro = "api" THEN {rows[caller[q]].force} ELSE {}
<1>1. caller[q] \in Users
  BY DEF Verify, Flow, FlowOf
<1>2. seen[r] \in Witness /\ LoggedOut(q) \in BOOLEAN
  BY DEF TypeOK, LoggedOut
<1>3. gate \in SUBSET BOOLEAN
  BY <1>1 DEF TypeOK, Row
<1>4. /\ seen'[r] = [seen[r] EXCEPT !.late = LoggedOut(q), !.gate = gate]
      /\ seen' = [seen EXCEPT ![r] = seen'[r]]
  BY DEF Verify, TypeOK
<1>5. /\ seen'[r] \in Witness /\ seen'[r].began = seen[r].began
      /\ seen'[r].late = LoggedOut(q) /\ seen'[r].gate = gate
  <2> HIDE DEF gate
  <2> QED
    BY <1>2, <1>3, <1>4 DEF Witness
<1>6. /\ at[r] = "idle" /\ at[q] = "granted"
      /\ at'[r] = IF Valid(q) THEN "verified" ELSE "refused"
      /\ at' = [at EXCEPT ![r] = at'[r]]
      /\ route'[r] = ro /\ caller'[r] = caller[q] /\ token'[r] = q
      /\ \A s \in Requests \ {r} : /\ at'[s] = at[s] /\ route'[s] = route[s]
                                   /\ caller'[s] = caller[s] /\ token'[s] = token[s]
  BY DEF Verify, Goes, TypeOK
<1>7. \A s \in Requests \ {r} : seen'[s] = seen[s]
  BY <1>4 DEF TypeOK
<1>8. ro = "api" => rows[caller[q]].force \in seen'[r].gate
  BY <1>5
<1> QED
  BY <1>1, <1>4, <1>5, <1>6, <1>7, <1>8

(* A step keeps every type; a logout computes a lifetime that fits because *)
(* no token expires later than TokenTTL from now.                          *)
LEMMA TypeStep ==
  ASSUME TypeOK, Flow, [Next]_vars
  PROVE  TypeOK'
<1> USE SessionsAssumption DEF SessionsAssumption
<1>1. CASE Tick
  <2>1. now' \in Time /\ now' \in Nat
    BY <1>1 DEF Tick, TypeOK, Time
  <2>2. revoked' \in [Requests -> Nat \cup {None}]
    BY <1>1 DEF Tick, TypeOK
  <2> QED
    BY <1>1, <2>1, <2>2 DEF Tick, TypeOK
<1>2. ASSUME NEW u \in Users, NEW row \in Row, CommitRow(u, row) PROVE TypeOK'
  <2>1. Store(u, row)
    BY <1>2 DEF CommitRow
  <2> QED
    BY <1>2, <2>1, StoreEffect DEF CommitRow, TypeOK
<1>3. ASSUME NEW r \in Requests, NEW u \in Users, ReadUser(r, u) PROVE TypeOK'
  <2>1. seen' \in [Requests -> Witness] /\ at' = [at EXCEPT ![r] = at'[r]]
        /\ at'[r] \in {"read", "refused"}
    BY <1>3, ReadUserEffect DEF TypeOK
  <2> QED
    BY <1>3, <2>1 DEF ReadUser, TypeOK, Answers, Routes, Exempt
<1>4. ASSUME NEW r \in Requests, NEW q \in Requests, NEW ro \in Routes \ {"login"}, Verify(r, q, ro)
      PROVE  TypeOK'
  <2>1. seen' \in [Requests -> Witness] /\ at' = [at EXCEPT ![r] = at'[r]]
        /\ at'[r] \in {"verified", "refused"} /\ caller[q] \in Users
    <3>1. /\ at' = [at EXCEPT ![r] = at'[r]] /\ at'[r] \in {"verified", "refused"}
          /\ seen' = [seen EXCEPT ![r] = seen'[r]] /\ seen'[r] \in Witness
          /\ caller[q] \in Users
      BY <1>4, VerifyEffect
    <3> QED
      BY <3>1 DEF TypeOK
  <2> QED
    BY <1>4, <2>1 DEF Verify, TypeOK, Answers
<1>5. ASSUME NEW r \in Requests, Sign(r) PROVE TypeOK'
  <2>1. now + TokenTTL \in Nat
    BY DEF TypeOK, Time
  <2> QED
    BY <1>5, <2>1 DEF Sign, Goes, TypeOK, Answers
<1>6. ASSUME NEW r \in Requests, CheckRevoked(r) \/ CheckForce(r) PROVE TypeOK'
  <2>1. at'[r] \in {"revoked", "cleared", "entered", "served", "error", "blocked"}
        /\ at' = [at EXCEPT ![r] = at'[r]]
    BY <1>6 DEF CheckRevoked, CheckForce, Goes, Handler, TypeOK
  <2> QED
    BY <1>6, <2>1 DEF CheckRevoked, CheckForce, TypeOK, Answers
<1>7. ASSUME NEW r \in Requests, ChangePassword(r) PROVE TypeOK'
  <2> DEFINE row == [rows[caller[r]] EXCEPT !.force = FALSE]
  <2>1. caller[r] \in Users
    BY <1>7 DEF ChangePassword, Flow, FlowOf
  <2>2. row \in Row
    BY <2>1, RowUpdate DEF TypeOK
  <2>3. CASE Store(caller[r], row) /\ Goes(r, "done")
    BY <1>7, <2>1, <2>2, <2>3, StoreEffect DEF ChangePassword, Goes, TypeOK, Answers
  <2>4. CASE Goes(r, "error") /\ UNCHANGED <<rows, lockedSince, seen>>
    BY <1>7, <2>4 DEF ChangePassword, Goes, TypeOK, Answers
  <2> QED
    BY <1>7, <2>3, <2>4 DEF ChangePassword
<1>8. ASSUME NEW r \in Requests, Revoke(r) PROVE TypeOK'
  <2>1. token[r] \in Requests
    BY <1>8 DEF Revoke, Flow, FlowOf, Carrying
  <2>2. /\ expiry[token[r]] \in Nat /\ expiry[token[r]] <= now + TokenTTL
        /\ now \in Nat /\ TokenTTL \in Nat
    BY <2>1 DEF Flow, FlowOf, TypeOK, Time
  <2>3. Valid(token[r]) => expiry[token[r]] - now \in 0..TokenTTL
    BY <2>2 DEF Valid
  <2> QED
    BY <1>8, <2>3 DEF Revoke, Goes, TypeOK, Answers
<1>9. ASSUME NEW r \in Requests, SetRevoked(r) PROVE TypeOK'
  <2>1. token[r] \in Requests
    BY <1>9 DEF SetRevoked, Flow, FlowOf, Carrying
  <2>2. now + ttl[r] \in Nat /\ 0 \in 0..TokenTTL
    BY DEF TypeOK, Time
  <2> QED
    BY <1>9, <2>1, <2>2 DEF SetRevoked, Goes, TypeOK, Answers
<1>10. CASE UNCHANGED vars
  BY <1>10 DEF vars, TypeOK
<1> QED
  BY <1>1, <1>2, <1>3, <1>4, <1>5, <1>6, <1>7, <1>8, <1>9, <1>10 DEF Next

(* A request that has begun keeps its route, caller and token; an answer,  *)
(* and the expiry of a signed token, are final.                            *)
LEMMA Stable ==
  ASSUME TypeOK, Flow, [Next]_vars, NEW r \in Requests, at[r] # "idle"
  PROVE  /\ at'[r] # "idle"
         /\ route'[r] = route[r] /\ caller'[r] = caller[r] /\ token'[r] = token[r]
         /\ at[r] \in Answers => at'[r] = at[r] /\ expiry'[r] = expiry[r]
         /\ seen'[r].began = seen[r].began /\ seen'[r].late = seen[r].late
<1> DEFINE Same == /\ at'[r] # "idle"
                   /\ route'[r] = route[r] /\ caller'[r] = caller[r] /\ token'[r] = token[r]
                   /\ at[r] \in Answers => at'[r] = at[r] /\ expiry'[r] = expiry[r]
                   /\ seen'[r].began = seen[r].began /\ seen'[r].late = seen[r].late
<1>1. CASE Tick \/ UNCHANGED vars
  BY <1>1 DEF Tick, vars
<1>2. ASSUME NEW u \in Users, NEW row \in Row, CommitRow(u, row) PROVE Same
  <2>1. Store(u, row)
    BY <1>2 DEF CommitRow
  <2> QED
    BY <1>2, <2>1, StoreEffect DEF CommitRow
<1>3. ASSUME NEW s \in Requests, NEW u \in Users, ReadUser(s, u) PROVE Same
  <2>1. s # r
    BY <1>3 DEF ReadUser
  <2> QED
    <3>1. /\ at'[s] \in {"read", "refused"} /\ route'[s] = "login"
          /\ \A q \in Requests \ {s} : /\ at'[q] = at[q] /\ route'[q] = route[q]
                                      /\ caller'[q] = caller[q] /\ seen'[q] = seen[q]
      BY <1>3, ReadUserEffect
    <3> QED
      BY <1>3, <2>1, <3>1 DEF ReadUser
<1>4. ASSUME NEW s \in Requests, NEW q \in Requests, NEW ro \in Routes \ {"login"}, Verify(s, q, ro)
      PROVE  Same
  <2>1. s # r
    BY <1>4 DEF Verify
  <2> QED
    BY <1>4, <2>1, VerifyEffect DEF Verify
<1>5. ASSUME NEW s \in Requests, Sign(s) PROVE Same
  BY <1>5 DEF Sign, Goes, TypeOK, Answers
<1>6. ASSUME NEW s \in Requests, CheckRevoked(s) \/ CheckForce(s) PROVE Same
  BY <1>6 DEF CheckRevoked, CheckForce, Goes, Handler, TypeOK, Answers
<1>7. ASSUME NEW s \in Requests, ChangePassword(s) PROVE Same
  <2> DEFINE row == [rows[caller[s]] EXCEPT !.force = FALSE]
  <2>1. caller[s] \in Users
    BY <1>7 DEF ChangePassword, Flow, FlowOf
  <2>2. row \in Row
    BY <2>1, RowUpdate DEF TypeOK
  <2>3. CASE Store(caller[s], row)
    BY <1>7, <2>1, <2>2, <2>3, StoreEffect DEF ChangePassword, Goes, TypeOK, Answers
  <2> QED
    BY <1>7, <2>3 DEF ChangePassword, Goes, TypeOK, Answers
<1>8. ASSUME NEW s \in Requests, Revoke(s) \/ SetRevoked(s) PROVE Same
  BY <1>8 DEF Revoke, SetRevoked, Goes, TypeOK, Answers
<1> QED
  BY <1>1, <1>2, <1>3, <1>4, <1>5, <1>6, <1>7, <1>8 DEF Next

(***************************************************************************)
(* Flow.                                                                   *)
(***************************************************************************)

(* A step keeps Flow.  The revocation a logout is about to store reaches   *)
(* to the expiry of its token, because the clock only goes on.             *)
LEMMA FlowStep ==
  ASSUME TypeOK, Flow, [Next]_vars
  PROVE  Flow'
<1> SUFFICES ASSUME NEW r \in Requests PROVE FlowOf(r)'
  BY DEF Flow
<1>0. FlowOf(r) /\ now \in Nat /\ TokenTTL \in Nat /\ \A q \in Requests : ttl[q] \in Nat
  BY SessionsAssumption DEF SessionsAssumption, Flow, TypeOK, Time
<1>1. CASE Tick
  <2>1. now' = now + 1 /\ UNCHANGED <<at, route, caller, token, expiry, ttl>>
    BY <1>1 DEF Tick
  <2>2. at[r] = "revoking" => expiry[token[r]] \in Nat
    BY <1>0 DEF Flow, FlowOf, Carrying
  <2> QED
    BY <1>0, <2>1, <2>2 DEF FlowOf
<1>2. CASE UNCHANGED vars
  BY <1>0, <1>2 DEF FlowOf, vars
<1>3. ASSUME NEW u \in Users, NEW row \in Row, CommitRow(u, row) PROVE FlowOf(r)'
  BY <1>0, <1>3 DEF CommitRow, FlowOf
<1>4. ASSUME NEW s \in Requests, NEW u \in Users, ReadUser(s, u) PROVE FlowOf(r)'
  <2>1. \A q \in Requests : at[q] = "granted" => at'[q] = "granted"
    BY <1>4, ReadUserEffect
  <2>2. UNCHANGED <<now, token, expiry, ttl>>
    BY <1>4 DEF ReadUser
  <2>3. CASE s = r
    BY <1>0, <1>4, <2>1, <2>2, <2>3, ReadUserEffect DEF FlowOf, Carrying, Routes
  <2>4. CASE s # r
    BY <1>0, <1>4, <2>1, <2>2, <2>4, ReadUserEffect DEF FlowOf, Carrying
  <2> QED
    BY <2>3, <2>4
<1>5. ASSUME NEW s \in Requests, NEW q \in Requests, NEW ro \in Routes \ {"login"}, Verify(s, q, ro)
      PROVE  FlowOf(r)'
  <2>1. \A p \in Requests : at[p] = "granted" => at'[p] = "granted"
    BY <1>5, VerifyEffect
  <2>2. UNCHANGED <<now, expiry, ttl>>
    BY <1>5 DEF Verify
  <2>3. CASE s = r
    BY <1>0, <1>5, <2>1, <2>2, <2>3, VerifyEffect DEF FlowOf
  <2>4. CASE s # r
    BY <1>0, <1>5, <2>1, <2>2, <2>4, VerifyEffect DEF FlowOf
  <2> QED
    BY <2>3, <2>4
<1>6. ASSUME NEW s \in Requests, Sign(s) PROVE FlowOf(r)'
  <2>1. s \in Requests /\ at[s] = "read" /\ route[s] = "login"
    BY <1>6 DEF Sign, Flow, FlowOf
  <2> QED
    BY <1>0, <1>6, <2>1 DEF Sign, Goes, FlowOf, Carrying, TypeOK
<1>7. ASSUME NEW s \in Requests, CheckRevoked(s) \/ CheckForce(s) PROVE FlowOf(r)'
  <2>1. /\ at[s] \in {"verified", "cleared"}
        /\ at'[s] \in {"revoked", "cleared", "entered", "served", "error", "blocked"}
        /\ at'[s] = "cleared" => route[s] \notin Exempt
        /\ at' = [at EXCEPT ![s] = at'[s]]
        /\ UNCHANGED <<now, route, caller, token, expiry, ttl>>
    BY <1>7 DEF CheckRevoked, CheckForce, Goes, Handler, TypeOK
  <2>2. route[s] \in Routes /\ route[s] # "login"
    BY <2>1 DEF Flow, FlowOf, Carrying
  <2> QED
    BY <1>0, <2>1, <2>2 DEF FlowOf, Carrying, Routes, TypeOK
<1>8. ASSUME NEW s \in Requests, ChangePassword(s) PROVE FlowOf(r)'
  <2>1. /\ at[s] = "entered" /\ at'[s] \in {"done", "error"}
        /\ at' = [at EXCEPT ![s] = at'[s]]
        /\ UNCHANGED <<now, route, caller, token, expiry, ttl>>
    BY <1>8 DEF ChangePassword, Goes, TypeOK
  <2> QED
    BY <1>0, <2>1 DEF FlowOf, Carrying, TypeOK
<1>9. ASSUME NEW s \in Requests, Revoke(s) PROVE FlowOf(r)'
  <2>1. /\ at[s] = "entered" /\ route[s] = "logout" /\ at'[s] \in {"done", "revoking"}
        /\ at' = [at EXCEPT ![s] = at'[s]]
        /\ at'[s] = "revoking" => ttl'[s] = expiry[token[s]] - now
        /\ \A q \in Requests \ {s} : ttl'[q] = ttl[q]
        /\ UNCHANGED <<now, route, caller, token, expiry>>
    BY <1>9 DEF Revoke, Goes, TypeOK
  <2>2. expiry[token[s]] \in Nat
    BY <2>1 DEF Flow, FlowOf, Carrying
  <2> QED
    BY <1>0, <2>1, <2>2 DEF FlowOf, Carrying, TypeOK
<1>10. ASSUME NEW s \in Requests, SetRevoked(s) PROVE FlowOf(r)'
  <2>1. /\ at[s] = "revoking" /\ at'[s] \in {"done", "error"}
        /\ at' = [at EXCEPT ![s] = at'[s]]
        /\ \A q \in Requests \ {s} : ttl'[q] = ttl[q]
        /\ UNCHANGED <<now, route, caller, token, expiry>>
    BY <1>10 DEF SetRevoked, Goes, TypeOK
  <2> QED
    BY <1>0, <2>1 DEF FlowOf, Carrying, TypeOK
<1> QED
  BY <1>1, <1>2, <1>3, <1>4, <1>5, <1>6, <1>7, <1>8, <1>9, <1>10 DEF Next

(***************************************************************************)
(* Logouts.                                                                *)
(***************************************************************************)

(* A logout that was answered stays answered.                              *)
LEMMA LoggedOutStays ==
  ASSUME TypeOK, Flow, [Next]_vars, NEW q \in Requests, LoggedOut(q)
  PROVE  LoggedOut(q)'
<1>1. PICK l \in Requests : route[l] = "logout" /\ token[l] = q /\ at[l] = "done"
  BY DEF LoggedOut
<1>2. route'[l] = "logout" /\ token'[l] = q /\ at'[l] = "done"
  BY <1>1, Stable DEF Answers
<1> QED
  BY <1>2 DEF LoggedOut

(* A token some logout is after is signed, and its expiry is final.        *)
LEMMA SignedStays ==
  ASSUME TypeOK, Flow, [Next]_vars, NEW l \in Requests, token[l] \in Requests
  PROVE  at[token[l]] = "granted" /\ expiry[token[l]] \in Nat /\ expiry'[token[l]] = expiry[token[l]]
<1>1. at[token[l]] = "granted"
  BY DEF Flow, FlowOf
<1>2. expiry[token[l]] \in Nat
  BY <1>1 DEF Flow, FlowOf
<1> QED
  BY <1>1, <1>2, Stable DEF Answers

(* Only two actions answer a logout: one for a token that is over, one     *)
(* that has just stored the revocation.                                    *)
LEMMA WhoLogsOut ==
  ASSUME TypeOK, Flow, [Next]_vars, NEW q \in Requests, LoggedOut(q)'
  PROVE  \/ LoggedOut(q)
         \/ \E l \in Requests : token[l] = q /\ Revoke(l) /\ ~Valid(q)
         \/ \E l \in Requests : token[l] = q /\ SetRevoked(l) /\ at'[l] = "done"
<1>1. PICK l \in Requests : route'[l] = "logout" /\ token'[l] = q /\ at'[l] = "done"
  BY DEF LoggedOut
<1> SUFFICES ASSUME at[l] # "done"
             PROVE  \/ token[l] = q /\ Revoke(l) /\ ~Valid(q)
                    \/ token[l] = q /\ SetRevoked(l)
  <2>1. CASE at[l] = "done"
    <3>1. route[l] = "logout" /\ token[l] = q
      BY <1>1, <2>1, Stable
    <3> QED
      BY <2>1, <3>1 DEF LoggedOut
  <2> QED
    BY <1>1, <2>1
<1>2. CASE Tick \/ UNCHANGED vars
  BY <1>1, <1>2 DEF Tick, vars
<1>3. ASSUME NEW u \in Users, NEW row \in Row, CommitRow(u, row) PROVE FALSE
  BY <1>1, <1>3 DEF CommitRow
<1>4. ASSUME NEW s \in Requests, NEW u \in Users, ReadUser(s, u) PROVE FALSE
  BY <1>1, <1>4, ReadUserEffect
<1>5. ASSUME NEW s \in Requests, NEW p \in Requests, NEW ro \in Routes \ {"login"}, Verify(s, p, ro)
      PROVE  FALSE
  BY <1>1, <1>5, VerifyEffect
<1>6. ASSUME NEW s \in Requests, Sign(s) \/ CheckRevoked(s) \/ CheckForce(s) PROVE FALSE
  BY <1>1, <1>6 DEF Sign, CheckRevoked, CheckForce, Goes, Handler, TypeOK
<1>7. ASSUME NEW s \in Requests, ChangePassword(s) PROVE FALSE
  <2>1. s = l
    BY <1>1, <1>7 DEF ChangePassword, Goes, TypeOK
  <2>2. route'[s] = "changePassword"
    BY <1>7 DEF ChangePassword
  <2> QED
    BY <1>1, <2>1, <2>2
<1>8. ASSUME NEW s \in Requests, Revoke(s) PROVE s = l /\ token[l] = q /\ ~Valid(q)
  BY <1>1, <1>8 DEF Revoke, Goes, TypeOK
<1>9. ASSUME NEW s \in Requests, SetRevoked(s) PROVE s = l /\ token[l] = q
  BY <1>1, <1>9 DEF SetRevoked, Goes, TypeOK
<1> QED
  BY <1>2, <1>3, <1>4, <1>5, <1>6, <1>7, <1>8, <1>9 DEF Next

(* Redis changes only by a logout and by the clock.                        *)
LEMMA WhoRevokes ==
  ASSUME TypeOK, [Next]_vars
  PROVE  revoked' = revoked \/ Tick \/ \E l \in Requests : SetRevoked(l)
BY DEF Next, vars, CommitRow, ReadUser, Verify, Sign, CheckRevoked, CheckForce, ChangePassword, Revoke

(* The clock only goes on.                                                 *)
LEMMA ClockStep ==
  ASSUME [Next]_vars
  PROVE  now' = now \/ Tick
<1>1. (\E u \in Users, row \in Row : CommitRow(u, row)) => now' = now
  BY DEF CommitRow
<1>2. ASSUME NEW r \in Requests,
             \/ \E u \in Users : ReadUser(r, u)
             \/ \E q \in Requests, ro \in Routes \ {"login"} : Verify(r, q, ro)
             \/ Sign(r) \/ CheckRevoked(r) \/ CheckForce(r)
             \/ ChangePassword(r) \/ Revoke(r) \/ SetRevoked(r)
      PROVE  now' = now
  BY <1>2 DEF ReadUser, Verify, Sign, CheckRevoked, CheckForce, ChangePassword, Revoke, SetRevoked
<1> QED
  BY <1>1, <1>2 DEF Next, vars

(* What SetRevoked stores, and what it leaves.                             *)
LEMMA SetRevokedEffect ==
  ASSUME TypeOK, Flow, NEW l \in Requests, SetRevoked(l)
  PROVE  /\ token[l] \in Requests /\ route[l] = "logout" /\ now' = now
         /\ now + ttl[l] \in Nat /\ expiry[token[l]] <= now + ttl[l]
         /\ at'[l] \in {"done", "error"}
         /\ at'[l] = "done" => revoked'[token[l]] = now + ttl[l]
         /\ revoked'[token[l]] \in {revoked[token[l]], now + ttl[l]}
         /\ \A q \in Requests \ {token[l]} : revoked'[q] = revoked[q]
<1>1. /\ token[l] \in Requests /\ route[l] = "logout" /\ expiry[token[l]] <= now + ttl[l]
      /\ now + ttl[l] \in Nat
  BY SessionsAssumption DEF SessionsAssumption, SetRevoked, Flow, FlowOf, Carrying, TypeOK, Time
<1> QED
  BY <1>1 DEF SetRevoked, Goes, TypeOK

(* Whether a request is late is decided when its token is verified.        *)
LEMMA WhoIsLate ==
  ASSUME TypeOK, Flow, [Next]_vars, NEW r \in Requests
  PROVE  \/ seen'[r].late = seen[r].late
         \/ \E q \in Requests, ro \in Routes \ {"login"} : Verify(r, q, ro)
<1> SUFFICES ASSUME at[r] = "idle",
                    ~ \E q \in Requests, ro \in Routes \ {"login"} : Verify(r, q, ro)
             PROVE  seen'[r].late = seen[r].late
  BY Stable
<1>1. ASSUME NEW u \in Users, NEW row \in Row, CommitRow(u, row) PROVE seen'[r].late = seen[r].late
  BY <1>1, StoreEffect DEF CommitRow
<1>2. ASSUME NEW s \in Requests, NEW u \in Users, ReadUser(s, u) PROVE seen'[r].late = seen[r].late
  BY <1>2, ReadUserEffect
<1>3. ASSUME NEW s \in Requests, NEW q \in Requests, NEW ro \in Routes \ {"login"}, Verify(s, q, ro)
      PROVE  seen'[r].late = seen[r].late
  BY <1>3, VerifyEffect
<1>4. ASSUME NEW s \in Requests, ChangePassword(s) PROVE seen'[r].late = seen[r].late
  <2> DEFINE row == [rows[caller[s]] EXCEPT !.force = FALSE]
  <2>1. caller[s] \in Users
    BY <1>4 DEF ChangePassword, Flow, FlowOf
  <2>2. row \in Row
    BY <2>1, RowUpdate DEF TypeOK
  <2>3. CASE Store(caller[s], row)
    BY <2>1, <2>2, <2>3, StoreEffect
  <2> QED
    BY <1>4, <2>3 DEF ChangePassword
<1> QED
  BY <1>1, <1>2, <1>3, <1>4 DEF Next, vars, Tick, Sign, CheckRevoked, CheckForce, Revoke, SetRevoked

(* A step keeps Logouts.                                                   *)
LEMMA LogoutsStep ==
  ASSUME TypeOK, Flow, Flow', Logouts, [Next]_vars
  PROVE  Logouts'
<1> SUFFICES ASSUME NEW q \in Requests PROVE LogoutsOf(q)'
  BY DEF Logouts
<1>0. /\ LogoutsOf(q) /\ now \in Nat
      /\ revoked[q] \in Nat \cup {None} /\ None \notin Nat
      /\ revoked \in [Requests -> Nat \cup {None}]
  BY SessionsAssumption DEF SessionsAssumption, Logouts, TypeOK, Time
<1>1. revoked'[q] # None => \E l \in Requests : /\ route'[l] = "logout" /\ token'[l] = q
                                                /\ at'[l] \in {"done", "error"}
  <2> SUFFICES ASSUME revoked'[q] # None
               PROVE  \E l \in Requests : /\ route'[l] = "logout" /\ token'[l] = q
                                          /\ at'[l] \in {"done", "error"}
    OBVIOUS
  <2>1. CASE revoked[q] # None
    <3>1. PICK l \in Requests : route[l] = "logout" /\ token[l] = q /\ at[l] \in {"done", "error"}
      BY <1>0, <2>1 DEF LogoutsOf
    <3> QED
      BY <3>1, Stable DEF Answers
  <2>2. ASSUME revoked[q] = None, NEW l \in Requests, SetRevoked(l)
        PROVE  route'[l] = "logout" /\ token'[l] = q /\ at'[l] \in {"done", "error"}
    <3>1. token[l] = q
      BY <2>2, SetRevokedEffect
    <3> QED
      BY <2>2, <3>1, SetRevokedEffect DEF SetRevoked
  <2>3. revoked[q] = None => ~Tick
    BY <1>0 DEF Tick
  <2> QED
    BY <2>1, <2>2, <2>3, WhoRevokes
<1>2. LoggedOut(q)' /\ Valid(q)' => revoked'[q] \in Nat /\ expiry'[q] <= revoked'[q]
  <2> SUFFICES ASSUME LoggedOut(q)', Valid(q)'
               PROVE  revoked'[q] \in Nat /\ expiry'[q] <= revoked'[q]
    OBVIOUS
  <2>1. ASSUME NEW l \in Requests, token[l] = q, SetRevoked(l), at'[l] = "done"
        PROVE  revoked'[q] \in Nat /\ expiry'[q] <= revoked'[q]
    BY <2>1, SetRevokedEffect, SignedStays
  <2>2. ASSUME NEW l \in Requests, token[l] = q, Revoke(l), ~Valid(q) PROVE FALSE
    BY <2>2 DEF Revoke, Valid
  <2>3. CASE LoggedOut(q)
    <3>1. PICK m \in Requests : token[m] = q
      BY <2>3 DEF LoggedOut
    <3>2. expiry[q] \in Nat /\ expiry'[q] = expiry[q]
      BY <3>1, SignedStays
    <3>3. now' \in Nat /\ now <= now'
      <4>1. CASE Tick
        BY <1>0, <4>1 DEF Tick
      <4>2. CASE ~Tick
        BY <1>0, <4>2, ClockStep
      <4> QED
        BY <4>1, <4>2
    <3>4. Valid(q) /\ now' < expiry[q]
      BY <1>0, <3>2, <3>3 DEF Valid
    <3>5. revoked[q] \in Nat /\ expiry[q] <= revoked[q]
      BY <1>0, <2>3, <3>4 DEF LogoutsOf
    <3>6. CASE revoked' = revoked
      BY <3>2, <3>5, <3>6
    <3>7. CASE Tick
      <4>1. revoked'[q] = IF revoked[q] \in 0..now' THEN None ELSE revoked[q]
        BY <3>7 DEF Tick
      <4> QED
        BY <3>2, <3>3, <3>4, <3>5, <4>1
    <3>8. ASSUME NEW l \in Requests, SetRevoked(l)
          PROVE  revoked'[q] \in Nat /\ expiry'[q] <= revoked'[q]
      BY <3>2, <3>5, <3>8, SetRevokedEffect
    <3> QED
      BY <3>6, <3>7, <3>8, WhoRevokes
  <2> QED
    BY <2>1, <2>2, <2>3, WhoLogsOut
<1>3. seen'[q].late => at'[q] # "idle" /\ token'[q] \in Requests /\ LoggedOut(token[q])'
  <2>1. CASE seen'[q].late = seen[q].late
    <3> SUFFICES ASSUME seen[q].late
                 PROVE  at'[q] # "idle" /\ token'[q] \in Requests /\ LoggedOut(token[q])'
      BY <2>1
    <3>1. at[q] # "idle" /\ token[q] \in Requests /\ LoggedOut(token[q])
      BY <1>0 DEF LogoutsOf
    <3>2. at'[q] # "idle" /\ token'[q] = token[q]
      BY <3>1, Stable
    <3> DEFINE t == token[q]
    <3>3. \E l \in Requests : route'[l] = "logout" /\ token'[l] = t /\ at'[l] = "done"
      BY <3>1, LoggedOutStays DEF LoggedOut
    <3> QED
      BY <3>1, <3>2, <3>3 DEF LoggedOut
  <2>2. ASSUME NEW p \in Requests, NEW ro \in Routes \ {"login"}, Verify(q, p, ro), seen'[q].late
        PROVE  at'[q] # "idle" /\ token'[q] \in Requests /\ LoggedOut(token[q])'
    <3>1. at'[q] # "idle" /\ token'[q] = p /\ LoggedOut(p)
      BY <2>2, VerifyEffect
    <3>2. \E l \in Requests : route'[l] = "logout" /\ token'[l] = p /\ at'[l] = "done"
      BY <3>1, LoggedOutStays DEF LoggedOut
    <3> QED
      BY <3>1, <3>2 DEF LoggedOut
  <2> QED
    BY <2>1, <2>2, WhoIsLate
<1> QED
  BY <1>1, <1>2, <1>3 DEF LogoutsOf

(* A request is refused for the key it has found, which a logout stored.   *)
LEMMA RevokedStep ==
  ASSUME TypeOK, Flow, Logouts, OnlyItsLogoutRevokes, [Next]_vars
  PROVE  OnlyItsLogoutRevokes'
<1> SUFFICES ASSUME NEW r \in Requests, at'[r] = "revoked"
             PROVE  \E q \in Requests \ {r} : /\ route'[q] = "logout" /\ token'[q] = token'[r]
                                              /\ at'[q] \in {"done", "error"}
  BY DEF OnlyItsLogoutRevokes
<1>1. CASE at[r] = "revoked"
  <2>1. PICK q \in Requests \ {r} : route[q] = "logout" /\ token[q] = token[r] /\ at[q] \in {"done", "error"}
    BY <1>1 DEF OnlyItsLogoutRevokes
  <2>2. token'[r] = token[r]
    BY <1>1, Stable
  <2> QED
    BY <2>1, <2>2, Stable DEF Answers
<1>2. ASSUME at[r] # "revoked"
      PROVE  CheckRevoked(r) /\ revoked[token[r]] # None
  <2>1. ASSUME NEW u \in Users, NEW row \in Row, CommitRow(u, row) PROVE FALSE
    BY <1>2, <2>1 DEF CommitRow
  <2>2. ASSUME NEW s \in Requests, NEW u \in Users, ReadUser(s, u) PROVE FALSE
    BY <1>2, <2>2, ReadUserEffect
  <2>3. ASSUME NEW s \in Requests, NEW q \in Requests, NEW ro \in Routes \ {"login"}, Verify(s, q, ro)
        PROVE  FALSE
    BY <1>2, <2>3, VerifyEffect
  <2>4. ASSUME NEW s \in Requests,
               Sign(s) \/ CheckForce(s) \/ ChangePassword(s) \/ Revoke(s) \/ SetRevoked(s)
        PROVE  FALSE
    BY <1>2, <2>4 DEF Sign, CheckForce, ChangePassword, Revoke, SetRevoked, Goes, Handler, TypeOK
  <2>5. ASSUME NEW s \in Requests, CheckRevoked(s)
        PROVE  s = r /\ revoked[token[r]] # None
    BY <1>2, <2>5 DEF CheckRevoked, Goes, Handler, TypeOK
  <2>6. ~Tick /\ ~UNCHANGED vars
    BY <1>2 DEF Tick, vars
  <2> QED
    BY <2>1, <2>2, <2>3, <2>4, <2>5, <2>6 DEF Next
<1>3. ASSUME at[r] # "revoked"
      PROVE  \E q \in Requests \ {r} : /\ route'[q] = "logout" /\ token'[q] = token'[r]
                                       /\ at'[q] \in {"done", "error"}
  <2>1. at[r] = "verified" /\ token[r] \in Requests /\ revoked[token[r]] # None
    BY <1>2, <1>3 DEF CheckRevoked, Flow, FlowOf, Carrying
  <2>2. PICK q \in Requests : route[q] = "logout" /\ token[q] = token[r] /\ at[q] \in {"done", "error"}
    BY <2>1 DEF Logouts, LogoutsOf
  <2>3. token'[r] = token[r] /\ q # r
    BY <2>1, <2>2, Stable
  <2> QED
    BY <2>2, <2>3, Stable DEF Answers
<1> QED
  BY <1>1, <1>3

(***************************************************************************)
(* Locks.                                                                  *)
(***************************************************************************)

(* A write of a row keeps Locks: an account is locked since now at the     *)
(* latest, after every login that has begun.                               *)
LEMMA StoreLocks ==
  ASSUME TypeOK, Flow, Locks, NEW u \in Users, NEW row \in Row, Store(u, row),
         now' = now, caller' = caller,
         \A q \in Requests : at'[q] \in {"read", "granted"} => at[q] = at'[q]
  PROVE  Locks'
<1>1. \A v \in Users : rows'[v].locked <=> lockedSince'[v] # None
  <2>1. now # None
    BY SessionsAssumption DEF SessionsAssumption, TypeOK, Time
  <2> QED
    BY <2>1, StoreEffect DEF Locks
<1>2. ASSUME NEW q \in Requests PROVE seen'[q].began <= now'
  BY StoreEffect DEF Locks
<1>3. ASSUME NEW q \in Requests, at'[q] \in {"read", "granted"}, lockedSince'[caller'[q]] # None
      PROVE  seen'[q].began <= lockedSince'[caller'[q]]
  <2>1. at[q] \in {"read", "granted"} /\ caller[q] \in Users
    BY <1>3 DEF Flow, FlowOf
  <2>2. seen[q].began <= now /\ seen'[q].began = seen[q].began
    BY StoreEffect DEF Locks
  <2>3. lockedSince[caller[q]] # None => seen[q].began <= lockedSince[caller[q]]
    BY <2>1 DEF Locks
  <2>4. lockedSince'[caller[q]] \in {None, lockedSince[caller[q]], now}
    BY <2>1, StoreEffect DEF Row
  <2> QED
    BY <1>3, <2>2, <2>3, <2>4
<1> QED
  BY <1>1, <1>2, <1>3 DEF Locks

(* A step keeps Locks.                                                     *)
LEMMA LocksStep ==
  ASSUME TypeOK, Flow, Locks, [Next]_vars
  PROVE  Locks'
<1>0. now \in Nat /\ \A q \in Requests : seen[q].began \in Nat
  BY SessionsAssumption DEF SessionsAssumption, TypeOK, Time, Witness
<1>1. CASE Tick
  BY <1>0, <1>1 DEF Tick, Locks
<1>2. ASSUME NEW u \in Users, NEW row \in Row, CommitRow(u, row) PROVE Locks'
  BY <1>2, StoreLocks DEF CommitRow
<1>3. ASSUME NEW s \in Requests, NEW u \in Users, ReadUser(s, u) PROVE Locks'
  <2>1. UNCHANGED <<now, rows, lockedSince>>
    BY <1>3 DEF ReadUser
  <2>2. at'[s] = "read" => lockedSince[u] = None
    BY <1>3, ReadUserEffect DEF Locks
  <2> QED
    BY <1>0, <1>3, <2>1, <2>2, ReadUserEffect DEF Locks
<1>4. ASSUME NEW s \in Requests, NEW q \in Requests, NEW ro \in Routes \ {"login"}, Verify(s, q, ro)
      PROVE  Locks'
  <2>1. UNCHANGED <<now, rows, lockedSince>>
    BY <1>4 DEF Verify
  <2> QED
    BY <1>4, <2>1, VerifyEffect DEF Locks
<1>5. ASSUME NEW s \in Requests, Sign(s) PROVE Locks'
  <2>1. \A q \in Requests : at'[q] \in {"read", "granted"} => at[q] \in {"read", "granted"}
    BY <1>5 DEF Sign, Goes, TypeOK
  <2> QED
    BY <1>5, <2>1 DEF Sign, Locks
<1>6. ASSUME NEW s \in Requests, CheckRevoked(s) \/ CheckForce(s) \/ Revoke(s) \/ SetRevoked(s)
      PROVE  Locks'
  <2>1. \A q \in Requests : at'[q] \in {"read", "granted"} => at[q] = at'[q]
    BY <1>6 DEF CheckRevoked, CheckForce, Revoke, SetRevoked, Goes, Handler, TypeOK
  <2>2. UNCHANGED <<now, rows, caller, lockedSince, seen>>
    BY <1>6 DEF CheckRevoked, CheckForce, Revoke, SetRevoked
  <2> QED
    BY <2>1, <2>2 DEF Locks
<1>7. ASSUME NEW s \in Requests, ChangePassword(s) PROVE Locks'
  <2> DEFINE row == [rows[caller[s]] EXCEPT !.force = FALSE]
  <2>1. caller[s] \in Users
    BY <1>7 DEF ChangePassword, Flow, FlowOf
  <2>2. row \in Row
    BY <2>1, RowUpdate DEF TypeOK
  <2>3. \A q \in Requests : at'[q] \in {"read", "granted"} => at[q] = at'[q]
    BY <1>7 DEF ChangePassword, Goes, TypeOK
  <2>4. now' = now /\ caller' = caller
    BY <1>7 DEF ChangePassword
  <2>5. CASE Store(caller[s], row)
    <3> HIDE DEF row
    <3> QED
      BY <2>1, <2>2, <2>3, <2>4, <2>5, StoreLocks
  <2>6. CASE UNCHANGED <<rows, lockedSince, seen>>
    BY <2>3, <2>4, <2>6 DEF Locks
  <2> QED
    BY <1>7, <2>5, <2>6 DEF ChangePassword
<1>8. CASE UNCHANGED vars
  BY <1>8 DEF vars, Locks
<1> QED
  BY <1>1, <1>2, <1>3, <1>4, <1>5, <1>6, <1>7, <1>8 DEF Next

(***************************************************************************)
(* The gate.                                                               *)
(***************************************************************************)

(* A write of a row keeps Gates: whoever waits at the gate may now read    *)
(* the new flag.                                                           *)
LEMMA StoreGates ==
  ASSUME TypeOK, Flow, Gates, GateIsCurrent, NEW u \in Users, NEW row \in Row, Store(u, row),
         caller' = caller, route' = route,
         \A r \in Requests : at'[r] \in {"verified", "cleared", "blocked", "served"} => at[r] = at'[r]
  PROVE  Gates' /\ GateIsCurrent'
<1>1. ASSUME NEW r \in Requests, at'[r] \in {"verified", "cleared"}, route'[r] = "api"
      PROVE  rows'[caller'[r]].force \in seen'[r].gate
  <2>1. at[r] \in {"verified", "cleared"} /\ caller[r] \in Users
    BY <1>1 DEF Flow, FlowOf
  <2>2. rows[caller[r]].force \in seen[r].gate /\ seen[r].gate \subseteq seen'[r].gate
    BY <1>1, <2>1, StoreEffect DEF Gates
  <2> QED
    BY <1>1, <2>1, <2>2, StoreEffect
<1>2. \A r \in Requests : seen[r].gate \subseteq seen'[r].gate
  BY StoreEffect
<1> QED
  BY <1>1, <1>2 DEF Gates, GateIsCurrent

(* A step keeps Gates and GateIsCurrent.                                   *)
LEMMA GatesStep ==
  ASSUME TypeOK, Flow, Gates, GateIsCurrent, [Next]_vars
  PROVE  Gates' /\ GateIsCurrent'
<1>1. ASSUME NEW u \in Users, NEW row \in Row, CommitRow(u, row) PROVE Gates' /\ GateIsCurrent'
  BY <1>1, StoreGates DEF CommitRow
<1>2. ASSUME NEW s \in Requests, NEW u \in Users, ReadUser(s, u) PROVE Gates' /\ GateIsCurrent'
  <2>1. rows' = rows
    BY <1>2 DEF ReadUser
  <2>2. at'[s] \in {"read", "refused"}
    BY <1>2, ReadUserEffect
  <2>3. \A r \in Requests \ {s} : /\ at'[r] = at[r] /\ route'[r] = route[r]
                                  /\ caller'[r] = caller[r] /\ seen'[r] = seen[r]
    BY <1>2, ReadUserEffect
  <2> QED
    BY <2>1, <2>2, <2>3 DEF Gates, GateIsCurrent
<1>3. ASSUME NEW s \in Requests, NEW q \in Requests, NEW ro \in Routes \ {"login"}, Verify(s, q, ro)
      PROVE  Gates' /\ GateIsCurrent'
  <2>1. rows' = rows
    BY <1>3 DEF Verify
  <2>2. /\ at'[s] \in {"verified", "refused"}
        /\ route'[s] = "api" => rows[caller'[s]].force \in seen'[s].gate
    BY <1>3, VerifyEffect
  <2>3. \A r \in Requests \ {s} : /\ at'[r] = at[r] /\ route'[r] = route[r]
                                  /\ caller'[r] = caller[r] /\ seen'[r] = seen[r]
    BY <1>3, VerifyEffect
  <2> QED
    BY <2>1, <2>2, <2>3 DEF Gates, GateIsCurrent
<1>4. ASSUME NEW s \in Requests, Sign(s) \/ Revoke(s) \/ SetRevoked(s)
      PROVE  Gates' /\ GateIsCurrent'
  <2>1. \A r \in Requests : at'[r] \in {"verified", "cleared", "blocked", "served"} => at[r] = at'[r]
    BY <1>4 DEF Sign, Revoke, SetRevoked, Goes, TypeOK
  <2>2. UNCHANGED <<rows, caller, route, seen>>
    BY <1>4 DEF Sign, Revoke, SetRevoked
  <2> QED
    BY <2>1, <2>2 DEF Gates, GateIsCurrent
<1>5. ASSUME NEW s \in Requests, CheckRevoked(s) PROVE Gates' /\ GateIsCurrent'
  <2>1. /\ at[s] = "verified"
        /\ at'[s] \in {"revoked", "error", "cleared", "served", "entered"}
        /\ at'[s] = "served" => route[s] # "api"
        /\ \A r \in Requests \ {s} : at'[r] = at[r]
    BY <1>5 DEF CheckRevoked, Goes, Handler, TypeOK, Exempt
  <2>2. UNCHANGED <<rows, caller, route, seen>>
    BY <1>5 DEF CheckRevoked
  <2> QED
    BY <2>1, <2>2 DEF Gates, GateIsCurrent
<1>6. ASSUME NEW s \in Requests, CheckForce(s) PROVE Gates' /\ GateIsCurrent'
  <2>1. /\ at[s] = "cleared"
        /\ at'[s] \in {"blocked", "error", "served", "entered"}
        /\ at'[s] = "blocked" => rows[caller[s]].force = TRUE
        /\ at'[s] = "served" => rows[caller[s]].force = FALSE
        /\ \A r \in Requests \ {s} : at'[r] = at[r]
    <3>1. caller[s] \in Users
      BY <1>6 DEF CheckForce, Flow, FlowOf
    <3>2. rows[caller[s]].force \in BOOLEAN
      BY <3>1 DEF TypeOK, Row
    <3> QED
      BY <1>6, <3>2 DEF CheckForce, Goes, Handler, TypeOK
  <2>2. UNCHANGED <<rows, caller, route, seen>>
    BY <1>6 DEF CheckForce
  <2>3. route[s] = "api" /\ rows[caller[s]].force \in seen[s].gate
    BY <2>1 DEF Flow, FlowOf, Gates
  <2> QED
    BY <2>1, <2>2, <2>3 DEF Gates, GateIsCurrent
<1>7. ASSUME NEW s \in Requests, ChangePassword(s) PROVE Gates' /\ GateIsCurrent'
  <2> DEFINE row == [rows[caller[s]] EXCEPT !.force = FALSE]
  <2>1. caller[s] \in Users
    BY <1>7 DEF ChangePassword, Flow, FlowOf
  <2>2. row \in Row
    BY <2>1, RowUpdate DEF TypeOK
  <2>3. \A r \in Requests : at'[r] \in {"verified", "cleared", "blocked", "served"} => at[r] = at'[r]
    BY <1>7 DEF ChangePassword, Goes, TypeOK
  <2>4. caller' = caller /\ route' = route
    BY <1>7 DEF ChangePassword
  <2>5. CASE Store(caller[s], row)
    <3> HIDE DEF row
    <3> QED
      BY <2>1, <2>2, <2>3, <2>4, <2>5, StoreGates
  <2>6. CASE UNCHANGED <<rows, lockedSince, seen>>
    BY <2>3, <2>4, <2>6 DEF Gates, GateIsCurrent
  <2> QED
    BY <1>7, <2>5, <2>6 DEF ChangePassword
<1>8. CASE Tick \/ UNCHANGED vars
  BY <1>8 DEF Tick, vars, Gates, GateIsCurrent
<1> QED
  BY <1>1, <1>2, <1>3, <1>4, <1>5, <1>6, <1>7, <1>8 DEF Next

(***************************************************************************)
(* Theorems.                                                               *)
(***************************************************************************)

(* Only CheckRevoked takes a request on from "verified", when it has found *)
(* no key.                                                                 *)
LEMMA WhoPassesTheBlacklist ==
  ASSUME TypeOK, Flow, [Next]_vars, NEW r \in Requests,
         at[r] = "verified", at'[r] \in {"cleared", "entered", "served"}
  PROVE  CheckRevoked(r) /\ revoked[token[r]] = None
<1>1. ASSUME NEW u \in Users, NEW row \in Row, CommitRow(u, row) PROVE FALSE
  BY <1>1 DEF CommitRow
<1>2. ASSUME NEW s \in Requests, NEW u \in Users, ReadUser(s, u) PROVE FALSE
  BY <1>2, ReadUserEffect
<1>3. ASSUME NEW s \in Requests, NEW q \in Requests, NEW ro \in Routes \ {"login"}, Verify(s, q, ro)
      PROVE  FALSE
  BY <1>3, VerifyEffect
<1>4. ASSUME NEW s \in Requests,
             Sign(s) \/ CheckForce(s) \/ ChangePassword(s) \/ Revoke(s) \/ SetRevoked(s)
      PROVE  FALSE
  BY <1>4 DEF Sign, CheckForce, ChangePassword, Revoke, SetRevoked, Goes, Handler, TypeOK
<1>5. ASSUME NEW s \in Requests, CheckRevoked(s)
      PROVE  s = r /\ revoked[token[r]] = None
  BY <1>5 DEF CheckRevoked, Goes, Handler, TypeOK
<1>6. ~Tick /\ ~UNCHANGED vars
  BY DEF Tick, vars
<1> QED
  BY <1>1, <1>2, <1>3, <1>4, <1>5, <1>6 DEF Next

(* Only Verify takes a request to "verified", with a valid token of some   *)
(* login of the caller.                                                    *)
LEMMA WhoVerifies ==
  ASSUME TypeOK, Flow, [Next]_vars, NEW r \in Requests, at[r] = "idle", at'[r] = "verified"
  PROVE  \E q \in Requests : /\ at[q] = "granted" /\ Valid(q) /\ caller[q] \in Users
                             /\ token'[r] = q /\ caller'[r] = caller[q]
<1>1. ASSUME NEW u \in Users, NEW row \in Row, CommitRow(u, row) PROVE FALSE
  BY <1>1 DEF CommitRow
<1>2. ASSUME NEW s \in Requests, NEW u \in Users, ReadUser(s, u) PROVE FALSE
  BY <1>2, ReadUserEffect
<1>3. ASSUME NEW s \in Requests, NEW q \in Requests, NEW ro \in Routes \ {"login"}, Verify(s, q, ro)
      PROVE  /\ at[q] = "granted" /\ Valid(q) /\ caller[q] \in Users
             /\ token'[r] = q /\ caller'[r] = caller[q]
  <2>1. s = r
    BY <1>3, VerifyEffect
  <2> QED
    BY <1>3, <2>1, VerifyEffect
<1>4. ASSUME NEW s \in Requests,
             \/ Sign(s) \/ CheckRevoked(s) \/ CheckForce(s)
             \/ ChangePassword(s) \/ Revoke(s) \/ SetRevoked(s)
      PROVE  FALSE
  BY <1>4 DEF Sign, CheckRevoked, CheckForce, ChangePassword, Revoke, SetRevoked, Goes, Handler, TypeOK
<1>5. ~Tick /\ ~UNCHANGED vars
  BY DEF Tick, vars
<1> QED
  BY <1>1, <1>2, <1>3, <1>4, <1>5 DEF Next

(* Inv is inductive.                                                       *)
LEMMA InvStep == Inv /\ [Next]_vars => Inv'
<1> SUFFICES ASSUME Inv, [Next]_vars PROVE Inv'
  OBVIOUS
<1>1. TypeOK'
  BY TypeStep DEF Inv
<1>2. Flow'
  BY FlowStep DEF Inv
<1>3. Logouts'
  BY <1>2, LogoutsStep DEF Inv
<1>4. OnlyItsLogoutRevokes'
  BY RevokedStep DEF Inv
<1>5. Locks'
  BY LocksStep DEF Inv
<1>6. Gates' /\ GateIsCurrent'
  BY GatesStep DEF Inv
<1> QED
  BY <1>1, <1>2, <1>3, <1>4, <1>5, <1>6 DEF Inv

(* Inv holds in every state of every behaviour.                            *)
THEOREM Invariance == Spec => []Inv
<1> QED
  BY InitInv, InvStep, PTL DEF Spec

(* Every variable keeps its type; no logout computes a lifetime beyond     *)
(* that of a token.                                                        *)
THEOREM TypeCorrect == Spec => []TypeOK
<1>1. Inv => TypeOK
  BY DEF Inv
<1> QED
  BY <1>1, Invariance, PTL

(* A token is refused as revoked only after a logout with that token       *)
(* (Blacklist.Revoke writes one key per token id).                         *)
THEOREM OtherSessionsTheorem == Spec => []OnlyItsLogoutRevokes
<1>1. Inv => OnlyItsLogoutRevokes
  BY DEF Inv
<1> QED
  BY <1>1, Invariance, PTL

(* The forced rotation gate of Auth.Middleware decides by a value the row  *)
(* had during the request.                                                 *)
THEOREM GateTheorem == Spec => []GateIsCurrent
<1>1. Inv => GateIsCurrent
  BY DEF Inv
<1> QED
  BY <1>1, Invariance, PTL

(* After an answered logout the blacklist lets no later request with the   *)
(* token through while the token is valid.                                 *)
THEOREM LogoutTheorem == Spec => LogoutEndsTheSession
<1> DEFINE A == \A r \in Requests :
                  /\ at[r] = "verified" /\ at'[r] \in {"cleared", "entered", "served"}
                  /\ seen[r].late
                  => ~Valid(token[r])
<1>1. Inv /\ [Next]_vars => [A]_vars
  <2> SUFFICES ASSUME Inv, [Next]_vars, NEW r \in Requests,
                      at[r] = "verified", at'[r] \in {"cleared", "entered", "served"},
                      seen[r].late
               PROVE  ~Valid(token[r])
    OBVIOUS
  <2>1. token[r] \in Requests /\ LoggedOut(token[r])
    BY DEF Inv, Logouts, LogoutsOf
  <2>2. CheckRevoked(r) /\ revoked[token[r]] = None
    BY WhoPassesTheBlacklist DEF Inv
  <2>3. None \notin Nat
    BY SessionsAssumption DEF SessionsAssumption
  <2> QED
    BY <2>1, <2>2, <2>3 DEF Inv, Logouts, LogoutsOf
<1> QED
  BY <1>1, Invariance, PTL DEF Spec, LogoutEndsTheSession

(* A locked account is out when the lifetime of a token has passed, but    *)
(* for a login that was under way.                                         *)
THEOREM LockTheorem == Spec => LockRunsOut
<1> DEFINE A == \A r \in Requests :
                  /\ at[r] = "idle" /\ at'[r] = "verified"
                  /\ lockedSince[caller'[r]] # None
                  => \/ now < lockedSince[caller'[r]] + TokenTTL
                     \/ /\ seen[token'[r]].began <= lockedSince[caller'[r]]
                        /\ lockedSince[caller'[r]] + TokenTTL < expiry[token'[r]]
<1>1. Inv /\ [Next]_vars => [A]_vars
  <2> SUFFICES ASSUME Inv, [Next]_vars, NEW r \in Requests,
                      at[r] = "idle", at'[r] = "verified", lockedSince[caller'[r]] # None
               PROVE  \/ now < lockedSince[caller'[r]] + TokenTTL
                      \/ /\ seen[token'[r]].began <= lockedSince[caller'[r]]
                         /\ lockedSince[caller'[r]] + TokenTTL < expiry[token'[r]]
    OBVIOUS
  <2>1. PICK q \in Requests : /\ at[q] = "granted" /\ Valid(q) /\ caller[q] \in Users
                              /\ token'[r] = q /\ caller'[r] = caller[q]
    BY WhoVerifies DEF Inv
  <2> DEFINE since == lockedSince[caller[q]]
  <2>2. seen[q].began <= since
    BY <2>1 DEF Inv, Locks
  <2>3. since \in Nat /\ expiry[q] \in Nat /\ now \in Nat /\ TokenTTL \in Nat
    BY <2>1, SessionsAssumption DEF SessionsAssumption, Inv, TypeOK, Time, Flow, FlowOf
  <2>4. now < expiry[q]
    BY <2>1 DEF Valid
  <2> HIDE DEF since
  <2>5. now < since + TokenTTL \/ since + TokenTTL < expiry[q]
    BY <2>3, <2>4
  <2> QED
    BY <2>1, <2>2, <2>5 DEF since
<1> QED
  BY <1>1, Invariance, PTL DEF Spec, LockRunsOut
=============================================================================

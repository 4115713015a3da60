---------------------------- MODULE UploadsProofs ----------------------------
(***************************************************************************)
(* Proofs about Uploads, for any keys, uploads, downloads and lengths of   *)
(* time.                                                                   *)
(*                                                                         *)
(* Signed says what an upload that passed the checks has in common with    *)
(* the URL of its key, Held which uploads a bucket can hold, Timely that   *)
(* nothing on its way to a viewer was replaced before it was asked for,    *)
(* and that no copy is kept beyond its life.  Inv is inductive.            *)
(***************************************************************************)
EXTENDS Uploads, TLAPS

Admitted == {"receiving", "stored", "failed"}

SignedOf(p) ==
  put[p].at \in Admitted =>
    LET k == put[p].key IN
    /\ k \in Keys /\ link[k] # None
    /\ put[p].header = link[k].type /\ put[p].begun <= link[k].exp
    /\ put[p].declared => put[p].length <= MaxBytes

HeldOf(k) ==
  object[k] # None =>
    /\ put[object[k]].key = k
    /\ put[object[k]].at \in {"stored", "failed"}
    /\ put[object[k]].length <= MaxBytes + Slack
    /\ replaced[object[k]] = None

Gone(p) == replaced[p] # None => put[p].at \in {"stored", "failed"}

GetOf(g) ==
  /\ get[g].at \in {"opened", "copying", "shown"} =>
       get[g].key \in Keys /\ get[g].put \in Puts /\ get[g].asked <= now
  /\ get[g].at \in {"copying", "shown"} => get[g].bytes = get[g].put
  /\ get[g].at \in {"opened", "copying"} /\ replaced[get[g].put] # None =>
       get[g].asked <= replaced[get[g].put]
  /\ get[g].at = "shown" /\ replaced[get[g].put] # None =>
       get[g].asked <= replaced[get[g].put] + CacheLife

CopyOf(k) ==
  copy[k] # None =>
    /\ copy[k].until <= now + CacheLife
    /\ replaced[copy[k].put] # None => copy[k].until <= replaced[copy[k].put] + CacheLife

Signed == \A p \in Puts : SignedOf(p)
Held   == /\ \A k \in Keys : HeldOf(k)
          /\ \A p \in Puts : Gone(p)
Timely == /\ \A g \in Gets : GetOf(g)
          /\ \A k \in Keys : CopyOf(k)

Inv == TypeOK /\ Signed /\ Held /\ Timely

LEMMA InitInv == Init => Inv
<1> SUFFICES ASSUME Init PROVE Inv
  OBVIOUS
<1> USE UploadsAssumption DEF UploadsAssumption
<1>1. NewPut \in Put /\ NewGet \in Get
  BY DEF NewPut, NewGet, Put, Get, Time
<1>2. TypeOK
  BY <1>1 DEF Init, TypeOK, Time
<1>3. Signed
  BY DEF Init, Signed, SignedOf, Admitted, NewPut
<1>4. Held
  BY DEF Init, Held, HeldOf, Gone, NewPut
<1>5. Timely
  BY DEF Init, Timely, GetOf, CopyOf, NewGet
<1> QED
  BY <1>2, <1>3, <1>4, <1>5 DEF Inv

(* A step that writes no object and admits or ends no upload.              *)
LEMMA BucketKept ==
  ASSUME Inv, TypeOK',
         UNCHANGED <<put, object, replaced>>,
         \A k \in Keys : link[k] # None => link'[k] = link[k]
  PROVE  Signed' /\ Held'
<1>1. Signed'
  BY DEF Inv, Signed, SignedOf
<1>2. Held'
  BY DEF Inv, Held, HeldOf, Gone
<1> QED
  BY <1>1, <1>2

(* A step that serves nothing.                                             *)
LEMMA ViewKept ==
  ASSUME Inv, TypeOK',
         UNCHANGED <<get, copy, replaced>>, now <= now'
  PROVE  Timely'
<1> USE UploadsAssumption DEF UploadsAssumption
<1>1. ASSUME NEW g \in Gets PROVE GetOf(g)'
  BY DEF Inv, Timely, GetOf, TypeOK, Time, Get
<1>2. ASSUME NEW k \in Keys PROVE CopyOf(k)'
  BY DEF Inv, Timely, CopyOf, TypeOK, Time, Copy
<1> QED
  BY <1>1, <1>2 DEF Timely

(* The end of an upload that is in the bucket from now on.                 *)
LEMMA Replaces ==
  ASSUME Inv, NEW p \in Puts, put[p].at = "receiving", Fits(p), Replace(p),
         NEW end \in {"stored", "failed"}, put' = [put EXCEPT ![p].at = end],
         UNCHANGED <<now, link, get, copy>>
  PROVE  Inv'
<1> USE UploadsAssumption DEF UploadsAssumption
<1> DEFINE k == put[p].key
           old == object[k]
<1>1. /\ k \in Keys /\ old \in Puts \cup {None} /\ put[p] \in Put
      /\ object' = [object EXCEPT ![k] = p]
  BY DEF Inv, TypeOK, Signed, SignedOf, Admitted, Replace
<1>2. /\ old = None => replaced' = replaced
      /\ old # None => replaced' = [replaced EXCEPT ![old] = now]
  BY DEF Replace
<1>3. old # p /\ replaced[p] = None
  BY <1>1 DEF Inv, Held, HeldOf, Gone
<1>4. \A q \in Puts : replaced'[q] \in {replaced[q], now}
  BY <1>1, <1>2 DEF Inv, TypeOK
<1>5. TypeOK'
  <2>1. put' \in [Puts -> Put]
    BY DEF Inv, TypeOK, Put
  <2>2. replaced' \in [Puts -> Time \cup {None}]
    BY <1>1, <1>2 DEF Inv, TypeOK
  <2> QED
    BY <1>1, <2>1, <2>2 DEF Inv, TypeOK
<1>6. /\ put'[p] = [put[p] EXCEPT !.at = end]
      /\ \A q \in Puts \ {p} : put'[q] = put[q]
  BY DEF Inv, TypeOK
<1>7. /\ put'[p].at = end /\ put'[p].key = k /\ put'[p].length = put[p].length
      /\ put'[p].header = put[p].header /\ put'[p].begun = put[p].begun
      /\ put'[p].declared = put[p].declared
  BY <1>1, <1>6 DEF Put
<1>8. Signed'
  <2> SUFFICES ASSUME NEW q \in Puts PROVE SignedOf(q)'
    BY DEF Signed
  <2>1. CASE q = p
    BY <2>1, <1>7 DEF Inv, Signed, SignedOf, Admitted
  <2>2. CASE q # p
    BY <2>2, <1>6 DEF Inv, Signed, SignedOf
  <2> QED
    BY <2>1, <2>2
<1>9. ASSUME NEW j \in Keys PROVE HeldOf(j)'
  <2>1. CASE j = k
    <3>1. object'[j] = p /\ replaced'[p] = None
      BY <1>1, <1>2, <1>3, <2>1 DEF Inv, TypeOK
    <3>2. put[p].length <= MaxBytes + Slack
      BY DEF Fits
    <3> QED
      BY <3>1, <3>2, <2>1, <1>7 DEF HeldOf
  <2>2. CASE j # k /\ object[j] # None
    <3>1. /\ object'[j] = object[j] /\ object[j] \in Puts /\ object[j] # p /\ object[j] # old
      BY <1>1, <2>2 DEF Inv, TypeOK, Held, HeldOf
    <3>2. replaced'[object[j]] = None
      BY <1>1, <1>2, <3>1, <2>2 DEF Inv, TypeOK, Held, HeldOf
    <3> QED
      BY <1>6, <3>1, <3>2, <2>2 DEF Inv, Held, HeldOf
  <2>3. CASE j # k /\ object[j] = None
    BY <1>1, <2>3 DEF Inv, TypeOK, HeldOf
  <2> QED
    BY <2>1, <2>2, <2>3
<1>10. ASSUME NEW q \in Puts PROVE Gone(q)'
  <2>1. CASE q = p
    BY <1>1, <1>7, <2>1 DEF Inv, TypeOK, Gone
  <2>2. CASE q = old
    <3>1. replaced'[q] = now /\ now # None /\ put'[q] = put[q]
      BY <1>1, <1>2, <1>3, <1>6, <2>2 DEF Inv, TypeOK, Time
    <3>2. put[q].at \in {"stored", "failed"}
      BY <1>1, <2>2 DEF Inv, Held, HeldOf
    <3> QED
      BY <3>1, <3>2 DEF Gone
  <2>3. CASE q # p /\ q # old
    <3>1. put'[q] = put[q] /\ replaced'[q] = replaced[q]
      BY <1>1, <1>2, <1>6, <2>3 DEF Inv, TypeOK
    <3> QED
      BY <3>1 DEF Inv, Held, Gone
  <2> QED
    BY <2>1, <2>2, <2>3
<1>11. ASSUME NEW g \in Gets PROVE GetOf(g)'
  <2>1. get[g].at \in {"opened", "copying", "shown"} => get[g].put \in Puts /\ get[g].asked \in Nat
    BY DEF Inv, TypeOK, Timely, GetOf, Get, Time
  <2>2. now \in Nat /\ \A q \in Puts : replaced[q] \in Nat \cup {None}
    BY DEF Inv, TypeOK, Time
  <2> QED
    BY <1>4, <2>1, <2>2 DEF Inv, Timely, GetOf
<1>12. ASSUME NEW j \in Keys PROVE CopyOf(j)'
  <2>1. copy[j] # None => copy[j].put \in Puts /\ copy[j].until \in Nat
    BY DEF Inv, TypeOK, Copy
  <2>2. now \in Nat /\ \A q \in Puts : replaced[q] \in Nat \cup {None}
    BY DEF Inv, TypeOK, Time
  <2> QED
    BY <1>4, <2>1, <2>2 DEF Inv, Timely, CopyOf
<1> QED
  BY <1>5, <1>8, <1>9, <1>10, <1>11, <1>12 DEF Inv, Held, Timely

(* A download moves on.                                                    *)
LEMMA Serves ==
  ASSUME Inv, NEW g \in Gets, NEW new \in Get, get' = [get EXCEPT ![g] = new],
         GetOf(g)', copy' \in [Keys -> Copy \cup {None}], \A k \in Keys : CopyOf(k)',
         UNCHANGED <<now, link, put, object, replaced>>
  PROVE  Inv'
<1>1. TypeOK'
  BY DEF Inv, TypeOK
<1>2. Signed' /\ Held'
  BY <1>1, BucketKept
<1>3. ASSUME NEW f \in Gets, f # g PROVE GetOf(f)'
  BY <1>3 DEF Inv, TypeOK, Timely, GetOf
<1> QED
  BY <1>1, <1>2, <1>3 DEF Inv, Timely

LEMMA NextInv == Inv /\ [Next]_vars => Inv'
<1> SUFFICES ASSUME Inv, [Next]_vars PROVE Inv'
  OBVIOUS
<1> USE UploadsAssumption DEF UploadsAssumption
<1>0. /\ now \in Nat /\ CacheLife \in Nat
      /\ \A q \in Puts : replaced[q] \in Nat \cup {None}
  BY DEF Inv, TypeOK, Time
<1>c. UNCHANGED copy /\ UNCHANGED now /\ UNCHANGED replaced =>
        /\ copy' \in [Keys -> Copy \cup {None}]
        /\ \A k \in Keys : CopyOf(k)'
  BY DEF Inv, TypeOK, Timely, CopyOf
<1>1. CASE Tick
  <2>1. TypeOK'
    BY <1>1 DEF Inv, TypeOK, Tick, Time
  <2> QED
    BY <1>1, <2>1, <1>0, BucketKept, ViewKept DEF Inv, Tick
<1>2. ASSUME NEW k \in Keys, RequestUploadURL(k) PROVE Inv'
  <2>1. TypeOK'
    BY <1>2 DEF Inv, TypeOK, RequestUploadURL, Link, Time
  <2>2. \A j \in Keys : link[j] # None => link'[j] = link[j]
    BY <1>2 DEF Inv, TypeOK, RequestUploadURL
  <2> QED
    BY <1>2, <2>1, <2>2, <1>0, BucketKept, ViewKept DEF Inv, RequestUploadURL
<1>3. ASSUME NEW p \in Puts, DirectUpload(p) PROVE Inv'
  <2>1. PICK k \in Keys, t \in Types, length \in Lengths, declared \in BOOLEAN :
          /\ link[k] # None
          /\ put' = [put EXCEPT ![p] =
               IF Admits(k, t, length, declared)
               THEN [at |-> "receiving", key |-> k, header |-> t,
                     length |-> length, declared |-> declared, begun |-> now]
               ELSE [NewPut EXCEPT !.at = "refused"]]
    BY <1>3 DEF DirectUpload
  <2>2. put[p].at = "idle" /\ UNCHANGED <<now, link, object, replaced, get, copy>>
    BY <1>3 DEF DirectUpload
  <2>3. NewPut \in Put
    BY DEF NewPut, Put, Time
  <2>4. put' \in [Puts -> Put]
    BY <2>1, <2>3 DEF Inv, TypeOK, Put
  <2>5. TypeOK'
    BY <2>2, <2>4 DEF Inv, TypeOK
  <2>6. \A q \in Puts \ {p} : put'[q] = put[q]
    BY <2>1 DEF Inv, TypeOK
  <2>7. put'[p].at \in {"receiving", "refused"} /\ SignedOf(p)'
    <3>1. CASE Admits(k, t, length, declared)
      <4>1. put'[p] = [at |-> "receiving", key |-> k, header |-> t,
                       length |-> length, declared |-> declared, begun |-> now]
        BY <3>1, <2>1 DEF Inv, TypeOK
      <4> QED
        BY <4>1, <3>1, <2>1, <2>2 DEF SignedOf, Admits
    <3>2. CASE ~Admits(k, t, length, declared)
      <4>1. put'[p].at = "refused"
        BY <3>2, <2>1, <2>3 DEF Inv, TypeOK, NewPut
      <4> QED
        BY <4>1 DEF SignedOf, Admitted
    <3> QED
      BY <3>1, <3>2
  <2>8. Signed'
    BY <2>2, <2>6, <2>7 DEF Inv, Signed, SignedOf
  <2>9. \A k2 \in Keys : HeldOf(k2)'
    BY <2>2, <2>6 DEF Inv, TypeOK, Held, HeldOf
  <2>10. \A q \in Puts : Gone(q)'
    BY <2>2, <2>6, <2>7 DEF Inv, Held, Gone
  <2>11. Timely'
    BY <2>2, <2>5, <1>0, ViewKept
  <2> QED
    BY <2>5, <2>8, <2>9, <2>10, <2>11 DEF Inv, Held
<1>4. ASSUME NEW p \in Puts, Store(p) PROVE Inv'
  BY <1>4, Replaces DEF Store
<1>5. ASSUME NEW p \in Puts, StoreFails(p) PROVE Inv'
  <2>1. CASE Fits(p) /\ Replace(p)
    BY <1>5, <2>1, Replaces DEF StoreFails
  <2>2. CASE UNCHANGED <<object, replaced>>
    <3>0. put' \in [Puts -> Put]
      <4>1. put \in [Puts -> Put] /\ put' = [put EXCEPT ![p].at = "failed"]
        BY <1>5 DEF StoreFails, Inv, TypeOK
      <4>2. [put[p] EXCEPT !.at = "failed"] \in Put
        BY <4>1 DEF Put
      <4> QED
        BY <4>1, <4>2
    <3>1. TypeOK'
      BY <1>5, <2>2, <3>0 DEF StoreFails, Inv, TypeOK
    <3>2. /\ put'[p] = [put[p] EXCEPT !.at = "failed"] /\ put[p] \in Put
          /\ \A q \in Puts \ {p} : put'[q] = put[q]
      BY <1>5 DEF StoreFails, Inv, TypeOK
    <3>3. /\ put'[p].at = "failed" /\ put[p].at = "receiving"
          /\ put'[p].key = put[p].key /\ put'[p].length = put[p].length
          /\ put'[p].header = put[p].header /\ put'[p].begun = put[p].begun
          /\ put'[p].declared = put[p].declared
      BY <1>5, <3>2 DEF StoreFails, Put
    <3>4. Signed'
      <4> SUFFICES ASSUME NEW q \in Puts PROVE SignedOf(q)'
        BY DEF Signed
      <4>1. CASE q = p
        BY <4>1, <1>5, <3>3 DEF StoreFails, Inv, Signed, SignedOf, Admitted
      <4>2. CASE q # p
        BY <4>2, <1>5, <3>2 DEF StoreFails, Inv, Signed, SignedOf
      <4> QED
        BY <4>1, <4>2
    <3>5. \A k \in Keys : HeldOf(k)'
      BY <1>5, <2>2, <3>2, <3>3 DEF StoreFails, Inv, TypeOK, Held, HeldOf
    <3>6. \A q \in Puts : Gone(q)'
      BY <1>5, <2>2, <3>2, <3>3 DEF StoreFails, Inv, Held, Gone
    <3>7. Timely'
      BY <1>5, <2>2, <3>1, <1>0, ViewKept DEF StoreFails
    <3> QED
      BY <3>1, <3>4, <3>5, <3>6, <3>7 DEF Inv, Held
  <2> QED
    BY <1>5, <2>1, <2>2 DEF StoreFails
<1>6. ASSUME NEW g \in Gets, FromCache(g) PROVE Inv'
  <2>1. PICK k \in Keys :
          /\ Fresh(k)
          /\ get' = [get EXCEPT ![g] = [at |-> "shown", key |-> k, put |-> copy[k].put,
                                        bytes |-> copy[k].put, asked |-> now]]
    BY <1>6 DEF FromCache
  <2> DEFINE new == [at |-> "shown", key |-> k, put |-> copy[k].put,
                     bytes |-> copy[k].put, asked |-> now]
  <2>2. copy[k] \in Copy /\ now <= copy[k].until
    BY <2>1 DEF Fresh, Inv, TypeOK
  <2>3. new \in Get
    BY <2>2 DEF Copy, Get, Inv, TypeOK
  <2>4. get'[g] = new /\ UNCHANGED <<now, replaced, copy>>
    BY <1>6, <2>1 DEF FromCache, Inv, TypeOK
  <2>5. replaced[copy[k].put] # None => copy[k].until <= replaced[copy[k].put] + CacheLife
    BY <2>1, <2>2 DEF Inv, Timely, CopyOf, Fresh
  <2>6. GetOf(g)'
    BY <2>2, <2>4, <2>5, <1>0 DEF GetOf, Copy
  <2> HIDE DEF new
  <2> QED
    BY <1>6, <1>c, <2>1, <2>3, <2>6, Serves DEF FromCache, new
<1>7. ASSUME NEW g \in Gets, Open(g) PROVE Inv'
  <2>1. PICK k \in Keys :
          /\ object[k] # None
          /\ get' = [get EXCEPT ![g] = [at |-> "opened", key |-> k, put |-> object[k],
                                        bytes |-> None, asked |-> now]]
    BY <1>7 DEF Open
  <2> DEFINE new == [at |-> "opened", key |-> k, put |-> object[k],
                     bytes |-> None, asked |-> now]
  <2>2. object[k] \in Puts /\ replaced[object[k]] = None
    BY <2>1 DEF Inv, TypeOK, Held, HeldOf
  <2>3. new \in Get
    BY <2>2 DEF Get, Inv, TypeOK
  <2>4. get'[g] = new /\ UNCHANGED <<now, replaced, copy>>
    BY <1>7, <2>1 DEF Open, Inv, TypeOK
  <2>5. GetOf(g)'
    BY <2>2, <2>4, <1>0 DEF GetOf
  <2> HIDE DEF new
  <2> QED
    BY <1>7, <1>c, <2>1, <2>3, <2>5, Serves DEF Open, new
<1>8. ASSUME NEW g \in Gets, NotFound(g) PROVE Inv'
  <2> DEFINE new == [get[g] EXCEPT !.at = "notFound"]
  <2>1. new \in Get /\ get' = [get EXCEPT ![g] = new]
    BY <1>8 DEF NotFound, Get, Inv, TypeOK
  <2>2. get'[g].at = "notFound"
    BY <2>1 DEF Get, Inv, TypeOK
  <2>3. GetOf(g)'
    BY <2>2 DEF GetOf
  <2> HIDE DEF new
  <2> QED
    <3>1. UNCHANGED <<now, link, put, object, replaced, copy>>
      BY <1>8 DEF NotFound
    <3>2. copy' \in [Keys -> Copy \cup {None}] /\ \A k \in Keys : CopyOf(k)'
      BY <1>c, <3>1
    <3> QED
      BY <2>1, <2>3, <3>1, <3>2, Serves
<1>9. ASSUME NEW g \in Gets, Read(g) PROVE Inv'
  <2> DEFINE new == [get[g] EXCEPT !.at = "copying", !.bytes = get[g].put]
  <2>1. new \in Get /\ get' = [get EXCEPT ![g] = new]
    BY <1>9 DEF Read, Get, Inv, TypeOK
  <2>2. /\ get'[g].at = "copying" /\ get'[g].bytes = get[g].put /\ get'[g].put = get[g].put
        /\ get'[g].key = get[g].key /\ get'[g].asked = get[g].asked
    BY <2>1 DEF Get, Inv, TypeOK
  <2>3. GetOf(g)'
    BY <1>9, <2>2 DEF Read, GetOf, Inv, Timely
  <2> HIDE DEF new
  <2> QED
    BY <1>9, <1>c, <2>1, <2>3, Serves DEF Read
<1>10. ASSUME NEW g \in Gets, CutShort(g) PROVE Inv'
  <2> DEFINE new == [get[g] EXCEPT !.at = "cut"]
  <2>1. new \in Get /\ get' = [get EXCEPT ![g] = new]
    BY <1>10 DEF CutShort, Get, Inv, TypeOK
  <2>2. get'[g].at = "cut"
    BY <2>1 DEF Get, Inv, TypeOK
  <2>3. GetOf(g)'
    BY <2>2 DEF GetOf
  <2> HIDE DEF new
  <2> QED
    BY <1>10, <1>c, <2>1, <2>3, Serves DEF CutShort
<1>11. ASSUME NEW g \in Gets, Finish(g) PROVE Inv'
  <2> DEFINE new == [get[g] EXCEPT !.at = "shown"]
             kept == [put |-> get[g].bytes, until |-> get[g].asked + CacheLife]
  <2>1. new \in Get /\ get' = [get EXCEPT ![g] = new]
    BY <1>11 DEF Finish, Get, Inv, TypeOK
  <2>2. /\ get'[g].at = "shown" /\ get'[g].bytes = get[g].bytes /\ get'[g].put = get[g].put
        /\ get'[g].key = get[g].key /\ get'[g].asked = get[g].asked
    BY <2>1 DEF Get, Inv, TypeOK
  <2>3. /\ get[g].at = "copying" /\ get[g].key \in Keys /\ get[g].put \in Puts
        /\ get[g].bytes = get[g].put /\ get[g].asked \in Time /\ get[g].asked <= now
        /\ replaced[get[g].put] # None => get[g].asked <= replaced[get[g].put]
        /\ UNCHANGED <<now, link, put, object, replaced>>
        /\ copy' \in {copy, [copy EXCEPT ![get[g].key] = kept]}
    BY <1>11 DEF Finish, Inv, TypeOK, Timely, GetOf, Get
  <2>4. GetOf(g)'
    BY <2>2, <2>3, <1>0 DEF GetOf, Time
  <2>5. kept \in Copy
    BY <2>3 DEF Copy, Time
  <2>6. copy' \in [Keys -> Copy \cup {None}]
    BY <2>3, <2>5 DEF Inv, TypeOK
  <2>7. ASSUME NEW k \in Keys PROVE CopyOf(k)'
    <3>1. CASE copy'[k] = copy[k]
      BY <3>1, <2>3 DEF CopyOf, Inv, Timely
    <3>2. CASE copy'[k] = kept
      BY <3>2, <2>3, <1>0 DEF CopyOf, Time
    <3> QED
      BY <3>1, <3>2, <2>3 DEF Inv, TypeOK
  <2> HIDE DEF new, kept
  <2> QED
    BY <2>1, <2>3, <2>4, <2>6, <2>7, Serves
<1>12. CASE UNCHANGED vars
  <2>1. TypeOK'
    BY <1>12 DEF Inv, TypeOK, vars
  <2> QED
    BY <1>12, <2>1, <1>0, BucketKept, ViewKept DEF Inv, vars
<1> QED
  BY <1>1, <1>2, <1>3, <1>4, <1>5, <1>6, <1>7, <1>8, <1>9, <1>10, <1>11, <1>12 DEF Next

(***************************************************************************)
(* The theorems.                                                           *)
(***************************************************************************)

LEMMA Invariance == Spec => []Inv
BY InitInv, NextInv, PTL DEF Spec

(* Every variable keeps its type.                                          *)
THEOREM TypeCorrect == Spec => []TypeOK
<1>1. Inv => TypeOK
  BY DEF Inv
<1> QED
  BY <1>1, Invariance, PTL

(* What a key holds was sent to its URL in time, as the signed type and    *)
(* within the limits of DirectUpload.                                      *)
THEOREM SignedTheorem == Spec => []StoredAsSigned
<1>1. Inv => StoredAsSigned
  <2> SUFFICES ASSUME Inv, NEW k \in Keys, object[k] # None
               PROVE  LET p == put[object[k]] IN
                      /\ p.key = k /\ p.header = link[k].type /\ p.begun <= link[k].exp
                      /\ p.length <= MaxBytes \/ (~p.declared /\ p.length <= MaxBytes + Slack)
    BY DEF StoredAsSigned
  <2>1. object[k] \in Puts /\ put[object[k]].declared \in BOOLEAN
    BY DEF Inv, TypeOK, Put
  <2>2. HeldOf(k) /\ SignedOf(object[k])
    BY <2>1 DEF Inv, Held, Signed
  <2> QED
    BY <2>1, <2>2 DEF HeldOf, SignedOf, Admitted
<1> QED
  BY <1>1, Invariance, PTL

(* Headers and bytes of an answer are those of one upload, and a viewer is *)
(* shown nothing that was replaced more than CacheLife before.             *)
THEOREM CurrentTheorem == Spec => []ShownWasCurrent
<1>1. Inv => ShownWasCurrent
  BY DEF ShownWasCurrent, Inv, Timely, GetOf
<1> QED
  BY <1>1, Invariance, PTL
=============================================================================

------------------------------- MODULE Uploads -------------------------------
(***************************************************************************)
(* Images in object storage (handler/storage.go, xstorage).  A signed-in   *)
(* client asks for an upload URL: a fresh random key and a token that      *)
(* signs key, content type and expiry.  Whoever has the URL may PUT the    *)
(* bytes, as often as it likes, until the token expires; the server keeps  *)
(* nothing about it.  GET streams the object through the server and lets   *)
(* browsers and CDNs keep a copy for an hour.                              *)
(*                                                                         *)
(* The storage (MinIO) is external: it replaces an object as a whole, the  *)
(* reader of an object is pinned to the version whose Stat it has seen,    *)
(* and every call may fail, with or without effect.  One copy per key      *)
(* stands for the caches of all clients.                                   *)
(***************************************************************************)
EXTENDS Naturals

CONSTANTS
  Keys,       \* random keys
  Types,      \* allowedImageTypes
  Puts,       \* PUT /storage/uploads/direct requests
  Gets,       \* GET /storage/<key> requests of viewers
  Lengths,    \* lengths of the files clients send
  MaxBytes,   \* maxUploadBytes
  Slack,      \* the 1024 bytes MaxBytesReader adds to it
  TokenLife,  \* the 15 minutes of an upload URL
  CacheLife,  \* max-age
  MaxTime,    \* bound on the clock
  None        \* nothing

ASSUME UploadsAssumption ==
  /\ Lengths \subseteq Nat /\ Lengths # {}
  /\ MaxBytes \in Nat /\ Slack \in Nat
  /\ TokenLife \in Nat /\ CacheLife \in Nat /\ MaxTime \in Nat
  /\ None \notin Keys \cup Puts \cup Types \cup Nat

VARIABLES
  now,       \* the clock, in seconds
  link,      \* the upload URL of a key: the signed type and expiry
  put,       \* the uploads
  object,    \* the bucket: the upload a key holds
  replaced,  \* history: when the object of an upload was overwritten
  get,       \* the downloads
  copy       \* the copies of caches: the upload they hold, until when

vars == <<now, link, put, object, replaced, get, copy>>

Time == 0..MaxTime
Link == [type : Types, exp : 0..(MaxTime + TokenLife)]
Put  == [at : {"idle", "receiving", "stored", "failed", "refused"},
         key : Keys \cup {None}, header : Types \cup {None},
         length : Lengths, declared : BOOLEAN, begun : Time]
Get  == [at : {"idle", "opened", "copying", "shown", "cut", "notFound"},
         key : Keys \cup {None}, put : Puts \cup {None}, bytes : Puts \cup {None},
         asked : Time]
Copy == [put : Puts, until : 0..(MaxTime + CacheLife)]

TypeOK ==
  /\ now \in Time
  /\ link \in [Keys -> Link \cup {None}]
  /\ put \in [Puts -> Put]
  /\ object \in [Keys -> Puts \cup {None}]
  /\ replaced \in [Puts -> Time \cup {None}]
  /\ get \in [Gets -> Get]
  /\ copy \in [Keys -> Copy \cup {None}]

NewPut == [at |-> "idle", key |-> None, header |-> None,
           length |-> CHOOSE n \in Lengths : TRUE, declared |-> FALSE, begun |-> 0]
NewGet == [at |-> "idle", key |-> None, put |-> None, bytes |-> None, asked |-> 0]

Init ==
  /\ now = 0
  /\ link = [k \in Keys |-> None]
  /\ put = [p \in Puts |-> NewPut]
  /\ object = [k \in Keys |-> None]
  /\ replaced = [p \in Puts |-> None]
  /\ get = [g \in Gets |-> NewGet]
  /\ copy = [k \in Keys |-> None]

Tick ==
  /\ now < MaxTime
  /\ now' = now + 1
  /\ UNCHANGED <<link, put, object, replaced, get, copy>>

(***************************************************************************)
(* Uploading.                                                              *)
(***************************************************************************)

(* RequestUploadURL, for an announced size and type that pass.  The size   *)
(* is not signed.                                                          *)
RequestUploadURL(k) ==
  /\ link[k] = None
  /\ \E t \in Types : link' = [link EXCEPT ![k] = [type |-> t, exp |-> now + TokenLife]]
  /\ UNCHANGED <<now, put, object, replaced, get, copy>>

(* Faulty variant: the expiry is signed but not checked.                   *)
AdmitsForGood(k, t, length, declared) ==
  t = link[k].type /\ (declared => length <= MaxBytes)

(* The checks of DirectUpload: the expiry in whole seconds, the header     *)
(* against the signed type, the length if the client declares one.         *)
Admits(k, t, length, declared) ==
  /\ now <= link[k].exp
  /\ t = link[k].type
  /\ declared => length <= MaxBytes

(* DirectUpload up to PutObject; the client may have picked another file   *)
(* than the one it announced.                                              *)
DirectUpload(p) ==
  /\ put[p].at = "idle"
  /\ \E k \in Keys, t \in Types, length \in Lengths, declared \in BOOLEAN :
       /\ link[k] # None
       /\ put' = [put EXCEPT ![p] =
            IF Admits(k, t, length, declared)
            THEN [at |-> "receiving", key |-> k, header |-> t,
                  length |-> length, declared |-> declared, begun |-> now]
            ELSE [NewPut EXCEPT !.at = "refused"]]
  /\ UNCHANGED <<now, link, object, replaced, get, copy>>

(* Whether the body can be read to its end: MaxBytesReader.                *)
Fits(p) == put[p].length <= MaxBytes + Slack

(* The bucket after the upload p of its key.                               *)
Replace(p) ==
  LET k == put[p].key IN
  /\ object' = [object EXCEPT ![k] = p]
  /\ replaced' = IF object[k] = None THEN replaced ELSE [replaced EXCEPT ![object[k]] = now]

(* PutObject has stored the whole body: 204.                               *)
Store(p) ==
  /\ put[p].at = "receiving"
  /\ Fits(p)
  /\ Replace(p)
  /\ put' = [put EXCEPT ![p].at = "stored"]
  /\ UNCHANGED <<now, link, get, copy>>

(* PutObject fails: the body is too long, the client is gone, or MinIO     *)
(* does not answer, in which case the object may be there.                 *)
StoreFails(p) ==
  /\ put[p].at = "receiving"
  /\ put' = [put EXCEPT ![p].at = "failed"]
  /\ \/ UNCHANGED <<object, replaced>>
     \/ Fits(p) /\ Replace(p)
  /\ UNCHANGED <<now, link, get, copy>>

(***************************************************************************)
(* Downloading.                                                            *)
(***************************************************************************)

(* A cache answers as long as its copy is fresh.                           *)
Fresh(k) == copy[k] # None /\ now <= copy[k].until

FromCache(g) ==
  /\ get[g].at = "idle"
  /\ \E k \in Keys :
       /\ Fresh(k)
       /\ get' = [get EXCEPT ![g] = [at |-> "shown", key |-> k, put |-> copy[k].put,
                                     bytes |-> copy[k].put, asked |-> now]]
  /\ UNCHANGED <<now, link, put, object, replaced, copy>>

(* Serve: GetObject and Stat, from which the headers are written.          *)
Open(g) ==
  /\ get[g].at = "idle"
  /\ \E k \in Keys :
       /\ ~Fresh(k)
       /\ object[k] # None
       /\ get' = [get EXCEPT ![g] = [at |-> "opened", key |-> k, put |-> object[k],
                                     bytes |-> None, asked |-> now]]
  /\ UNCHANGED <<now, link, put, object, replaced, copy>>

(* No object, or any other error of the storage: 404.                      *)
NotFound(g) ==
  /\ get[g].at = "idle"
  /\ get' = [get EXCEPT ![g].at = "notFound"]
  /\ UNCHANGED <<now, link, put, object, replaced, copy>>

(* The first read of the body asks MinIO for the version of the Stat.      *)
Read(g) ==
  /\ get[g].at = "opened"
  /\ object[get[g].key] = get[g].put
  /\ get' = [get EXCEPT ![g].at = "copying", ![g].bytes = get[g].put]
  /\ UNCHANGED <<now, link, put, object, replaced, copy>>

(* That version is gone, or MinIO or the client is: io.Copy ends early,    *)
(* its error is dropped, and the client has fewer bytes than announced.    *)
CutShort(g) ==
  /\ get[g].at \in {"opened", "copying"}
  /\ get' = [get EXCEPT ![g].at = "cut"]
  /\ UNCHANGED <<now, link, put, object, replaced, copy>>

(* Faulty variant: a cache may start the hour when it has the last byte.   *)
FinishAgeless(g) ==
  /\ get[g].at = "copying"
  /\ get' = [get EXCEPT ![g].at = "shown"]
  /\ copy' = [copy EXCEPT ![get[g].key] = [put |-> get[g].bytes, until |-> now + CacheLife]]
  /\ UNCHANGED <<now, link, put, object, replaced>>

(* The last byte: caches may keep the answer, from the time of its headers *)
(* on.                                                                     *)
Finish(g) ==
  /\ get[g].at = "copying"
  /\ get' = [get EXCEPT ![g].at = "shown"]
  /\ copy' \in {copy, [copy EXCEPT ![get[g].key] =
                         [put |-> get[g].bytes, until |-> get[g].asked + CacheLife]]}
  /\ UNCHANGED <<now, link, put, object, replaced>>

(***************************************************************************)
(* The specification.                                                      *)
(***************************************************************************)

Next ==
  \/ Tick
  \/ \E k \in Keys : RequestUploadURL(k)
  \/ \E p \in Puts : DirectUpload(p) \/ Store(p) \/ StoreFails(p)
  \/ \E g \in Gets : \/ FromCache(g) \/ Open(g) \/ NotFound(g)
                     \/ Read(g) \/ CutShort(g) \/ Finish(g)

Spec == Init /\ [][Next]_vars

(***************************************************************************)
(* Properties.                                                             *)
(***************************************************************************)

(* What a key holds was sent to the URL of the key before it expired, as   *)
(* the type that was announced, and is no longer than the limit, or, if    *)
(* its length was not declared, than the limit of the reader.              *)
StoredAsSigned ==
  \A k \in Keys : object[k] # None =>
    LET p == put[object[k]] IN
    /\ p.key = k /\ p.header = link[k].type /\ p.begun <= link[k].exp
    /\ p.length <= MaxBytes \/ (~p.declared /\ p.length <= MaxBytes + Slack)

(* The headers and the bytes a viewer is shown are those of one upload,    *)
(* and, the hour of the caches, it was in the bucket at most CacheLife     *)
(* before the viewer asked, through any number of overlapping uploads and  *)
(* slow downloads.  As a key is written only through its URL, no copy is   *)
(* stale once the URL has expired, the uploads begun before that have      *)
(* ended and CacheLife has passed; until then the comment "URLs don't      *)
(* collide" does not hold for a client that uses its URL twice.            *)
ShownWasCurrent ==
  \A g \in Gets : get[g].at = "shown" =>
    /\ get[g].bytes = get[g].put /\ get[g].put \in Puts
    /\ replaced[get[g].put] # None => get[g].asked <= replaced[get[g].put] + CacheLife
=============================================================================

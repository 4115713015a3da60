----------------------------- MODULE InboxProofs -----------------------------
(***************************************************************************)
(* Proofs about Inbox, for any accounts, announcements, requests, texts    *)
(* and page.                                                               *)
(*                                                                         *)
(* Flight is what a handler on an announcement knows of it and of the      *)
(* accounts, Told which accounts its page cannot have missed, Due that     *)
(* MarkAllRead has every notification of its account in its snapshot or    *)
(* read, Fresh that a request publishes once.  Inv is inductive.           *)
(*                                                                         *)
(* The last part is about Paging, the pages in which the inbox and the     *)
(* other lists are read; its inductive invariant is PagesInv.              *)
(***************************************************************************)
EXTENDS Inbox, Paging, SequenceTheorems, FiniteSetTheorems, TLAPS

FlightOf(r) ==
  InFlight(r) =>
    /\ work[r].about \in Announcements
    /\ work[r].row \in Announcement /\ ~work[r].row.deleted
    /\ ann[work[r].about] \in Announcement
    /\ ann[work[r].about].deleted => seen[r].deleted
    /\ work[r].row.text \in seen[r].texts
    /\ seen[r].always \subseteq active /\ active \subseteq seen[r].ever

(* The accounts among the first PageMax of those that were ever active.    *)
Entitled(r) ==
  {u \in seen[r].always : Cardinality({v \in seen[r].ever : v < u}) < PageMax}

ToldOf(r) ==
  at[r] = "listed" => work[r].picked \subseteq seen[r].ever /\ Entitled(r) \subseteq work[r].picked

DueOf(r) ==
  at[r] = "marking" =>
    \A n \in seen[r].due : inbox[n] # None /\ (inbox[n].is_read \/ n \in work[r].matched)

SnapshotOf(r) == at[r] = "marking" => \A n \in work[r].matched : inbox[n] # None

FreshOf(r) == at[r] # "published" => \A u \in Users : inbox[<<r, u>>] = None

NoteOf(n) == inbox[n] # None => (inbox[n].is_read <=> inbox[n].read_at # None)

Flight == \A r \in Requests : FlightOf(r) /\ ToldOf(r)
Due == \A r \in Requests : DueOf(r) /\ SnapshotOf(r)
Fresh == \A r \in Requests : FreshOf(r)
Timed == \A n \in Notes : NoteOf(n)

Inv == TypeOK /\ Flight /\ Due /\ Fresh /\ Timed

LEMMA InitInv == Init => Inv
<1> SUFFICES ASSUME Init PROVE Inv
  OBVIOUS
<1>1. NoLocals \in Locals /\ NoWitness \in Witness
  BY DEF NoLocals, Locals, NoWitness, Witness
<1>2. TypeOK
  BY <1>1 DEF Init, TypeOK
<1>3. Flight /\ Due
  BY DEF Init, Flight, FlightOf, ToldOf, InFlight, Due, DueOf, SnapshotOf
<1>4. Fresh
  BY DEF Init, Fresh, FreshOf, Notes
<1>5. Timed
  BY DEF Init, Timed, NoteOf
<1> QED
  BY <1>2, <1>3, <1>4, <1>5 DEF Inv

(***************************************************************************)
(* What a step leaves alone.                                               *)
(***************************************************************************)

(* Announcements, accounts and the requests about them stand.              *)
LEMMA FlightStands ==
  ASSUME Flight, UNCHANGED <<ann, active>>,
         \A q \in Requests :
           \/ at'[q] \notin {"updating", "publishing", "listed"}
           \/ /\ at'[q] = at[q] /\ work'[q] = work[q]
              /\ seen'[q].texts = seen[q].texts /\ seen'[q].deleted = seen[q].deleted
              /\ seen'[q].ever = seen[q].ever /\ seen'[q].always = seen[q].always
  PROVE  Flight'
<1>1. ASSUME NEW q \in Requests PROVE FlightOf(q)'
  BY DEF Flight, FlightOf, InFlight
<1>2. ASSUME NEW q \in Requests PROVE ToldOf(q)'
  BY DEF Flight, ToldOf, Entitled
<1> QED
  BY <1>1, <1>2 DEF Flight

(* No notification is marked unread, and no MarkAllRead begins.            *)
LEMMA DueStands ==
  ASSUME TypeOK, TypeOK', Due,
         \A q \in Requests :
           \/ at'[q] # "marking"
           \/ at'[q] = at[q] /\ work'[q] = work[q] /\ seen'[q].due = seen[q].due,
         \A n \in Notes : inbox[n] # None /\ inbox'[n] # inbox[n] =>
           inbox'[n] # None /\ (inbox[n].is_read => inbox'[n].is_read)
  PROVE  Due'
<1>1. ASSUME NEW q \in Requests, at'[q] = "marking", NEW n \in seen'[q].due
      PROVE  inbox'[n] # None /\ (inbox'[n].is_read \/ n \in work'[q].matched)
  <2>1. at[q] = "marking" /\ work'[q] = work[q] /\ n \in seen[q].due
    BY <1>1
  <2>2. n \in Notes
    BY <2>1 DEF TypeOK, Witness
  <2>3. inbox[n] # None /\ (inbox[n].is_read \/ n \in work[q].matched)
    BY <2>1 DEF Due, DueOf
  <2>4. CASE inbox'[n] = inbox[n]
    BY <2>1, <2>3, <2>4
  <2>5. CASE inbox'[n] # inbox[n]
    BY <2>1, <2>2, <2>3, <2>5
  <2> QED
    BY <2>4, <2>5
<1>2. ASSUME NEW q \in Requests, at'[q] = "marking", NEW n \in work'[q].matched
      PROVE  inbox'[n] # None
  <2>1. at[q] = "marking" /\ n \in work[q].matched
    BY <1>2
  <2>2. n \in Notes
    BY <2>1 DEF TypeOK, Locals
  <2> QED
    BY <2>1, <2>2 DEF Due, SnapshotOf
<1> QED
  BY <1>1, <1>2 DEF Due, DueOf, SnapshotOf

(* Rows are neither inserted nor removed.                                  *)
LEMMA FreshStands ==
  ASSUME Fresh, \A q \in Requests : at[q] = "published" => at'[q] = "published",
         \A n \in Notes : inbox[n] = None => inbox'[n] = None
  PROVE  Fresh'
BY DEF Fresh, FreshOf, Notes

(* A step that leaves the inboxes alone.                                   *)
LEMMA InboxStands ==
  ASSUME Inv, TypeOK', inbox' = inbox,
         \A q \in Requests :
           /\ at[q] = "published" => at'[q] = "published"
           /\ \/ at'[q] # "marking"
              \/ at'[q] = at[q] /\ work'[q] = work[q] /\ seen'[q].due = seen[q].due
  PROVE  Due' /\ Fresh' /\ Timed'
<1>1. Due'
  BY DueStands DEF Inv
<1>2. Fresh'
  BY FreshStands DEF Inv
<1>3. Timed'
  BY DEF Inv, Timed, NoteOf
<1> QED
  BY <1>1, <1>2, <1>3

(* The history of a request stays one.                                     *)
LEMMA WitnessStays ==
  ASSUME NEW w \in Witness
  PROVE  /\ [w EXCEPT !.deleted = TRUE] \in Witness
         /\ \A u \in Users : /\ [w EXCEPT !.always = @ \ {u}] \in Witness
                             /\ [w EXCEPT !.ever = @ \cup {u}] \in Witness
         /\ \A n \in Notes : [w EXCEPT !.due = @ \ {n}] \in Witness
         /\ \A t \in Texts : [w EXCEPT !.texts = @ \cup {t}] \in Witness
BY DEF Witness

(***************************************************************************)
(* Announcements and accounts.                                             *)
(***************************************************************************)

LEMMA CreateAnnouncementInv ==
  ASSUME Inv, NEW a \in Announcements, NEW t \in Texts, CreateAnnouncement(a, t)
  PROVE  Inv'
<1>1. TypeOK'
  BY DEF CreateAnnouncement, Inv, TypeOK, Announcement
<1>2. ann[a] = None /\ UNCHANGED <<active, inbox, at, work, seen>>
      /\ \A b \in Announcements \ {a} : ann'[b] = ann[b]
  BY DEF CreateAnnouncement, Inv, TypeOK
<1>3. ASSUME NEW q \in Requests PROVE FlightOf(q)' /\ ToldOf(q)'
  <2>1. InFlight(q) => work[q].about # a
    BY <1>2, InboxAssumption DEF Inv, Flight, FlightOf, InboxAssumption
  <2> QED
    BY <1>2, <2>1 DEF Inv, Flight, FlightOf, ToldOf, Entitled, InFlight
<1>4. Due' /\ Fresh' /\ Timed'
  BY <1>1, <1>2, InboxStands
<1> QED
  BY <1>1, <1>3, <1>4 DEF Inv, Flight

LEMMA DeleteAnnouncementInv ==
  ASSUME Inv, NEW a \in Announcements, DeleteAnnouncement(a)
  PROVE  Inv'
<1>1. ann[a] \in Announcement /\ ann' = [ann EXCEPT ![a].deleted = TRUE]
      /\ UNCHANGED <<active, inbox, at, caller, work>>
  BY DEF DeleteAnnouncement, IsLive, Inv, TypeOK
<1>2. seen' = [r \in Requests |-> IF InFlight(r) /\ work[r].about = a
                                   THEN [seen[r] EXCEPT !.deleted = TRUE] ELSE seen[r]]
  BY DEF DeleteAnnouncement
<1>3. seen' \in [Requests -> Witness]
  BY <1>2, WitnessStays DEF Inv, TypeOK
<1>4. ann' \in [Announcements -> Announcement \cup {None}]
  BY <1>1 DEF Inv, TypeOK, Announcement
<1>5. TypeOK'
  BY <1>1, <1>3, <1>4 DEF Inv, TypeOK
<1>6. ann'[a] = [ann[a] EXCEPT !.deleted = TRUE] /\ \A b \in Announcements \ {a} : ann'[b] = ann[b]
  BY <1>1 DEF Inv, TypeOK
<1>7. ASSUME NEW q \in Requests
      PROVE  /\ seen'[q].texts = seen[q].texts /\ seen'[q].ever = seen[q].ever
             /\ seen'[q].always = seen[q].always /\ seen'[q].due = seen[q].due
             /\ InFlight(q) /\ work[q].about = a => seen'[q].deleted
             /\ seen[q].deleted => seen'[q].deleted
  <2>1. seen[q] \in Witness
    BY DEF Inv, TypeOK
  <2>2. seen'[q] = IF InFlight(q) /\ work[q].about = a
                   THEN [seen[q] EXCEPT !.deleted = TRUE] ELSE seen[q]
    BY <1>2
  <2> QED
    BY <2>1, <2>2 DEF Witness
<1>8. ASSUME NEW q \in Requests PROVE FlightOf(q)' /\ ToldOf(q)'
  <2>1. ToldOf(q)'
    BY <1>1, <1>7 DEF Inv, Flight, ToldOf, Entitled
  <2>2. ASSUME InFlight(q), work[q].about = a PROVE FlightOf(q)'
    <3>1. ann'[a] \in Announcement
      <4>1. [ann[a] EXCEPT !.deleted = TRUE] \in Announcement
        BY <1>1 DEF Announcement
      <4> QED
        BY <1>6, <4>1
    <3>2. FlightOf(q)
      BY DEF Inv, Flight
    <3>3. seen'[q].deleted /\ work'[q] = work[q] /\ active' = active
      BY <1>1, <1>7, <2>2
    <3> QED
      BY <1>7, <2>2, <3>1, <3>2, <3>3 DEF FlightOf
  <2>3. ASSUME InFlight(q), work[q].about # a PROVE FlightOf(q)'
    BY <1>1, <1>6, <1>7, <2>3 DEF Inv, Flight, FlightOf, InFlight
  <2>4. ASSUME ~InFlight(q) PROVE FlightOf(q)'
    BY <1>1, <2>4 DEF FlightOf, InFlight
  <2> QED
    BY <2>1, <2>2, <2>3, <2>4
<1>9. Due' /\ Fresh' /\ Timed'
  BY <1>1, <1>5, <1>7, InboxStands
<1> QED
  BY <1>5, <1>8, <1>9 DEF Inv, Flight

(* Who is entitled to be told can only become fewer.                       *)
LEMMA EntitledShrinks ==
  ASSUME Inv, NEW r \in Requests, TypeOK',
         seen'[r].always \subseteq seen[r].always, seen[r].ever \subseteq seen'[r].ever
  PROVE  Entitled(r)' \subseteq Entitled(r)
<1> SUFFICES ASSUME NEW u \in Entitled(r)' PROVE u \in Entitled(r)
  OBVIOUS
<1> DEFINE few == {v \in seen[r].ever : v < u}
           many == {v \in seen'[r].ever : v < u}
<1>1. u \in seen[r].always /\ Cardinality(many) < PageMax
  BY DEF Entitled
<1>2. seen[r].ever \subseteq Nat /\ seen'[r].ever \subseteq Nat /\ u \in Nat
  BY InboxAssumption DEF InboxAssumption, Inv, TypeOK, Witness, Entitled
<1>3. IsFiniteSet(many)
  <2>1. many \subseteq 0 .. u
    BY <1>2
  <2>2. IsFiniteSet(0 .. u)
    BY <1>2, FS_Interval
  <2> QED
    BY <2>1, <2>2, FS_Subset
<1>4. few \subseteq many
  OBVIOUS
<1>5. Cardinality(few) <= Cardinality(many) /\ Cardinality(few) \in Nat /\ Cardinality(many) \in Nat
  BY <1>3, <1>4, FS_Subset, FS_CardinalityType
<1>6. PageMax \in Nat
  BY InboxAssumption DEF InboxAssumption
<1>7. Cardinality(few) < PageMax
  <2> HIDE DEF few, many
  <2> QED
    BY <1>1, <1>5, <1>6
<1> QED
  BY <1>1, <1>7 DEF Entitled

(* The accounts change, and every request under way has seen it.           *)
LEMMA AccountsChange ==
  ASSUME Inv, TypeOK', UNCHANGED <<ann, inbox, at, work>>,
         \A q \in Requests :
           /\ seen'[q].texts = seen[q].texts /\ seen'[q].deleted = seen[q].deleted
           /\ seen'[q].due = seen[q].due
           /\ seen'[q].always \subseteq seen[q].always /\ seen[q].ever \subseteq seen'[q].ever
           /\ InFlight(q) => seen'[q].always \subseteq active' /\ active' \subseteq seen'[q].ever
  PROVE  Inv'
<1>1. ASSUME NEW q \in Requests PROVE FlightOf(q)'
  BY DEF Inv, Flight, FlightOf, InFlight
<1>2. ASSUME NEW q \in Requests PROVE ToldOf(q)'
  <2>1. Entitled(q)' \subseteq Entitled(q)
    BY EntitledShrinks
  <2> QED
    BY <2>1 DEF Inv, Flight, ToldOf
<1>3. Due' /\ Fresh' /\ Timed'
  BY InboxStands
<1> QED
  BY <1>1, <1>2, <1>3 DEF Inv, Flight

LEMMA LockInv == ASSUME Inv, NEW u \in Users, Lock(u) PROVE Inv'
<1>1. /\ active' = active \ {u} /\ UNCHANGED <<ann, inbox, at, caller, work>>
      /\ seen' = [r \in Requests |-> [seen[r] EXCEPT !.always = @ \ {u}]]
  BY DEF Lock
<1>2. seen' \in [Requests -> Witness]
  BY <1>1, WitnessStays DEF Inv, TypeOK
<1>3. TypeOK'
  BY <1>1, <1>2 DEF Inv, TypeOK
<1>4. ASSUME NEW q \in Requests
      PROVE  /\ seen'[q].texts = seen[q].texts /\ seen'[q].deleted = seen[q].deleted
             /\ seen'[q].due = seen[q].due /\ seen'[q].ever = seen[q].ever
             /\ seen'[q].always = seen[q].always \ {u}
  <2>1. seen[q] \in Witness
    BY DEF Inv, TypeOK
  <2>2. seen'[q] = [seen[q] EXCEPT !.always = @ \ {u}]
    BY <1>1
  <2> QED
    BY <2>1, <2>2 DEF Witness
<1>5. ASSUME NEW q \in Requests, InFlight(q)
      PROVE  seen'[q].always \subseteq active' /\ active' \subseteq seen'[q].ever
  BY <1>1, <1>4, <1>5 DEF Inv, Flight, FlightOf
<1> QED
  BY <1>1, <1>3, <1>4, <1>5, AccountsChange

LEMMA UnlockInv == ASSUME Inv, NEW u \in Users, Unlock(u) PROVE Inv'
<1>1. /\ active' = active \cup {u} /\ UNCHANGED <<ann, inbox, at, caller, work>>
      /\ seen' = [r \in Requests |-> IF InFlight(r) THEN [seen[r] EXCEPT !.ever = @ \cup {u}]
                                                    ELSE seen[r]]
  BY DEF Unlock
<1>2. seen' \in [Requests -> Witness]
  BY <1>1, WitnessStays DEF Inv, TypeOK
<1>3. TypeOK'
  BY <1>1, <1>2 DEF Inv, TypeOK
<1>4. ASSUME NEW q \in Requests
      PROVE  /\ seen'[q].texts = seen[q].texts /\ seen'[q].deleted = seen[q].deleted
             /\ seen'[q].due = seen[q].due /\ seen'[q].always = seen[q].always
             /\ seen[q].ever \subseteq seen'[q].ever
             /\ InFlight(q) => seen'[q].ever = seen[q].ever \cup {u}
  <2>1. seen[q] \in Witness
    BY DEF Inv, TypeOK
  <2>2. seen'[q] = IF InFlight(q) THEN [seen[q] EXCEPT !.ever = @ \cup {u}] ELSE seen[q]
    BY <1>1
  <2> QED
    BY <2>1, <2>2 DEF Witness
<1>5. ASSUME NEW q \in Requests, InFlight(q)
      PROVE  seen'[q].always \subseteq active' /\ active' \subseteq seen'[q].ever
  <2>1. seen[q].always \subseteq active /\ active \subseteq seen[q].ever
    BY <1>5 DEF Inv, Flight, FlightOf
  <2>2. seen'[q].always = seen[q].always /\ seen'[q].ever = seen[q].ever \cup {u}
    BY <1>4, <1>5
  <2> QED
    BY <1>1, <2>1, <2>2
<1> QED
  BY <1>1, <1>3, <1>4, <1>5, AccountsChange

(***************************************************************************)
(* Updating and publishing.                                                *)
(***************************************************************************)

LEMMA LoadInv ==
  ASSUME Inv, NEW r \in Requests, NEW a \in Announcements,
         NEW to \in {"updating", "publishing"}, Load(r, a, to)
  PROVE  Inv'
<1>1. at[r] = "idle" /\ UNCHANGED <<active, ann, inbox, caller>>
  BY DEF Load, rows
<1>2. CASE Finds(a)
  <2>1. /\ ann[a] \in Announcement /\ ~ann[a].deleted
        /\ at' = [at EXCEPT ![r] = to]
        /\ work' = [work EXCEPT ![r].about = a, ![r].row = ann[a]]
        /\ seen' = [seen EXCEPT ![r].texts = {ann[a].text}, ![r].ever = active,
                                ![r].always = active]
    BY <1>2 DEF Load, Finds, IsLive, Goes, Inv, TypeOK
  <2>2. ann[a].text \in Texts
    BY <2>1 DEF Announcement
  <2>3. work' \in [Requests -> Locals]
    <3>1. work' = [q \in Requests |->
                     IF q = r THEN [work[r] EXCEPT !.about = a, !.row = ann[a]] ELSE work[q]]
      BY <2>1 DEF Inv, TypeOK
    <3>2. [work[r] EXCEPT !.about = a, !.row = ann[a]] \in Locals
      BY <2>1 DEF Inv, TypeOK, Locals
    <3> QED
      BY <3>1, <3>2 DEF Inv, TypeOK
  <2>4. seen' \in [Requests -> Witness]
    <3> DEFINE new == [seen[r] EXCEPT !.texts = {ann[a].text}, !.ever = active, !.always = active]
    <3>1. seen' = [q \in Requests |-> IF q = r THEN new ELSE seen[q]]
      BY <2>1 DEF Inv, TypeOK
    <3>2. new \in Witness
      BY <2>2 DEF Inv, TypeOK, Witness
    <3> QED
      BY <3>1, <3>2 DEF Inv, TypeOK
  <2>5. TypeOK'
    BY <1>1, <2>1, <2>3, <2>4 DEF Inv, TypeOK
  <2>6. /\ at'[r] = to /\ work'[r].about = a /\ work'[r].row = ann[a]
        /\ seen'[r].texts = {ann[a].text} /\ seen'[r].ever = active /\ seen'[r].always = active
        /\ \A q \in Requests \ {r} : at'[q] = at[q] /\ work'[q] = work[q] /\ seen'[q] = seen[q]
    BY <2>1 DEF Inv, TypeOK, Locals, Witness
  <2>7. ASSUME NEW q \in Requests PROVE FlightOf(q)' /\ ToldOf(q)'
    <3>1. CASE q = r
      BY <3>1, <1>1, <2>1, <2>6 DEF FlightOf, ToldOf, InFlight
    <3>2. CASE q # r
      BY <3>2, <1>1, <2>6 DEF Inv, Flight, FlightOf, ToldOf, Entitled, InFlight
    <3> QED
      BY <3>1, <3>2
  <2>8. Due' /\ Fresh' /\ Timed'
    BY <1>1, <2>5, <2>6, InboxStands
  <2> QED
    BY <2>5, <2>7, <2>8 DEF Inv, Flight
<1>3. CASE ~Finds(a)
  <2>1. at' = [at EXCEPT ![r] = "error"] /\ UNCHANGED <<work, seen>>
    BY <1>3 DEF Load, Goes
  <2>2. TypeOK'
    BY <1>1, <2>1 DEF Inv, TypeOK
  <2>3. at'[r] = "error" /\ \A q \in Requests \ {r} : at'[q] = at[q]
    BY <2>1 DEF Inv, TypeOK
  <2>4. Flight'
    BY <1>1, <2>1, <2>3, FlightStands DEF Inv
  <2>5. Due' /\ Fresh' /\ Timed'
    BY <1>1, <2>1, <2>2, <2>3, InboxStands
  <2> QED
    BY <2>2, <2>4, <2>5 DEF Inv
<1> QED
  BY <1>2, <1>3

LEMMA SaveAnnouncementInv ==
  ASSUME Inv, NEW r \in Requests, NEW t \in Texts, SaveAnnouncement(r, t)
  PROVE  Inv'
<1> DEFINE a == work[r].about
           row == [work[r].row EXCEPT !.text = t]
<1>1. /\ at[r] = "updating" /\ ann' = [ann EXCEPT ![a] = row]
      /\ at' = [at EXCEPT ![r] = "ok"] /\ work' = [work EXCEPT ![r] = NoLocals]
      /\ UNCHANGED <<active, inbox, caller>>
  BY DEF SaveAnnouncement, Ends, Goes
<1>2. seen' = [q \in Requests |->
                 IF q = r THEN NoWitness
                 ELSE IF InFlight(q) /\ work[q].about = a
                 THEN [seen[q] EXCEPT !.texts = @ \cup {t}] ELSE seen[q]]
  BY DEF SaveAnnouncement
<1>3. FlightOf(r) /\ InFlight(r)
  BY <1>1 DEF Inv, Flight, InFlight
<1>4. a \in Announcements /\ row \in Announcement /\ ~row.deleted
  BY <1>3 DEF FlightOf, Announcement
<1>5. NoLocals \in Locals /\ NoWitness \in Witness
  BY DEF NoLocals, Locals, NoWitness, Witness
<1> HIDE DEF row
<1>6. seen' \in [Requests -> Witness]
  BY <1>2, <1>5, WitnessStays DEF Inv, TypeOK
<1>7. TypeOK'
  BY <1>1, <1>4, <1>5, <1>6 DEF Inv, TypeOK
<1>8. /\ at'[r] = "ok" /\ ann'[a] = row /\ \A b \in Announcements \ {a} : ann'[b] = ann[b]
      /\ \A q \in Requests \ {r} : at'[q] = at[q] /\ work'[q] = work[q]
  BY <1>1, <1>4 DEF Inv, TypeOK
<1>9. ASSUME NEW q \in Requests \ {r}
      PROVE  /\ seen'[q].deleted = seen[q].deleted /\ seen'[q].due = seen[q].due
             /\ seen'[q].ever = seen[q].ever /\ seen'[q].always = seen[q].always
             /\ seen[q].texts \subseteq seen'[q].texts
  BY <1>2 DEF Inv, TypeOK, Witness
<1>10. ASSUME NEW q \in Requests PROVE FlightOf(q)' /\ ToldOf(q)'
  <2>1. CASE q = r
    BY <2>1, <1>8 DEF FlightOf, ToldOf, InFlight
  <2>2. CASE q # r
    <3>1. ToldOf(q)'
      BY <2>2, <1>8, <1>9 DEF Inv, Flight, ToldOf, Entitled
    <3>2. FlightOf(q)
      BY DEF Inv, Flight
    <3>3. InFlight(q) =>
            ann'[work[q].about] = IF work[q].about = a THEN row ELSE ann[work[q].about]
      BY <1>8, <3>2 DEF FlightOf
    <3>4. FlightOf(q)'
      BY <2>2, <1>1, <1>4, <1>8, <1>9, <3>2, <3>3 DEF FlightOf, InFlight
    <3> QED
      BY <3>1, <3>4
  <2> QED
    BY <2>1, <2>2
<1>11. Due' /\ Fresh' /\ Timed'
  BY <1>1, <1>7, <1>8, <1>9, InboxStands
<1> QED
  BY <1>7, <1>10, <1>11 DEF Inv, Flight

LEMMA ListAudienceInv ==
  ASSUME Inv, NEW r \in Requests, ListAudience(r)
  PROVE  Inv'
<1>1. /\ at[r] = "publishing" /\ at' = [at EXCEPT ![r] = "listed"]
      /\ work' = [work EXCEPT ![r].picked = FirstPage]
      /\ UNCHANGED <<active, ann, inbox, caller, seen>>
  BY DEF ListAudience, Goes, rows
<1>2. FirstPage \subseteq active /\ active \subseteq Users
  BY DEF FirstPage, Inv, TypeOK
<1>3. work' \in [Requests -> Locals]
  <2>1. work \in [Requests -> Locals]
    BY DEF Inv, TypeOK
  <2>2. [work[r] EXCEPT !.picked = FirstPage] \in Locals
    BY <1>2, <2>1 DEF Locals, Inv, TypeOK
  <2> QED
    BY <1>1, <2>1, <2>2
<1>4. TypeOK'
  BY <1>1, <1>3 DEF Inv, TypeOK
<1>5. /\ at'[r] = "listed" /\ work'[r].picked = FirstPage /\ work'[r].about = work[r].about
      /\ work'[r].row = work[r].row
      /\ \A q \in Requests \ {r} : at'[q] = at[q] /\ work'[q] = work[q]
  BY <1>1 DEF Inv, TypeOK, Locals
<1>6. FlightOf(r) /\ InFlight(r)
  BY <1>1 DEF Inv, Flight, InFlight
<1>7. ASSUME NEW u \in Entitled(r) PROVE u \in FirstPage
  <2> DEFINE few == {v \in active : v < u}
             many == {v \in seen[r].ever : v < u}
  <2>1. u \in active /\ Cardinality(many) < PageMax
    BY <1>6 DEF FlightOf, Entitled
  <2>2. seen[r].ever \subseteq Nat /\ u \in Nat /\ active \subseteq seen[r].ever
    BY <1>2, <1>6, <2>1, InboxAssumption DEF InboxAssumption, Inv, TypeOK, Witness, FlightOf
  <2>3. IsFiniteSet(many)
    <3>1. many \subseteq 0 .. u
      BY <2>2
    <3>2. IsFiniteSet(0 .. u)
      BY <2>2, FS_Interval
    <3> QED
      BY <3>1, <3>2, FS_Subset
  <2>4. few \subseteq many
    BY <2>2
  <2>5. Cardinality(few) <= Cardinality(many) /\ Cardinality(few) \in Nat /\ Cardinality(many) \in Nat
    BY <2>3, <2>4, FS_Subset, FS_CardinalityType
  <2>6. Cardinality(few) < PageMax
    <3> HIDE DEF few, many
    <3>1. PageMax \in Nat
      BY InboxAssumption DEF InboxAssumption
    <3> QED
      BY <2>1, <2>5, <3>1
  <2> QED
    BY <2>1, <2>6 DEF FirstPage
<1>8. ASSUME NEW q \in Requests PROVE FlightOf(q)' /\ ToldOf(q)'
  <2>1. CASE q = r
    <3>1. FlightOf(r)'
      BY <1>1, <1>5, <1>6 DEF FlightOf
    <3>2. ToldOf(r)'
      BY <1>1, <1>2, <1>5, <1>6, <1>7 DEF ToldOf, Entitled, FlightOf
    <3> QED
      BY <2>1, <3>1, <3>2
  <2>2. CASE q # r
    BY <2>2, <1>1, <1>5 DEF Inv, Flight, FlightOf, ToldOf, Entitled, InFlight
  <2> QED
    BY <2>1, <2>2
<1>9. Due' /\ Fresh' /\ Timed'
  BY <1>1, <1>4, <1>5, InboxStands
<1> QED
  BY <1>4, <1>8, <1>9 DEF Inv, Flight

LEMMA BulkCreateInv ==
  ASSUME Inv, NEW r \in Requests, BulkCreate(r)
  PROVE  Inv'
<1> DEFINE new == [text |-> work[r].row.text, is_read |-> FALSE, read_at |-> None,
                   is_important |-> FALSE]
           sent == {r} \X work[r].picked
<1>1. /\ at[r] = "listed" /\ at' = [at EXCEPT ![r] = "published"]
      /\ work' = [work EXCEPT ![r] = NoLocals] /\ seen' = [seen EXCEPT ![r] = NoWitness]
      /\ inbox' = [n \in Notes |-> IF n \in sent THEN new ELSE inbox[n]]
      /\ UNCHANGED <<active, ann, caller>>
  BY DEF BulkCreate, Ends, Goes
<1>2. NoLocals \in Locals /\ NoWitness \in Witness
  BY DEF NoLocals, Locals, NoWitness, Witness
<1>3. work[r].row.text \in Texts /\ work[r].picked \subseteq Users
  BY <1>1 DEF Inv, Flight, FlightOf, InFlight, Announcement, TypeOK, Locals
<1>4. new \in Notification
  BY <1>3 DEF Notification
<1>5. new # None /\ new.read_at = None /\ ~new.is_read
  BY <1>4, InboxAssumption DEF InboxAssumption
<1>6. \A n \in sent : n \in Notes /\ inbox[n] = None
  BY <1>1, <1>3 DEF Inv, Fresh, FreshOf, Notes
<1> HIDE DEF new, sent
<1>7. inbox' \in [Notes -> Notification \cup {None}]
  BY <1>1, <1>4 DEF Inv, TypeOK
<1>8. TypeOK'
  BY <1>1, <1>2, <1>7 DEF Inv, TypeOK
<1>9. /\ at'[r] = "published"
      /\ \A q \in Requests \ {r} : at'[q] = at[q] /\ work'[q] = work[q] /\ seen'[q] = seen[q]
  BY <1>1 DEF Inv, TypeOK
<1>10. Flight'
  BY <1>1, <1>9, FlightStands DEF Inv
<1>11. Due'
  <2>1. \A n \in Notes : inbox[n] # None => inbox'[n] = inbox[n]
    BY <1>1, <1>6
  <2> QED
    BY <1>8, <1>9, <2>1, DueStands DEF Inv
<1>12. Fresh'
  <2>1. ASSUME NEW q \in Requests \ {r}, NEW u \in Users PROVE inbox'[<<q, u>>] = inbox[<<q, u>>]
    BY <1>1 DEF sent, Notes
  <2> QED
    BY <1>9, <2>1 DEF Inv, Fresh, FreshOf
<1>13. Timed'
  BY <1>1, <1>5 DEF Inv, Timed, NoteOf
<1> QED
  BY <1>8, <1>10, <1>11, <1>12, <1>13 DEF Inv

(***************************************************************************)
(* The inbox of an account.                                                *)
(***************************************************************************)

(* What a statement may make of the row of a notification.                 *)
Marked(new) ==
  /\ new \in Notification
  /\ (new.is_read <=> new.read_at # None)

LEMMA MarksAreTimed ==
  ASSUME NEW row \in Notification, NEW r \in Requests, row.is_read <=> row.read_at # None
  PROVE  /\ Marked(Read(row, r)) /\ Read(row, r).is_read
         /\ Marked(Unread(row))
         /\ \A important \in BOOLEAN :
              /\ Marked([row EXCEPT !.is_important = important])
              /\ [row EXCEPT !.is_important = important].is_read = row.is_read
BY InboxAssumption DEF Notification, Marked, Read, Unread, InboxAssumption

(* r marks rows and is done; its history and those of others may shrink by *)
(* what is due.                                                            *)
LEMMA Marks ==
  ASSUME Inv, NEW r \in Requests, at[r] # "published",
         at'[r] \in {"ok", "error"}, at' = [at EXCEPT ![r] = at'[r]],
         UNCHANGED <<active, ann>>, inbox' \in [Notes -> Notification \cup {None}],
         caller' \in [Requests -> Users \cup {None}],
         work' \in [Requests -> Locals], seen' \in [Requests -> Witness],
         \A q \in Requests \ {r} :
           /\ work'[q] = work[q]
           /\ seen'[q].texts = seen[q].texts /\ seen'[q].deleted = seen[q].deleted
           /\ seen'[q].ever = seen[q].ever /\ seen'[q].always = seen[q].always,
         \A n \in Notes : inbox'[n] # inbox[n] => inbox[n] # None /\ Marked(inbox'[n]),
         TypeOK' => Due'
  PROVE  Inv'
<1>1. TypeOK'
  <2>1. at \in [Requests -> {"idle", "updating", "publishing", "listed", "marking", "opened",
                             "published", "ok", "error"}]
    BY DEF Inv, TypeOK
  <2>2. at' \in [Requests -> {"idle", "updating", "publishing", "listed", "marking", "opened",
                              "published", "ok", "error"}]
    BY <2>1
  <2> QED
    BY <2>2 DEF Inv, TypeOK
<1>2. \A q \in Requests \ {r} : at'[q] = at[q]
  BY DEF Inv, TypeOK
<1>3. Flight'
  BY <1>2, FlightStands DEF Inv
<1>4. Fresh'
  <2>1. \A n \in Notes : inbox[n] = None => inbox'[n] = None
    OBVIOUS
  <2> QED
    BY <1>2, <2>1, FreshStands DEF Inv
<1>5. Timed'
  BY DEF Inv, Timed, NoteOf, Marked
<1> QED
  BY <1>1, <1>3, <1>4, <1>5 DEF Inv

(* Due stands when the marked rows stay read.                              *)
LEMMA ReadStaysDue ==
  ASSUME Inv, TypeOK', NEW r \in Requests, at'[r] # "marking",
         \A q \in Requests \ {r} : at'[q] = at[q] /\ work'[q] = work[q] /\ seen'[q].due = seen[q].due,
         \A n \in Notes : inbox'[n] # inbox[n] =>
           Marked(inbox'[n]) /\ (inbox[n].is_read => inbox'[n].is_read)
  PROVE  Due'
<1>1. \A n \in Notes : inbox'[n] # inbox[n] =>
        inbox'[n] # None /\ (inbox[n].is_read => inbox'[n].is_read)
  BY InboxAssumption DEF InboxAssumption, Marked
<1> QED
  BY <1>1, DueStands DEF Inv

LEMMA MarkEffect ==
  ASSUME Inv, NEW r \in Requests, NEW u \in Users, NEW n \in Notes, NEW row, Mark(r, u, n, row),
         Matches(n, u) => Marked(row)
  PROVE  /\ at[r] = "idle" /\ at'[r] = "ok" /\ at' = [at EXCEPT ![r] = at'[r]]
         /\ UNCHANGED <<active, ann, work>>
         /\ inbox' \in [Notes -> Notification \cup {None}]
         /\ caller' \in [Requests -> Users \cup {None}]
         /\ \A m \in Notes : inbox'[m] # inbox[m] =>
              m = n /\ Matches(n, u) /\ inbox[m] # None /\ inbox'[m] = row
                /\ Marked(inbox'[m])
BY DEF Mark, Goes, Matches, Marked, Inv, TypeOK

LEMMA RowIsTimed ==
  ASSUME Inv, NEW n \in Notes, inbox[n] # None
  PROVE  inbox[n] \in Notification /\ (inbox[n].is_read <=> inbox[n].read_at # None)
BY DEF Inv, TypeOK, Timed, NoteOf

LEMMA MarkReadInv ==
  ASSUME Inv, NEW r \in Requests, NEW u \in Users, NEW n \in Notes, MarkRead(r, u, n)
  PROVE  Inv'
<1>1. Mark(r, u, n, Read(inbox[n], r)) /\ seen' = seen
  BY DEF MarkRead
<1>2. Matches(n, u) => Marked(Read(inbox[n], r)) /\ Read(inbox[n], r).is_read
  BY RowIsTimed, MarksAreTimed DEF Matches
<1>3. /\ at[r] = "idle" /\ at'[r] = "ok" /\ at' = [at EXCEPT ![r] = at'[r]]
      /\ UNCHANGED <<active, ann, work>>
      /\ inbox' \in [Notes -> Notification \cup {None}]
      /\ caller' \in [Requests -> Users \cup {None}]
      /\ \A m \in Notes : inbox'[m] # inbox[m] =>
           m = n /\ Matches(n, u) /\ inbox[m] # None /\ inbox'[m] = Read(inbox[n], r)
             /\ Marked(inbox'[m])
  BY <1>1, <1>2, MarkEffect
<1>4. TypeOK' => Due'
  BY <1>1, <1>2, <1>3, ReadStaysDue DEF Inv, TypeOK
<1> QED
  BY <1>1, <1>3, <1>4, Marks DEF Inv, TypeOK

LEMMA SetImportantInv ==
  ASSUME Inv, NEW r \in Requests, NEW u \in Users, NEW n \in Notes, SetImportant(r, u, n)
  PROVE  Inv'
<1>1. PICK important \in BOOLEAN : Mark(r, u, n, [inbox[n] EXCEPT !.is_important = important])
  BY DEF SetImportant
<1> DEFINE row == [inbox[n] EXCEPT !.is_important = important]
<1>2. Matches(n, u) => Marked(row) /\ row.is_read = inbox[n].is_read
  BY RowIsTimed, MarksAreTimed DEF Matches
<1>3. seen' = seen /\ Mark(r, u, n, row)
  BY <1>1 DEF SetImportant
<1> HIDE DEF row
<1>4. /\ at[r] = "idle" /\ at'[r] = "ok" /\ at' = [at EXCEPT ![r] = at'[r]]
      /\ UNCHANGED <<active, ann, work>>
      /\ inbox' \in [Notes -> Notification \cup {None}]
      /\ caller' \in [Requests -> Users \cup {None}]
      /\ \A m \in Notes : inbox'[m] # inbox[m] =>
           m = n /\ Matches(n, u) /\ inbox[m] # None /\ inbox'[m] = row
             /\ Marked(inbox'[m])
  BY <1>2, <1>3, MarkEffect
<1>5. TypeOK' => Due'
  BY <1>2, <1>3, <1>4, ReadStaysDue DEF Inv, TypeOK
<1> QED
  BY <1>3, <1>4, <1>5, Marks DEF Inv, TypeOK

LEMMA MarkUnreadInv ==
  ASSUME Inv, NEW r \in Requests, NEW u \in Users, NEW n \in Notes, MarkUnread(r, u, n)
  PROVE  Inv'
<1>1. /\ Mark(r, u, n, Unread(inbox[n]))
      /\ seen' = [q \in Requests |-> [seen[q] EXCEPT !.due = @ \ {n}]]
  BY DEF MarkUnread
<1>2. Matches(n, u) => Marked(Unread(inbox[n]))
  BY RowIsTimed, MarksAreTimed DEF Matches
<1>3. /\ at[r] = "idle" /\ at'[r] = "ok" /\ at' = [at EXCEPT ![r] = at'[r]]
      /\ UNCHANGED <<active, ann, work>>
      /\ inbox' \in [Notes -> Notification \cup {None}]
      /\ caller' \in [Requests -> Users \cup {None}]
      /\ \A m \in Notes : inbox'[m] # inbox[m] =>
           m = n /\ Matches(n, u) /\ inbox[m] # None /\ inbox'[m] = Unread(inbox[n])
             /\ Marked(inbox'[m])
  BY <1>1, <1>2, MarkEffect
<1>4. seen' \in [Requests -> Witness]
  BY <1>1, WitnessStays DEF Inv, TypeOK
<1>5. ASSUME NEW q \in Requests
      PROVE  /\ seen'[q].texts = seen[q].texts /\ seen'[q].deleted = seen[q].deleted
             /\ seen'[q].ever = seen[q].ever /\ seen'[q].always = seen[q].always
             /\ seen'[q].due = seen[q].due \ {n}
  BY <1>1 DEF Inv, TypeOK, Witness
<1>6. Due'
  <2>1. ASSUME NEW q \in Requests, at'[q] = "marking", NEW m \in seen'[q].due
        PROVE  inbox'[m] # None /\ (inbox'[m].is_read \/ m \in work'[q].matched)
    <3>1. m \in seen[q].due /\ m # n /\ at[q] = "marking"
      BY <1>3, <1>5, <2>1 DEF Inv, TypeOK
    <3>2. m \in Notes
      BY <3>1 DEF Inv, TypeOK, Witness
    <3>3. inbox'[m] = inbox[m] /\ work'[q] = work[q]
      BY <1>3, <3>1, <3>2
    <3> QED
      BY <3>1, <3>3 DEF Inv, Due, DueOf
  <2>2. ASSUME NEW q \in Requests, at'[q] = "marking", NEW m \in work'[q].matched
        PROVE  inbox'[m] # None
    <3>1. m \in work[q].matched /\ at[q] = "marking"
      BY <1>3, <2>2 DEF Inv, TypeOK
    <3>2. m \in Notes /\ inbox[m] # None
      BY <3>1 DEF Inv, TypeOK, Locals, Due, SnapshotOf
    <3> QED
      BY <1>3, <3>2, InboxAssumption DEF Marked, InboxAssumption
  <2> QED
    BY <2>1, <2>2 DEF Due, DueOf, SnapshotOf
<1> QED
  BY <1>3, <1>4, <1>5, <1>6, Marks DEF Inv, TypeOK

LEMMA StartMarkAllInv ==
  ASSUME Inv, NEW r \in Requests, NEW u \in Users, StartMarkAll(r, u)
  PROVE  Inv'
<1> DEFINE all == {n \in Notes : Matches(n, u)}
<1>1. /\ at[r] = "idle" /\ at' = [at EXCEPT ![r] = "marking"]
      /\ caller' = [caller EXCEPT ![r] = u]
      /\ work' = [work EXCEPT ![r].matched = UnreadOf(u)]
      /\ seen' = [seen EXCEPT ![r].due = all]
      /\ UNCHANGED <<active, ann, inbox>>
  BY DEF StartMarkAll, Goes, rows
<1>2. UnreadOf(u) \subseteq Notes /\ all \subseteq Notes
  BY DEF UnreadOf
<1>3. work' \in [Requests -> Locals]
  <2>1. work \in [Requests -> Locals]
    BY DEF Inv, TypeOK
  <2>2. [work[r] EXCEPT !.matched = UnreadOf(u)] \in Locals
    BY <1>2, <2>1 DEF Locals
  <2> QED
    BY <1>1, <2>1, <2>2
<1>4. seen' \in [Requests -> Witness]
  <2>1. seen \in [Requests -> Witness]
    BY DEF Inv, TypeOK
  <2>2. [seen[r] EXCEPT !.due = all] \in Witness
    BY <1>2, <2>1 DEF Witness
  <2> QED
    BY <1>1, <2>1, <2>2
<1>5. TypeOK'
  BY <1>1, <1>3, <1>4 DEF Inv, TypeOK
<1>6. /\ at'[r] = "marking" /\ work'[r].matched = UnreadOf(u) /\ seen'[r].due = all
      /\ \A q \in Requests \ {r} : at'[q] = at[q] /\ work'[q] = work[q] /\ seen'[q] = seen[q]
  BY <1>1 DEF Inv, TypeOK, Locals, Witness
<1>7. Flight'
  BY <1>1, <1>6, FlightStands DEF Inv
<1>8. ASSUME NEW q \in Requests PROVE DueOf(q)' /\ SnapshotOf(q)'
  <2>1. CASE q = r
    BY <2>1, <1>1, <1>6 DEF DueOf, SnapshotOf, UnreadOf, Matches
  <2>2. CASE q # r
    BY <2>2, <1>1, <1>6 DEF Inv, Due, DueOf, SnapshotOf
  <2> QED
    BY <2>1, <2>2
<1>9. Fresh'
  BY <1>1, <1>6, FreshStands DEF Inv
<1>10. Timed'
  BY <1>1 DEF Inv, Timed, NoteOf
<1> QED
  BY <1>5, <1>7, <1>8, <1>9, <1>10 DEF Inv, Due

(* The request ends: its variables and its history are gone.               *)
LEMMA EndTypes ==
  ASSUME Inv, NEW r \in Requests
  PROVE  /\ [work EXCEPT ![r] = NoLocals] \in [Requests -> Locals]
         /\ [seen EXCEPT ![r] = NoWitness] \in [Requests -> Witness]
<1>1. NoLocals \in Locals /\ NoWitness \in Witness
  BY DEF NoLocals, Locals, NoWitness, Witness
<1> QED
  BY <1>1 DEF Inv, TypeOK

LEMMA FinishMarkAllInv ==
  ASSUME Inv, NEW r \in Requests, FinishMarkAll(r)
  PROVE  Inv'
<1>1. /\ at[r] = "marking" /\ at' = [at EXCEPT ![r] = "ok"]
      /\ work' = [work EXCEPT ![r] = NoLocals] /\ seen' = [seen EXCEPT ![r] = NoWitness]
      /\ inbox' = [n \in Notes |-> IF n \in work[r].matched THEN Read(inbox[n], r) ELSE inbox[n]]
      /\ UNCHANGED <<active, ann, caller>>
  BY DEF FinishMarkAll, Ends, Goes
<1>2. \A n \in work[r].matched : n \in Notes /\ inbox[n] # None
  BY <1>1 DEF Inv, TypeOK, Locals, Due, SnapshotOf
<1>3. ASSUME NEW n \in work[r].matched
      PROVE  Marked(Read(inbox[n], r)) /\ Read(inbox[n], r).is_read
  BY <1>2, RowIsTimed, MarksAreTimed
<1>4. \A n \in Notes : inbox'[n] # inbox[n] =>
        inbox[n] # None /\ Marked(inbox'[n]) /\ inbox'[n].is_read
  BY <1>1, <1>2, <1>3
<1>5. inbox' \in [Notes -> Notification \cup {None}]
  BY <1>1, <1>3 DEF Marked, Inv, TypeOK
<1>6. at'[r] = "ok" /\ \A q \in Requests \ {r} :
        at'[q] = at[q] /\ work'[q] = work[q] /\ seen'[q] = seen[q]
  BY <1>1 DEF Inv, TypeOK
<1>7. TypeOK' => Due'
  BY <1>4, <1>6, ReadStaysDue
<1> QED
  BY <1>1, <1>4, <1>5, <1>6, <1>7, EndTypes, Marks DEF Inv, TypeOK

LEMMA OpenDetailInv ==
  ASSUME Inv, NEW r \in Requests, NEW u \in Users, NEW n \in Notes, OpenDetail(r, u, n)
  PROVE  Inv'
<1>1. /\ at[r] = "idle" /\ at'[r] \in {"opened", "ok", "error"} /\ at' = [at EXCEPT ![r] = at'[r]]
      /\ caller' = [caller EXCEPT ![r] = u] /\ UNCHANGED <<active, ann, inbox, seen>>
      /\ work' = [work EXCEPT ![r].note = n] \/ work' = work
  BY DEF OpenDetail, Goes, rows, Inv, TypeOK
<1>2. work' \in [Requests -> Locals]
  <2>1. work \in [Requests -> Locals]
    BY DEF Inv, TypeOK
  <2>2. [work[r] EXCEPT !.note = n] \in Locals
    BY <2>1 DEF Locals
  <2> QED
    BY <1>1, <2>1, <2>2
<1>3. TypeOK'
  BY <1>1, <1>2 DEF Inv, TypeOK
<1>4. \A q \in Requests \ {r} : at'[q] = at[q] /\ work'[q] = work[q]
  BY <1>1 DEF Inv, TypeOK
<1>5. Flight'
  BY <1>1, <1>4, FlightStands DEF Inv
<1>6. Due' /\ Fresh' /\ Timed'
  BY <1>1, <1>3, <1>4, InboxStands
<1> QED
  BY <1>3, <1>5, <1>6 DEF Inv

(* Matches is false when the request opened no row.                        *)
LEMMA MarkOpenedInv ==
  ASSUME Inv, NEW r \in Requests, MarkOpened(r)
  PROVE  Inv'
<1> DEFINE n == work[r].note
<1>1. /\ at[r] = "opened" /\ at' = [at EXCEPT ![r] = "ok"]
      /\ work' = [work EXCEPT ![r] = NoLocals] /\ UNCHANGED <<active, ann, caller, seen>>
      /\ inbox' = IF Matches(n, caller[r]) THEN [inbox EXCEPT ![n] = Read(@, r)] ELSE inbox
  BY DEF MarkOpened, Ends, Goes
<1>2. ASSUME NEW m \in Notes, inbox'[m] # inbox[m]
      PROVE  inbox[m] # None /\ inbox'[m] = Read(inbox[m], r)
  BY <1>1, <1>2 DEF Matches, Inv, TypeOK
<1>3. \A m \in Notes : inbox'[m] # inbox[m] =>
        inbox[m] # None /\ Marked(inbox'[m]) /\ inbox'[m].is_read
  BY <1>2, RowIsTimed, MarksAreTimed
<1>4. inbox' \in [Notes -> Notification \cup {None}]
  <2>1. \A m \in Notes : inbox'[m] \in Notification \cup {None}
    BY <1>3 DEF Marked, Inv, TypeOK
  <2>2. CASE Matches(n, caller[r])
    <3>1. inbox' = [m \in Notes |-> IF m = n THEN Read(inbox[m], r) ELSE inbox[m]]
      BY <1>1, <2>2 DEF Inv, TypeOK
    <3> DEFINE row(m) == IF m = n THEN Read(inbox[m], r) ELSE inbox[m]
    <3>2. \A m \in Notes : row(m) \in Notification \cup {None}
      BY <2>1, <3>1
    <3> QED
      BY <3>1, <3>2
  <2>3. CASE ~Matches(n, caller[r])
    BY <1>1, <2>3 DEF Inv, TypeOK
  <2> QED
    BY <2>2, <2>3
<1>5. at'[r] = "ok" /\ \A q \in Requests \ {r} : at'[q] = at[q] /\ work'[q] = work[q]
  BY <1>1 DEF Inv, TypeOK
<1>6. TypeOK' => Due'
  BY <1>1, <1>3, <1>5, ReadStaysDue
<1> QED
  BY <1>1, <1>3, <1>4, <1>5, <1>6, EndTypes, Marks DEF Inv, TypeOK

LEMMA FailInv ==
  ASSUME Inv, NEW r \in Requests, Fail(r)
  PROVE  Inv'
<1>1. /\ at[r] # "published" /\ at'[r] \in {"ok", "error"} /\ at' = [at EXCEPT ![r] = at'[r]]
      /\ work' = [work EXCEPT ![r] = NoLocals] /\ seen' = [seen EXCEPT ![r] = NoWitness]
      /\ UNCHANGED <<active, ann, inbox, caller>>
  BY DEF Fail, Ends, Goes, rows, Inv, TypeOK
<1>2. \A q \in Requests \ {r} : at'[q] = at[q] /\ work'[q] = work[q] /\ seen'[q] = seen[q]
  BY <1>1 DEF Inv, TypeOK
<1>3. TypeOK' => Due'
  BY <1>1, <1>2, ReadStaysDue
<1> QED
  BY <1>1, <1>2, <1>3, EndTypes, Marks DEF Inv, TypeOK

(***************************************************************************)
(* The invariant and the theorems.                                         *)
(***************************************************************************)

LEMMA NextInv == Inv /\ [Next]_vars => Inv'
<1> SUFFICES ASSUME Inv, [Next]_vars PROVE Inv'
  OBVIOUS
<1>1. CASE UNCHANGED vars
  BY <1>1 DEF vars, Inv, TypeOK, Flight, FlightOf, InFlight, ToldOf, Entitled, Due, DueOf,
              SnapshotOf, Fresh, FreshOf, Timed, NoteOf
<1>2. ASSUME NEW a \in Announcements,
             DeleteAnnouncement(a) \/ \E t \in Texts : CreateAnnouncement(a, t)
      PROVE  Inv'
  BY <1>2, CreateAnnouncementInv, DeleteAnnouncementInv
<1>3. ASSUME NEW u \in Users, Lock(u) \/ Unlock(u) PROVE Inv'
  BY <1>3, LockInv, UnlockInv
<1>4. ASSUME NEW r \in Requests, Handle(r) PROVE Inv'
  <2>1. ASSUME NEW a \in Announcements, Load(r, a, "updating") \/ Load(r, a, "publishing")
        PROVE  Inv'
    BY <2>1, LoadInv
  <2>2. ASSUME NEW t \in Texts, SaveAnnouncement(r, t) PROVE Inv'
    BY <2>2, SaveAnnouncementInv
  <2>3. CASE ListAudience(r) \/ BulkCreate(r)
    BY <2>3, ListAudienceInv, BulkCreateInv
  <2>4. ASSUME NEW u \in Users, NEW n \in Notes,
               \/ MarkRead(r, u, n) \/ MarkUnread(r, u, n)
               \/ SetImportant(r, u, n) \/ OpenDetail(r, u, n)
        PROVE  Inv'
    BY <2>4, MarkReadInv, MarkUnreadInv, SetImportantInv, OpenDetailInv
  <2>5. ASSUME NEW u \in Users, StartMarkAll(r, u) PROVE Inv'
    BY <2>5, StartMarkAllInv
  <2>6. CASE FinishMarkAll(r) \/ MarkOpened(r) \/ Fail(r)
    BY <2>6, FinishMarkAllInv, MarkOpenedInv, FailInv
  <2> QED
    BY <1>4, <2>1, <2>2, <2>3, <2>4, <2>5, <2>6 DEF Handle
<1> QED
  BY <1>1, <1>2, <1>3, <1>4 DEF Next

LEMMA Invariance == Spec => []Inv
<1>1. Inv /\ [Next]_vars => Inv'
  BY NextInv
<1> QED
  BY <1>1, InitInv, PTL DEF Spec

(* Rows, requests and their histories have their types.                    *)
THEOREM TypeCorrect == Spec => []TypeOK
<1>1. Inv => TypeOK
  BY DEF Inv
<1> QED
  BY <1>1, Invariance, PTL

(* A row of a notification that is there changes by a mark only.           *)
LEMMA RowChanges ==
  ASSUME Inv, [Next]_vars, NEW n \in Notes, inbox[n] # None, inbox'[n] # inbox[n]
  PROVE  \/ \E r \in Requests : inbox'[n] = Read(inbox[n], r)
         \/ inbox'[n] = Unread(inbox[n])
         \/ \E b \in BOOLEAN : inbox'[n] = [inbox[n] EXCEPT !.is_important = b]
<1>1. ~UNCHANGED inbox
  OBVIOUS
<1>2. PICK r \in Requests : Handle(r)
  BY <1>1 DEF Next, vars, CreateAnnouncement, DeleteAnnouncement, Lock, Unlock
<1>3. ~BulkCreate(r)
  <2> SUFFICES ASSUME BulkCreate(r) PROVE FALSE
    OBVIOUS
  <2>1. n \in {r} \X work[r].picked
    BY DEF BulkCreate
  <2>2. at[r] = "listed" /\ n[1] = r /\ n[2] \in Users /\ n = <<r, n[2]>>
    BY <2>1 DEF BulkCreate, Notes
  <2> QED
    BY <2>2 DEF Inv, Fresh, FreshOf
<1>4. \A u \in Users, m \in Notes : \A row :
        Mark(r, u, m, row) => inbox'[n] = row /\ m = n
  BY DEF Mark, Inv, TypeOK
<1>5. ASSUME NEW u \in Users, NEW m \in Notes,
             MarkRead(r, u, m) \/ MarkUnread(r, u, m) \/ SetImportant(r, u, m)
      PROVE  \/ inbox'[n] = Read(inbox[n], r) \/ inbox'[n] = Unread(inbox[n])
             \/ \E b \in BOOLEAN : inbox'[n] = [inbox[n] EXCEPT !.is_important = b]
  BY <1>4, <1>5 DEF MarkRead, MarkUnread, SetImportant
<1>6. CASE FinishMarkAll(r)
  BY <1>6 DEF FinishMarkAll
<1>7. CASE MarkOpened(r)
  BY <1>7 DEF MarkOpened, Inv, TypeOK
<1> QED
  BY <1>1, <1>2, <1>3, <1>5, <1>6, <1>7
     DEF Handle, Load, SaveAnnouncement, ListAudience, OpenDetail, StartMarkAll, Fail, rows

(* Marks that overlap do not move read_at, and it goes with is_read.       *)
THEOREM ReadTimeTheorem == Spec => ReadTimeIsTheFirst
<1> DEFINE Body ==
      \A n \in Notes : inbox'[n] # None =>
        /\ inbox'[n].is_read <=> inbox'[n].read_at # None
        /\ inbox[n] # None /\ inbox[n].is_read /\ inbox'[n].is_read
             => inbox'[n].read_at = inbox[n].read_at
<1>1. Inv /\ [Next]_vars => Body
  <2> SUFFICES ASSUME Inv, [Next]_vars, NEW n \in Notes, inbox'[n] # None
               PROVE  /\ inbox'[n].is_read <=> inbox'[n].read_at # None
                      /\ inbox[n] # None /\ inbox[n].is_read /\ inbox'[n].is_read
                           => inbox'[n].read_at = inbox[n].read_at
    OBVIOUS
  <2>1. inbox'[n].is_read <=> inbox'[n].read_at # None
    BY NextInv DEF Inv, Timed, NoteOf
  <2>2. ASSUME inbox[n] # None, inbox[n].is_read, inbox'[n].is_read
        PROVE  inbox'[n].read_at = inbox[n].read_at
    <3>1. inbox[n] \in Notification
      BY <2>2, RowIsTimed
    <3>2. CASE inbox'[n] = inbox[n]
      BY <3>2
    <3>3. CASE inbox'[n] # inbox[n]
      BY <2>2, <3>1, <3>3, RowChanges DEF Read, Unread, Notification
    <3> QED
      BY <3>2, <3>3
  <2> QED
    BY <2>1, <2>2
<1>2. Spec => [][Body]_vars
  BY <1>1, Invariance, PTL DEF Spec
<1> QED
  BY <1>2 DEF ReadTimeIsTheFirst

(* When MarkAllRead succeeds, what was due is read.                        *)
THEOREM AllReadTheorem == Spec => AllReadMeansRead
<1> DEFINE Body ==
      \A r \in Requests : at[r] = "marking" /\ at'[r] = "ok"
        => \A n \in seen[r].due : inbox'[n].is_read
<1>1. Inv /\ [Next]_vars => Body
  <2> SUFFICES ASSUME Inv, [Next]_vars, NEW r \in Requests, at[r] = "marking", at'[r] = "ok",
                      NEW n \in seen[r].due
               PROVE  inbox'[n].is_read
    OBVIOUS
  <2>1. FinishMarkAll(r)
    <3>1. PICK q \in Requests : Handle(q)
      BY DEF Next, vars, CreateAnnouncement, DeleteAnnouncement, Lock, Unlock
    <3>2. q = r
      BY <3>1 DEF Handle, Load, SaveAnnouncement, ListAudience, BulkCreate, MarkRead, MarkUnread,
                  SetImportant, Mark, OpenDetail, StartMarkAll, FinishMarkAll, MarkOpened, Fail,
                  Ends, Goes, Inv, TypeOK
    <3> QED
      BY <3>1, <3>2 DEF Handle, Load, SaveAnnouncement, ListAudience, BulkCreate, MarkRead,
                  MarkUnread, SetImportant, Mark, OpenDetail, StartMarkAll, MarkOpened, Fail,
                  Ends, Goes, Inv, TypeOK
  <2>2. n \in Notes /\ inbox[n] # None /\ (inbox[n].is_read \/ n \in work[r].matched)
    BY DEF Inv, TypeOK, Witness, Due, DueOf
  <2>3. inbox'[n] = IF n \in work[r].matched THEN Read(inbox[n], r) ELSE inbox[n]
    BY <2>1, <2>2 DEF FinishMarkAll
  <2>4. Read(inbox[n], r).is_read
    BY <2>2, RowIsTimed, MarksAreTimed
  <2> QED
    BY <2>2, <2>3, <2>4
<1>2. Spec => [][Body]_vars
  BY <1>1, Invariance, PTL DEF Spec
<1> QED
  BY <1>2 DEF AllReadMeansRead

(* A notification appears by the one INSERT of the request that published. *)
LEMMA Inserted ==
  ASSUME Inv, [Next]_vars, NEW n \in Notes, inbox[n] = None, inbox'[n] # None
  PROVE  BulkCreate(n[1]) /\ Owner(n) \in work[n[1]].picked
<1>1. PICK r \in Requests : Handle(r)
  BY DEF Next, vars, CreateAnnouncement, DeleteAnnouncement, Lock, Unlock
<1>2. BulkCreate(r)
  <2>1. \A u \in Users, m \in Notes : \A row : ~Mark(r, u, m, row)
    BY DEF Mark, Matches, Inv, TypeOK
  <2>2. ~MarkOpened(r)
    BY DEF MarkOpened, Matches, Inv, TypeOK
  <2>3. ~FinishMarkAll(r)
    BY DEF FinishMarkAll, Inv, Due, SnapshotOf
  <2> QED
    BY <1>1, <2>1, <2>2, <2>3 DEF Handle, Load, SaveAnnouncement, ListAudience, OpenDetail,
       StartMarkAll, Fail, rows, MarkRead, MarkUnread, SetImportant
<1>3. n \in {r} \X work[r].picked
  BY <1>2 DEF BulkCreate
<1> QED
  BY <1>2, <1>3 DEF Owner, Notes

(* Who is sent a text was active meanwhile, and the text was current.      *)
THEOREM SentTheorem == Spec => SentWasCurrent
<1> DEFINE Body ==
      \A n \in Notes : inbox[n] = None /\ inbox'[n] # None =>
        inbox'[n].text \in seen[n[1]].texts /\ Owner(n) \in seen[n[1]].ever
<1>1. Inv /\ [Next]_vars => Body
  <2> SUFFICES ASSUME Inv, [Next]_vars, NEW n \in Notes, inbox[n] = None, inbox'[n] # None
               PROVE  inbox'[n].text \in seen[n[1]].texts /\ Owner(n) \in seen[n[1]].ever
    OBVIOUS
  <2>1. BulkCreate(n[1]) /\ Owner(n) \in work[n[1]].picked
    BY Inserted
  <2>2. n[1] \in Requests /\ n \in {n[1]} \X work[n[1]].picked
    BY <2>1 DEF Notes, Owner
  <2>3. inbox'[n].text = work[n[1]].row.text /\ at[n[1]] = "listed"
    BY <2>1, <2>2 DEF BulkCreate
  <2> QED
    BY <2>1, <2>2, <2>3 DEF Inv, Flight, FlightOf, ToldOf, InFlight
<1>2. Spec => [][Body]_vars
  BY <1>1, Invariance, PTL DEF Spec
<1> QED
  BY <1>2 DEF SentWasCurrent

(* Who was active all the time and cannot have missed the page is told.    *)
THEOREM ToldTheorem == Spec => ActiveAreTold
<1> DEFINE Body ==
      \A r \in Requests, u \in Users :
        /\ at[r] = "listed" /\ at'[r] = "published"
        /\ u \in seen[r].always
        /\ Cardinality({v \in seen[r].ever : v < u}) < PageMax
        => inbox'[<<r, u>>] # None
<1>1. Inv /\ [Next]_vars => Body
  <2> SUFFICES ASSUME Inv, [Next]_vars, NEW r \in Requests, NEW u \in Users,
                      at[r] = "listed", at'[r] = "published", u \in seen[r].always,
                      Cardinality({v \in seen[r].ever : v < u}) < PageMax
               PROVE  inbox'[<<r, u>>] # None
    OBVIOUS
  <2>1. BulkCreate(r)
    <3>1. PICK q \in Requests : Handle(q)
      BY DEF Next, vars, CreateAnnouncement, DeleteAnnouncement, Lock, Unlock
    <3>2. q = r
      BY <3>1 DEF Handle, Load, SaveAnnouncement, ListAudience, BulkCreate, MarkRead, MarkUnread,
                  SetImportant, Mark, OpenDetail, StartMarkAll, FinishMarkAll, MarkOpened, Fail,
                  Ends, Goes, Inv, TypeOK
    <3> QED
      BY <3>1, <3>2 DEF Handle, Load, SaveAnnouncement, ListAudience, MarkRead, MarkUnread,
                  SetImportant, Mark, OpenDetail, StartMarkAll, FinishMarkAll, MarkOpened, Fail,
                  Ends, Goes, Inv, TypeOK
  <2>2. u \in work[r].picked
    BY DEF Inv, Flight, ToldOf, Entitled
  <2>3. <<r, u>> \in Notes /\ <<r, u>> \in {r} \X work[r].picked
    BY <2>2 DEF Notes
  <2> DEFINE new == [text |-> work[r].row.text, is_read |-> FALSE, read_at |-> None,
                     is_important |-> FALSE]
  <2>4. inbox'[<<r, u>>] = new
    BY <2>1, <2>3 DEF BulkCreate
  <2>5. new \in Notification
    BY DEF Notification, Inv, Flight, FlightOf, InFlight, Announcement
  <2> QED
    BY <2>4, <2>5, InboxAssumption DEF InboxAssumption
<1>2. Spec => [][Body]_vars
  BY <1>1, Invariance, PTL DEF Spec
<1> QED
  BY <1>2 DEF ActiveAreTold

(* Only an update that read the announcement before its delete brings it   *)
(* back.                                                                   *)
THEOREM StaleUpdateTheorem == Spec => ReturnsByStaleUpdateOnly
<1> DEFINE Body ==
      \A a \in Announcements : ann[a] # None /\ ann[a].deleted /\ ~ann'[a].deleted =>
        \E r \in Requests :
          at[r] = "updating" /\ at'[r] = "ok" /\ work[r].about = a /\ seen[r].deleted
<1>1. Inv /\ [Next]_vars => Body
  <2> SUFFICES ASSUME Inv, [Next]_vars, NEW a \in Announcements,
                      ann[a] # None, ann[a].deleted, ~ann'[a].deleted
               PROVE  \E r \in Requests :
                        at[r] = "updating" /\ at'[r] = "ok" /\ work[r].about = a /\ seen[r].deleted
    OBVIOUS
  <2>1. ann'[a] # ann[a]
    OBVIOUS
  <2>2. \A b \in Announcements : ~DeleteAnnouncement(b)
    BY <2>1 DEF DeleteAnnouncement, IsLive, Inv, TypeOK
  <2>3. \A b \in Announcements, t \in Texts : ~CreateAnnouncement(b, t)
    BY <2>1 DEF CreateAnnouncement, Inv, TypeOK
  <2>4. PICK r \in Requests : Handle(r)
    BY <2>1, <2>2, <2>3 DEF Next, vars, Lock, Unlock
  <2>5. PICK t \in Texts : SaveAnnouncement(r, t)
    BY <2>1, <2>4 DEF Handle, Load, ListAudience, BulkCreate, MarkRead, MarkUnread, SetImportant,
       Mark, OpenDetail, StartMarkAll, FinishMarkAll, MarkOpened, Fail, rows
  <2>6. at[r] = "updating" /\ at'[r] = "ok" /\ work[r].about = a
    BY <2>1, <2>5 DEF SaveAnnouncement, Ends, Goes, Inv, TypeOK
  <2>7. seen[r].deleted
    BY <2>6 DEF Inv, Flight, FlightOf, InFlight
  <2> QED
    BY <2>6, <2>7
<1>2. Spec => [][Body]_vars
  BY <1>1, Invariance, PTL DEF Spec
<1> QED
  BY <1>2 DEF ReturnsByStaleUpdateOnly

(***************************************************************************)
(* Pages of the lists.                                                     *)
(*                                                                         *)
(* The theorems of Paging, for any rows, limits and sizes and any number   *)
(* of changes.                                                             *)
(*                                                                         *)
(* A row keeps its place from one change to the next unless another row    *)
(* enters or leaves ahead of it: a row that has not been overtaken and was *)
(* shown lies in the pages that were read, one that was not advanced and   *)
(* was not shown lies behind them (Walked).  The last of totalPages pages  *)
(* reaches as far as the total does, so nothing lies behind it.            *)
(***************************************************************************)

(* Where a row enters, the rows from there on move back by one.            *)
LEMMA RowInserted ==
  ASSUME NEW S, NEW s \in Seq(S), NEW e \in S, NEW i \in 1..Len(s) + 1
  PROVE  /\ InsertAt(s, i, e) \in Seq(S)
         /\ Len(InsertAt(s, i, e)) = Len(s) + 1
         /\ \A j \in 1..i - 1 : InsertAt(s, i, e)[j] = s[j]
         /\ InsertAt(s, i, e)[i] = e
         /\ \A j \in i..Len(s) : InsertAt(s, i, e)[j + 1] = s[j]
<1> DEFINE head == SubSeq(s, 1, i - 1)
           tail == SubSeq(s, i, Len(s))
           front == head \o <<e>>
<1>1. Len(s) \in Nat /\ i \in Nat /\ 1 <= i /\ i <= Len(s) + 1
  OBVIOUS
<1>2. \A j \in 1..Len(s) : s[j] \in S
  BY ElementOfSeq
<1>3. /\ head \in Seq(S) /\ Len(head) = i - 1
      /\ \A j \in 1..i - 1 : head[j] = s[j]
  <2>1. \A j \in 1..i - 1 : s[j] \in S
    BY <1>1, <1>2
  <2>2. i - 1 \in Int /\ 1 \in Int
    BY <1>1
  <2>3. /\ SubSeq(s, 1, i - 1) \in Seq(S)
        /\ Len(SubSeq(s, 1, i - 1)) = IF 1 <= i - 1 THEN (i - 1) - 1 + 1 ELSE 0
        /\ \A j \in 1..(i - 1) - 1 + 1 : SubSeq(s, 1, i - 1)[j] = s[1 + j - 1]
    BY <2>1, <2>2, SubSeqProperties
  <2> QED
    BY <1>1, <2>3
<1>4. /\ tail \in Seq(S) /\ Len(tail) = Len(s) - i + 1
      /\ \A j \in 1..Len(s) - i + 1 : tail[j] = s[i + j - 1]
  <2>1. \A j \in i..Len(s) : s[j] \in S
    BY <1>1, <1>2
  <2>2. i \in Int /\ Len(s) \in Int
    BY <1>1
  <2>3. /\ SubSeq(s, i, Len(s)) \in Seq(S)
        /\ Len(SubSeq(s, i, Len(s))) = IF i <= Len(s) THEN Len(s) - i + 1 ELSE 0
        /\ \A j \in 1..Len(s) - i + 1 : SubSeq(s, i, Len(s))[j] = s[i + j - 1]
    BY <2>1, <2>2, SubSeqProperties
  <2> QED
    BY <1>1, <2>3
<1> HIDE DEF head, tail
<1>5. /\ front \in Seq(S) /\ Len(front) = i
      /\ \A j \in 1..i - 1 : front[j] = s[j]
      /\ front[i] = e
  <2>1. <<e>> \in Seq(S) /\ Len(<<e>>) = 1 /\ <<e>>[1] = e
    OBVIOUS
  <2>2. /\ front \in Seq(S) /\ Len(front) = Len(head) + Len(<<e>>)
        /\ \A j \in 1..Len(head) + Len(<<e>>) :
             front[j] = IF j <= Len(head) THEN head[j] ELSE <<e>>[j - Len(head)]
    BY <1>3, <2>1, ConcatProperties
  <2> QED
    BY <1>1, <1>3, <2>1, <2>2
<1> HIDE DEF front
<1>6. /\ front \o tail \in Seq(S) /\ Len(front \o tail) = Len(front) + Len(tail)
      /\ \A j \in 1..Len(front) + Len(tail) :
           (front \o tail)[j] = IF j <= Len(front) THEN front[j] ELSE tail[j - Len(front)]
  BY <1>4, <1>5, ConcatProperties
<1>7. InsertAt(s, i, e) = front \o tail
  BY DEF InsertAt, front, head, tail
<1>8. front \o tail \in Seq(S) /\ Len(front \o tail) = Len(s) + 1
  BY <1>1, <1>4, <1>5, <1>6
<1>9. \A j \in 1..i : (front \o tail)[j] = front[j]
  BY <1>1, <1>4, <1>5, <1>6
<1>10. ASSUME NEW j \in i..Len(s)
       PROVE  (front \o tail)[j + 1] = s[j]
  <2>1. j + 1 \in 1..Len(front) + Len(tail) /\ ~(j + 1 <= Len(front))
    BY <1>1, <1>4, <1>5
  <2>2. (front \o tail)[j + 1] = tail[(j + 1) - i]
    BY <1>5, <1>6, <2>1
  <2>3. (j + 1) - i \in 1..Len(s) - i + 1 /\ i + ((j + 1) - i) - 1 = j
    BY <1>1
  <2>4. tail[(j + 1) - i] = s[i + ((j + 1) - i) - 1]
    BY <1>4, <2>3
  <2> QED
    BY <2>2, <2>3, <2>4
<1>11. (\A j \in 1..i - 1 : (front \o tail)[j] = s[j]) /\ (front \o tail)[i] = e
  BY <1>1, <1>5, <1>9
<1> QED
  BY <1>7, <1>8, <1>10, <1>11

(* Where a row leaves, the rows behind it move up by one.                  *)
LEMMA RowRemoved ==
  ASSUME NEW S, NEW s \in Seq(S), NEW i \in 1..Len(s)
  PROVE  /\ RemoveAt(s, i) \in Seq(S)
         /\ Len(RemoveAt(s, i)) = Len(s) - 1
         /\ \A j \in 1..Len(s) - 1 : RemoveAt(s, i)[j] = IF j < i THEN s[j] ELSE s[j + 1]
<1> DEFINE head == SubSeq(s, 1, i - 1)
           tail == SubSeq(s, i + 1, Len(s))
<1>1. Len(s) \in Nat /\ i \in Nat /\ 1 <= i /\ i <= Len(s)
  OBVIOUS
<1>2. \A j \in 1..Len(s) : s[j] \in S
  BY ElementOfSeq
<1>3. /\ head \in Seq(S) /\ Len(head) = i - 1
      /\ \A j \in 1..i - 1 : head[j] = s[j]
  <2>1. \A j \in 1..i - 1 : s[j] \in S
    BY <1>1, <1>2
  <2>2. i - 1 \in Int /\ 1 \in Int
    BY <1>1
  <2>3. /\ SubSeq(s, 1, i - 1) \in Seq(S)
        /\ Len(SubSeq(s, 1, i - 1)) = IF 1 <= i - 1 THEN (i - 1) - 1 + 1 ELSE 0
        /\ \A j \in 1..(i - 1) - 1 + 1 : SubSeq(s, 1, i - 1)[j] = s[1 + j - 1]
    BY <2>1, <2>2, SubSeqProperties
  <2> QED
    BY <1>1, <2>3
<1>4. /\ tail \in Seq(S) /\ Len(tail) = Len(s) - i
      /\ \A j \in 1..Len(s) - i : tail[j] = s[i + j]
  <2>1. \A j \in i + 1..Len(s) : s[j] \in S
    BY <1>1, <1>2
  <2>2. i + 1 \in Int /\ Len(s) \in Int
    BY <1>1
  <2>3. /\ SubSeq(s, i + 1, Len(s)) \in Seq(S)
        /\ Len(SubSeq(s, i + 1, Len(s))) = IF i + 1 <= Len(s) THEN Len(s) - (i + 1) + 1 ELSE 0
        /\ \A j \in 1..Len(s) - (i + 1) + 1 : SubSeq(s, i + 1, Len(s))[j] = s[(i + 1) + j - 1]
    BY <2>1, <2>2, SubSeqProperties
  <2> QED
    BY <1>1, <2>3
<1> HIDE DEF head, tail
<1>5. /\ head \o tail \in Seq(S) /\ Len(head \o tail) = Len(head) + Len(tail)
      /\ \A j \in 1..Len(head) + Len(tail) :
           (head \o tail)[j] = IF j <= Len(head) THEN head[j] ELSE tail[j - Len(head)]
  BY <1>3, <1>4, ConcatProperties
<1>6. RemoveAt(s, i) = head \o tail
  BY DEF RemoveAt, head, tail
<1>7. ASSUME NEW j \in 1..Len(s) - 1
      PROVE  (head \o tail)[j] = IF j < i THEN s[j] ELSE s[j + 1]
  <2>1. (head \o tail)[j] = IF j <= i - 1 THEN head[j] ELSE tail[j - (i - 1)]
    BY <1>1, <1>3, <1>4, <1>5
  <2>2. CASE j < i
    BY <1>1, <1>3, <2>1, <2>2
  <2>3. CASE ~(j < i)
    <3>1. j - (i - 1) \in 1..Len(s) - i /\ i + (j - (i - 1)) = j + 1 /\ ~(j <= i - 1)
      BY <1>1, <2>3
    <3> QED
      BY <1>4, <2>1, <2>3, <3>1
  <2> QED
    BY <2>2, <2>3
<1>8. head \o tail \in Seq(S) /\ Len(head \o tail) = Len(s) - 1
  BY <1>1, <1>3, <1>4, <1>5
<1> QED
  BY <1>6, <1>7, <1>8

(* What division rounds down to.                                           *)
LEMMA DivFacts ==
  ASSUME NEW a \in Nat, NEW b \in Nat \ {0}
  PROVE  /\ a \div b \in Nat
         /\ b * (a \div b) <= a
         /\ a < b * (a \div b) + b
OBVIOUS

(* What the constants are.                                                 *)
LEMMA PagingFacts ==
  /\ Cardinality(Rows) \in Nat
  /\ MaxChanges \in Nat /\ MaxSize \in Nat /\ MaxSize >= 1
  /\ \A limit \in Limits : /\ limit \in Nat /\ limit >= 1
                           /\ Size(limit) \in Nat /\ Size(limit) >= 1
                           /\ limit <= MaxSize => Size(limit) = limit
<1>1. IsFiniteSet(Rows) /\ Limits \subseteq Nat \ {0} /\ MaxSize \in Nat \ {0}
      /\ Oversize \in 1..MaxSize /\ MaxChanges \in Nat
  BY PagingAssumption DEF PagingAssumption
<1>2. Cardinality(Rows) \in Nat
  BY <1>1, FS_CardinalityType
<1>3. ASSUME NEW limit \in Limits
      PROVE  /\ limit \in Nat /\ limit >= 1
             /\ Size(limit) \in Nat /\ Size(limit) >= 1
             /\ limit <= MaxSize => Size(limit) = limit
  BY <1>1 DEF Size
<1> QED
  BY <1>1, <1>2, <1>3

(* A list without repetitions is no longer than there are rows.            *)
LEMMA ListLength ==
  ASSUME NEW s \in Seq(Rows), IsInjective(s)
  PROVE  Len(s) \in 0..Cardinality(Rows)
<1>1. Len(s) \in Nat /\ s \in [1..Len(s) -> Rows] /\ DOMAIN s = 1..Len(s)
  BY LenProperties
<1>2. s \in Injection(1..Len(s), Rows)
  BY <1>1 DEF Injection, IsInjective
<1>3. IsFiniteSet(Rows) /\ Cardinality(Rows) \in Nat
  BY PagingFacts, PagingAssumption DEF PagingAssumption
<1>4. Cardinality(1..Len(s)) <= Cardinality(Rows)
  BY <1>2, <1>3, FS_Injection
<1>5. Cardinality(1..Len(s)) = Len(s)
  <2>1. Cardinality(1..Len(s)) = IF 1 > Len(s) THEN 0 ELSE Len(s) - 1 + 1
    BY <1>1, FS_Interval
  <2>2. (1 > Len(s) => Len(s) = 0) /\ Len(s) - 1 + 1 = Len(s)
    BY <1>1
  <2> QED
    BY <2>1, <2>2
<1> QED
  BY <1>1, <1>3, <1>4, <1>5

(* The pages of a list: they hold all its rows, and there is no empty one. *)
LEMMA TotalPagesFacts ==
  ASSUME NEW total \in Nat, NEW limit \in Nat, limit >= 1
  PROVE  /\ TotalPages(total, limit) \in Nat
         /\ TotalPages(total, limit) <= total
         /\ total <= TotalPages(total, limit) * limit
<1> DEFINE n == total + limit - 1
           q == n \div limit
<1>1. n \in Nat /\ limit \in Nat \ {0}
  OBVIOUS
<1>2. q \in Nat /\ limit * q <= n /\ n < limit * q + limit
  BY <1>1, DivFacts
<1>3. total <= q * limit
  <2>1. q * limit = limit * q /\ q * limit \in Nat
    BY <1>1, <1>2
  <2> HIDE DEF q
  <2> QED
    BY <1>1, <1>2, <2>1
<1>4. q <= total
  <2> HIDE DEF q
  <2>1. ASSUME q > total PROVE FALSE
    <3>1. q - 1 \in Nat /\ q - 1 >= total
      BY <1>2, <2>1
    <3>2. \A x, y \in Nat : y >= 1 => x * y >= x
      OBVIOUS
    <3>3. (q - 1) * limit >= q - 1
      BY <1>1, <3>1, <3>2
    <3>4. limit * q = (q - 1) * limit + limit /\ (q - 1) * limit \in Nat
      BY <1>1, <1>2, <3>1
    <3> QED
      BY <1>1, <1>2, <3>1, <3>3, <3>4
  <2> QED
    BY <1>2, <2>1
<1>5. TotalPages(total, limit) = q
  BY DEF TotalPages
<1> QED
  BY <1>2, <1>3, <1>4, <1>5

(* A page begins where the one before it ends.                             *)
LEMMA OffsetFacts ==
  ASSUME NEW page \in Nat, page >= 1, NEW size \in Nat
  PROVE  /\ Offset(page, size) \in Nat
         /\ Offset(page + 1, size) = Offset(page, size) + size
         /\ Offset(page + 1, size) = page * size
         /\ Offset(1, size) = 0
BY DEF Offset

(* A walk that has begun has a limit and a page.                           *)
WalkShape ==
  /\ walk.at \in {"asking", "counted"} => walk.limit \in Limits /\ walk.page >= 1
  /\ walk.at = "idle" => \A r \in Rows : shown[r] = 0

(* The rows that were in the list all the time: which were shown, and what *)
(* the total counts.                                                       *)
Walked ==
  walk.at \in {"asking", "counted"} =>
    \A i \in 1..Len(list) : list[i] \in stays =>
      /\ list[i] \notin overtaken => shown[list[i]] <= 1
      /\ list[i] \notin overtaken /\ shown[list[i]] = 1 =>
           i <= Offset(walk.page, Size(walk.limit))
      /\ list[i] \notin advanced /\ shown[list[i]] = 0 =>
           i > Offset(walk.page, Size(walk.limit))
      /\ walk.at = "counted" /\ list[i] \notin raced => i <= walk.total

(* The inductive invariant.                                                *)
PagesInv == PagesTypeOK /\ WalkShape /\ Walked /\ ShownOnce

(* The list as a function of places.                                       *)
LEMMA Listed ==
  ASSUME PagesTypeOK
  PROVE  /\ list \in Seq(Rows) /\ Len(list) \in Nat /\ DOMAIN list = 1..Len(list)
         /\ \A i \in 1..Len(list) : list[i] \in Rows
         /\ \A i, j \in 1..Len(list) : list[i] = list[j] => i = j
         /\ \A r : r \in Present <=> \E i \in 1..Len(list) : list[i] = r
         /\ Len(list) \in 0..Cardinality(Rows)
<1>1. list \in Seq(Rows) /\ IsInjective(list)
  BY DEF PagesTypeOK
<1>2. Len(list) \in Nat /\ DOMAIN list = 1..Len(list)
  BY <1>1, LenProperties
<1>3. \A i \in 1..Len(list) : list[i] \in Rows
  BY <1>1, ElementOfSeq
<1>4. \A i, j \in 1..Len(list) : list[i] = list[j] => i = j
  BY <1>1, <1>2 DEF IsInjective
<1>5. \A r : r \in Present <=> \E i \in 1..Len(list) : list[i] = r
  BY <1>2 DEF Present, Range
<1>6. Len(list) \in 0..Cardinality(Rows)
  BY <1>1, ListLength
<1> QED
  BY <1>1, <1>2, <1>3, <1>4, <1>5, <1>6

(* The fields of the walk.                                                 *)
LEMMA WalkTyped ==
  ASSUME PagesTypeOK
  PROVE  /\ walk.at \in {"idle", "asking", "counted", "done"}
         /\ walk.limit \in Limits \cup {0}
         /\ walk.page \in 0..Cardinality(Rows) \cup {1}
         /\ walk.total \in 0..Cardinality(Rows)
         /\ walk = [at |-> walk.at, limit |-> walk.limit, page |-> walk.page, total |-> walk.total]
BY DEF PagesTypeOK

(* A row enters: every other row keeps its place or moves back by one, and *)
(* those that move are overtaken.                                          *)
LEMMA EnterStep ==
  ASSUME PagesInv, NEW e \in Rows, Enter(e)
  PROVE  PagesInv'
<1>0. PagesTypeOK /\ WalkShape /\ Walked /\ ShownOnce
  BY DEF PagesInv
<1>1. PICK i \in 1..Len(list) + 1 :
        /\ list' = InsertAt(list, i, e)
        /\ overtaken' = overtaken \cup Behind(i)
        /\ raced' = IF walk.at = "counted" THEN raced \cup Behind(i) ELSE raced
  BY DEF Enter
<1>2. /\ e \notin Present /\ walk.at \in {"asking", "counted"}
      /\ changes < MaxChanges /\ changes' = changes + 1
      /\ UNCHANGED <<walk, shown, stays, advanced>>
  BY DEF Enter, Change
<1>3. /\ list \in Seq(Rows) /\ Len(list) \in Nat
      /\ \A j \in 1..Len(list) : list[j] \in Rows
      /\ \A j, k \in 1..Len(list) : list[j] = list[k] => j = k
      /\ \A r : r \in Present <=> \E j \in 1..Len(list) : list[j] = r
  BY <1>0, Listed
<1>4. /\ list' \in Seq(Rows) /\ Len(list') = Len(list) + 1
      /\ \A j \in 1..i - 1 : list'[j] = list[j]
      /\ list'[i] = e
      /\ \A j \in i..Len(list) : list'[j + 1] = list[j]
  <2>1. list \in Seq(Rows) /\ e \in Rows /\ i \in 1..Len(list) + 1
    BY <1>1, <1>3
  <2>2. InsertAt(list, i, e) \in Seq(Rows) /\ Len(InsertAt(list, i, e)) = Len(list) + 1
    BY <2>1, RowInserted
  <2>3. \A j \in 1..i - 1 : InsertAt(list, i, e)[j] = list[j]
    BY <2>1, RowInserted
  <2>4. InsertAt(list, i, e)[i] = e
    BY <2>1, RowInserted
  <2>5. \A j \in i..Len(list) : InsertAt(list, i, e)[j + 1] = list[j]
    BY <2>1, RowInserted
  <2>6. list' = InsertAt(list, i, e)
    BY <1>1
  <2> QED
    BY <2>2, <2>3, <2>4, <2>5, <2>6
<1>5. \A j \in 1..Len(list) : list[j] # e
  BY <1>2, <1>3
<1>6. DOMAIN list' = 1..Len(list')
  BY <1>4, LenProperties
<1>7. ASSUME NEW j \in 1..Len(list'), list'[j] # e
      PROVE  \/ j < i /\ j \in 1..Len(list) /\ list'[j] = list[j]
             \/ /\ j > i /\ j - 1 \in 1..Len(list) /\ list'[j] = list[j - 1]
                /\ list[j - 1] \in Behind(i)
  <2>1. CASE j < i
    BY <1>1, <1>3, <1>4, <2>1
  <2>2. CASE j > i
    <3>1. j - 1 \in i..Len(list) /\ j - 1 \in 1..Len(list) /\ (j - 1) + 1 = j
      BY <1>1, <1>3, <1>4, <2>2
    <3>2. list'[j] = list[j - 1]
      BY <1>4, <3>1
    <3> QED
      BY <2>2, <3>1, <3>2 DEF Behind
  <2>3. CASE j = i
    BY <1>3, <1>4, <1>7, <2>3
  <2> QED
    BY <1>1, <1>3, <1>4, <2>1, <2>2, <2>3
<1>8. IsInjective(list')
  <2> SUFFICES ASSUME NEW j \in 1..Len(list'), NEW k \in 1..Len(list'), list'[j] = list'[k]
               PROVE  j = k
    BY <1>6 DEF IsInjective
  <2>1. CASE list'[j] = e
    <3>1. ASSUME NEW m \in 1..Len(list'), list'[m] = e
          PROVE  m = i
      <4>1. CASE m < i
        BY <1>1, <1>3, <1>4, <1>5, <3>1, <4>1
      <4>2. CASE m > i
        <5>1. m - 1 \in i..Len(list) /\ m - 1 \in 1..Len(list) /\ (m - 1) + 1 = m
          BY <1>1, <1>3, <1>4, <4>2
        <5>2. list'[m] = list[m - 1]
          BY <1>4, <5>1
        <5> QED
          BY <1>5, <3>1, <5>1, <5>2
      <4> QED
        BY <1>1, <1>4, <4>1, <4>2
    <3> QED
      BY <2>1, <3>1
  <2>2. CASE list'[j] # e
    <3>1. PICK m \in 1..Len(list) : list'[j] = list[m] /\ ((j < i /\ m = j) \/ (j > i /\ m = j - 1))
      BY <1>7, <2>2
    <3>2. PICK n \in 1..Len(list) : list'[k] = list[n] /\ ((k < i /\ n = k) \/ (k > i /\ n = k - 1))
      BY <1>7, <2>2
    <3>3. m = n
      BY <1>3, <3>1, <3>2
    <3> QED
      BY <1>1, <1>3, <3>1, <3>2, <3>3
  <2> QED
    BY <2>1, <2>2
<1>9. \A r \in Present : r \in Rows /\ \E j \in 1..Len(list') : list'[j] = r
  <2> SUFFICES ASSUME NEW k \in 1..Len(list)
               PROVE  \E j \in 1..Len(list') : list'[j] = list[k]
    BY <1>3
  <2>1. CASE k < i
    BY <1>3, <1>4, <2>1
  <2>2. CASE ~(k < i)
    <3>1. k \in i..Len(list) /\ k + 1 \in 1..Len(list')
      BY <1>1, <1>3, <1>4, <2>2
    <3>2. list'[k + 1] = list[k]
      BY <1>4, <3>1
    <3> QED
      BY <3>1, <3>2
  <2> QED
    BY <2>1, <2>2
<1>10. PagesTypeOK'
  <2>1. changes' \in 0..MaxChanges
    BY <1>0, <1>2, PagingFacts DEF PagesTypeOK
  <2>2. stays' \subseteq Present'
    <3>1. Present' = {list'[j] : j \in 1..Len(list')}
      BY <1>6 DEF Present, Range
    <3>2. stays' = stays /\ stays \subseteq Present
      BY <1>0, <1>2 DEF PagesTypeOK
    <3> QED
      BY <1>9, <3>1, <3>2
  <2>3. Behind(i) \subseteq Rows
    BY <1>1, <1>3 DEF Behind
  <2>4. raced' \subseteq overtaken' /\ overtaken' \subseteq Rows
    BY <1>0, <1>1, <2>3 DEF PagesTypeOK
  <2>5. walk' = walk /\ shown' = shown /\ advanced' = advanced
    BY <1>2
  <2> QED
    BY <1>0, <1>4, <1>8, <2>1, <2>2, <2>4, <2>5 DEF PagesTypeOK
<1>11. WalkShape'
  BY <1>0, <1>2 DEF WalkShape
<1>12. Walked'
  <2> SUFFICES ASSUME NEW j \in 1..Len(list'), list'[j] \in stays
               PROVE  /\ list'[j] \notin overtaken' => shown[list'[j]] <= 1
                      /\ list'[j] \notin overtaken' /\ shown[list'[j]] = 1 =>
                           j <= Offset(walk.page, Size(walk.limit))
                      /\ list'[j] \notin advanced /\ shown[list'[j]] = 0 =>
                           j > Offset(walk.page, Size(walk.limit))
                      /\ walk.at = "counted" /\ list'[j] \notin raced' => j <= walk.total
    BY <1>2 DEF Walked, Offset, Size
  <2>1. list'[j] # e
    BY <1>0, <1>2 DEF PagesTypeOK
  <2>2. CASE j < i /\ j \in 1..Len(list) /\ list'[j] = list[j]
    BY <1>0, <1>1, <1>2, <2>2 DEF Walked
  <2>3. CASE /\ j > i /\ j - 1 \in 1..Len(list) /\ list'[j] = list[j - 1]
             /\ list[j - 1] \in Behind(i)
    <3>1. list'[j] \in overtaken' /\ (walk.at = "counted" => list'[j] \in raced')
      BY <1>1, <2>3
    <3>2. list'[j] \notin advanced /\ shown[list'[j]] = 0 =>
            j - 1 > Offset(walk.page, Size(walk.limit))
      BY <1>0, <1>2, <2>3 DEF Walked
    <3>3. Offset(walk.page, Size(walk.limit)) \in Nat
      <4>1. walk.page \in Nat /\ walk.page >= 1 /\ Size(walk.limit) \in Nat
        <5>1. walk.limit \in Limits /\ walk.page >= 1
          BY <1>0, <1>2 DEF WalkShape
        <5> QED
          BY <1>0, <5>1, PagingFacts, WalkTyped
      <4> QED
        BY <4>1, OffsetFacts
    <3>4. j > Offset(walk.page, Size(walk.limit)) \/ ~(list'[j] \notin advanced /\ shown[list'[j]] = 0)
      BY <1>3, <2>3, <3>2, <3>3
    <3> QED
      BY <3>1, <3>4
  <2> QED
    BY <1>7, <2>1, <2>2, <2>3
<1>13. ShownOnce'
  <2>1. walk' = walk /\ shown' = shown /\ stays' = stays /\ overtaken \subseteq overtaken'
        /\ walk.at # "done"
    BY <1>1, <1>2
  <2> QED
    BY <1>0, <2>1 DEF ShownOnce
<1> QED
  BY <1>10, <1>11, <1>12, <1>13 DEF PagesInv

(* A row leaves: every other row keeps its place or moves up by one, and   *)
(* those that move are advanced.                                           *)
LEMMA LeaveStep ==
  ASSUME PagesInv, NEW e \in Rows, Leave(e)
  PROVE  PagesInv'
<1>0. PagesTypeOK /\ WalkShape /\ Walked /\ ShownOnce
  BY DEF PagesInv
<1>1. PICK i \in 1..Len(list) :
        /\ list[i] = e
        /\ list' = RemoveAt(list, i)
        /\ advanced' = advanced \cup (Behind(i) \ {e})
  BY DEF Leave
<1>2. /\ walk.at \in {"asking", "counted"}
      /\ changes < MaxChanges /\ changes' = changes + 1
      /\ stays' = stays \ {e}
      /\ UNCHANGED <<walk, shown, overtaken, raced>>
  BY DEF Leave, Change
<1>3. /\ list \in Seq(Rows) /\ Len(list) \in Nat
      /\ \A j \in 1..Len(list) : list[j] \in Rows
      /\ \A j, k \in 1..Len(list) : list[j] = list[k] => j = k
      /\ \A r : r \in Present <=> \E j \in 1..Len(list) : list[j] = r
  BY <1>0, Listed
<1>4. /\ list' \in Seq(Rows) /\ Len(list') = Len(list) - 1
      /\ \A j \in 1..Len(list) - 1 : list'[j] = IF j < i THEN list[j] ELSE list[j + 1]
  <2>1. list \in Seq(Rows) /\ i \in 1..Len(list)
    BY <1>1, <1>3
  <2>2. RemoveAt(list, i) \in Seq(Rows)
    BY <2>1, RowRemoved
  <2>3. Len(RemoveAt(list, i)) = Len(list) - 1
    BY <2>1, RowRemoved
  <2>4. \A j \in 1..Len(list) - 1 :
          RemoveAt(list, i)[j] = IF j < i THEN list[j] ELSE list[j + 1]
    BY <2>1, RowRemoved
  <2>5. list' = RemoveAt(list, i)
    BY <1>1
  <2> QED
    BY <2>2, <2>3, <2>4, <2>5
<1>5. DOMAIN list' = 1..Len(list')
  BY <1>4, LenProperties
<1>6. ASSUME NEW j \in 1..Len(list')
      PROVE  \/ j < i /\ j \in 1..Len(list) /\ list'[j] = list[j]
             \/ /\ j >= i /\ j + 1 \in 1..Len(list) /\ list'[j] = list[j + 1]
                /\ list[j + 1] \in Behind(i) \ {e}
  <2>1. CASE j < i
    BY <1>1, <1>3, <1>4, <2>1
  <2>2. CASE j >= i
    <3>1. j + 1 \in i..Len(list) /\ j + 1 \in 1..Len(list) /\ list'[j] = list[j + 1]
      BY <1>1, <1>3, <1>4, <2>2
    <3>2. list[j + 1] # e
      BY <1>1, <1>3, <2>2, <3>1
    <3> QED
      BY <2>2, <3>1, <3>2 DEF Behind
  <2> QED
    BY <1>1, <1>3, <1>4, <2>1, <2>2
<1>7. IsInjective(list')
  <2> SUFFICES ASSUME NEW j \in 1..Len(list'), NEW k \in 1..Len(list'), list'[j] = list'[k]
               PROVE  j = k
    BY <1>5 DEF IsInjective
  <2>1. PICK m \in 1..Len(list) : list'[j] = list[m] /\ ((j < i /\ m = j) \/ (j >= i /\ m = j + 1))
    BY <1>6
  <2>2. PICK n \in 1..Len(list) : list'[k] = list[n] /\ ((k < i /\ n = k) \/ (k >= i /\ n = k + 1))
    BY <1>6
  <2>3. m = n
    BY <1>3, <2>1, <2>2
  <2> QED
    BY <1>1, <1>3, <1>4, <2>1, <2>2, <2>3
<1>8. \A r \in Present \ {e} : \E j \in 1..Len(list') : list'[j] = r
  <2> SUFFICES ASSUME NEW k \in 1..Len(list), list[k] # e
               PROVE  \E j \in 1..Len(list') : list'[j] = list[k]
    BY <1>3
  <2>1. CASE k < i
    <3>1. k \in 1..Len(list') /\ list'[k] = list[k]
      BY <1>1, <1>3, <1>4, <2>1
    <3> QED
      BY <3>1
  <2>2. CASE k > i
    <3>1. k - 1 \in 1..Len(list') /\ list'[k - 1] = list[k]
      BY <1>1, <1>3, <1>4, <2>2
    <3> QED
      BY <3>1
  <2>3. k # i
    BY <1>1
  <2> QED
    BY <1>1, <1>3, <2>1, <2>2, <2>3
<1>9. PagesTypeOK'
  <2>1. changes' \in 0..MaxChanges
    BY <1>0, <1>2, PagingFacts DEF PagesTypeOK
  <2>2. stays' \subseteq Present'
    <3>1. Present' = {list'[j] : j \in 1..Len(list')}
      BY <1>5 DEF Present, Range
    <3>2. stays' = stays \ {e} /\ stays \subseteq Present
      BY <1>0, <1>2 DEF PagesTypeOK
    <3> QED
      BY <1>8, <3>1, <3>2
  <2>3. Behind(i) \subseteq Rows
    BY <1>1, <1>3 DEF Behind
  <2>4. advanced' \subseteq Rows
    BY <1>0, <1>1, <2>3 DEF PagesTypeOK
  <2>5. walk' = walk /\ shown' = shown /\ overtaken' = overtaken /\ raced' = raced
    BY <1>2
  <2> QED
    BY <1>0, <1>4, <1>7, <2>1, <2>2, <2>4, <2>5 DEF PagesTypeOK
<1>10. WalkShape'
  BY <1>0, <1>2 DEF WalkShape
<1>11. Walked'
  <2> SUFFICES ASSUME NEW j \in 1..Len(list'), list'[j] \in stays'
               PROVE  /\ list'[j] \notin overtaken => shown[list'[j]] <= 1
                      /\ list'[j] \notin overtaken /\ shown[list'[j]] = 1 =>
                           j <= Offset(walk.page, Size(walk.limit))
                      /\ list'[j] \notin advanced' /\ shown[list'[j]] = 0 =>
                           j > Offset(walk.page, Size(walk.limit))
                      /\ walk.at = "counted" /\ list'[j] \notin raced => j <= walk.total
    BY <1>2 DEF Walked, Offset, Size
  <2>1. list'[j] \in stays
    BY <1>2
  <2>2. CASE j < i /\ j \in 1..Len(list) /\ list'[j] = list[j]
    BY <1>0, <1>1, <1>2, <2>1, <2>2 DEF Walked
  <2>3. CASE /\ j >= i /\ j + 1 \in 1..Len(list) /\ list'[j] = list[j + 1]
             /\ list[j + 1] \in Behind(i) \ {e}
    <3>1. list'[j] \in advanced'
      BY <1>1, <2>3
    <3>2. /\ list'[j] \notin overtaken => shown[list'[j]] <= 1
          /\ list'[j] \notin overtaken /\ shown[list'[j]] = 1 =>
               j + 1 <= Offset(walk.page, Size(walk.limit))
          /\ walk.at = "counted" /\ list'[j] \notin raced => j + 1 <= walk.total
      BY <1>0, <1>2, <2>1, <2>3 DEF Walked
    <3>3. Offset(walk.page, Size(walk.limit)) \in Nat /\ walk.total \in Nat
      <4>1. walk.page \in Nat /\ walk.page >= 1 /\ Size(walk.limit) \in Nat /\ walk.total \in Nat
        <5>1. walk.limit \in Limits /\ walk.page >= 1
          BY <1>0, <1>2 DEF WalkShape
        <5> QED
          BY <1>0, <5>1, PagingFacts, WalkTyped
      <4> QED
        BY <4>1, OffsetFacts
    <3>4. j \in Nat
      BY <1>1, <2>3
    <3> QED
      BY <3>1, <3>2, <3>3, <3>4
  <2> QED
    BY <1>6, <2>2, <2>3
<1>12. ShownOnce'
  <2>1. walk' = walk /\ shown' = shown /\ stays' \subseteq stays /\ overtaken' = overtaken
        /\ walk.at # "done"
    BY <1>1, <1>2
  <2> QED
    BY <1>0, <2>1 DEF ShownOnce
<1> QED
  BY <1>9, <1>10, <1>11, <1>12 DEF PagesInv

(* Nothing was shown yet, and nothing lies ahead of the first page.        *)
LEMMA BeginStep ==
  ASSUME PagesInv, NEW limit \in Limits, Begin(limit)
  PROVE  PagesInv'
<1>0. PagesTypeOK /\ WalkShape /\ Walked /\ ShownOnce
  BY DEF PagesInv
<1>1. /\ walk.at = "idle"
      /\ walk' = [at |-> "asking", limit |-> limit, page |-> 1, total |-> 0]
      /\ stays' = Present
      /\ UNCHANGED <<list, changes, shown, advanced, overtaken, raced>>
  BY DEF Begin
<1>2. walk'.at = "asking" /\ walk'.limit = limit /\ walk'.page = 1 /\ walk'.total = 0
  BY <1>1
<1>3. /\ Len(list) \in Nat
      /\ \A i \in 1..Len(list) : list[i] \in Rows
      /\ \A r : r \in Present <=> \E i \in 1..Len(list) : list[i] = r
  BY <1>0, Listed
<1>4. \A r \in Rows : shown[r] = 0
  BY <1>0, <1>1 DEF WalkShape
<1>5. Cardinality(Rows) \in Nat /\ limit \in Nat /\ limit >= 1 /\ Size(limit) \in Nat
  BY PagingFacts
<1>6. PagesTypeOK'
  <2>1. walk' \in [at    : {"idle", "asking", "counted", "done"},
                   limit : Limits \cup {0},
                   page  : 0..Cardinality(Rows) \cup {1},
                   total : 0..Cardinality(Rows)]
    BY <1>1, <1>5
  <2>2. Present' = Present
    BY <1>1 DEF Present
  <2> QED
    BY <1>0, <1>1, <2>1, <2>2 DEF PagesTypeOK
<1>7. WalkShape'
  BY <1>2 DEF WalkShape
<1>8. Walked'
  <2>1. Offset(1, Size(limit)) = 0
    BY <1>5, OffsetFacts
  <2>2. Offset(walk'.page, Size(walk'.limit)) = 0
    BY <1>2, <2>1
  <2> SUFFICES ASSUME NEW i \in 1..Len(list)
               PROVE  shown[list[i]] = 0 /\ i > 0
    BY <1>1, <1>2, <2>2 DEF Walked
  <2> QED
    BY <1>3, <1>4
<1>9. ShownOnce'
  BY <1>1, <1>2, <1>3, <1>4 DEF ShownOnce
<1> QED
  BY <1>6, <1>7, <1>8, <1>9 DEF PagesInv

(* Every row of the list is counted.                                       *)
LEMMA CountStep ==
  ASSUME PagesInv, CountRows
  PROVE  PagesInv'
<1>0. PagesTypeOK /\ WalkShape /\ Walked /\ ShownOnce
  BY DEF PagesInv
<1>1. /\ walk.at = "asking"
      /\ walk' = [walk EXCEPT !.at = "counted", !.total = Len(list)]
      /\ raced' = {}
      /\ UNCHANGED <<list, changes, shown, stays, advanced, overtaken>>
  BY DEF CountRows
<1>2. /\ walk' = [at |-> "counted", limit |-> walk.limit, page |-> walk.page, total |-> Len(list)]
      /\ walk.limit \in Limits \cup {0} /\ walk.page \in 0..Cardinality(Rows) \cup {1}
  BY <1>0, <1>1, WalkTyped
<1>3. walk'.at = "counted" /\ walk'.limit = walk.limit /\ walk'.page = walk.page /\ walk'.total = Len(list)
  BY <1>2
<1>4. Len(list) \in 0..Cardinality(Rows) /\ Len(list) \in Nat
  BY <1>0, Listed
<1>5. PagesTypeOK'
  <2>1. walk' \in [at    : {"idle", "asking", "counted", "done"},
                   limit : Limits \cup {0},
                   page  : 0..Cardinality(Rows) \cup {1},
                   total : 0..Cardinality(Rows)]
    BY <1>2, <1>4
  <2>2. Present' = Present
    BY <1>1 DEF Present
  <2> QED
    BY <1>0, <1>1, <2>1, <2>2 DEF PagesTypeOK
<1>6. WalkShape'
  BY <1>0, <1>1, <1>3 DEF WalkShape
<1>7. Walked'
  BY <1>0, <1>1, <1>3, <1>4 DEF Walked
<1>8. ShownOnce'
  BY <1>0, <1>1, <1>3 DEF ShownOnce
<1> QED
  BY <1>5, <1>6, <1>7, <1>8 DEF PagesInv

(* The page that failed is asked for again: it was not shown.              *)
LEMMA AskAgainStep ==
  ASSUME PagesInv, AskAgain
  PROVE  PagesInv'
<1>0. PagesTypeOK /\ WalkShape /\ Walked /\ ShownOnce
  BY DEF PagesInv
<1>1. /\ walk.at = "counted"
      /\ walk' = [walk EXCEPT !.at = "asking"]
      /\ UNCHANGED <<list, changes, shown, stays, advanced, overtaken, raced>>
  BY DEF AskAgain, history
<1>2. /\ walk' = [at |-> "asking", limit |-> walk.limit, page |-> walk.page, total |-> walk.total]
      /\ walk.limit \in Limits \cup {0} /\ walk.page \in 0..Cardinality(Rows) \cup {1}
      /\ walk.total \in 0..Cardinality(Rows)
  BY <1>0, <1>1, WalkTyped
<1>3. walk'.at = "asking" /\ walk'.limit = walk.limit /\ walk'.page = walk.page
  BY <1>2
<1>4. PagesTypeOK'
  <2>1. walk' \in [at    : {"idle", "asking", "counted", "done"},
                   limit : Limits \cup {0},
                   page  : 0..Cardinality(Rows) \cup {1},
                   total : 0..Cardinality(Rows)]
    BY <1>2
  <2>2. Present' = Present
    BY <1>1 DEF Present
  <2> QED
    BY <1>0, <1>1, <2>1, <2>2 DEF PagesTypeOK
<1>5. WalkShape'
  BY <1>0, <1>1, <1>3 DEF WalkShape
<1>6. Walked'
  BY <1>0, <1>1, <1>3 DEF Walked
<1>7. ShownOnce'
  BY <1>0, <1>1, <1>3 DEF ShownOnce
<1> QED
  BY <1>4, <1>5, <1>6, <1>7 DEF PagesInv

(* The next page begins where this one ends; and the last page of the      *)
(* total reaches as far as the total, when pages have the size asked for.  *)
LEMMA FindStep ==
  ASSUME PagesInv, FindRows
  PROVE  PagesInv'
<1> DEFINE size == Size(walk.limit)
           before == Offset(walk.page, size)
           last == walk.page >= TotalPages(walk.total, walk.limit)
<1>0. PagesTypeOK /\ WalkShape /\ Walked /\ ShownOnce
  BY DEF PagesInv
<1>1. /\ walk.at = "counted"
      /\ shown' = [r \in Rows |-> IF r \in Page THEN shown[r] + 1 ELSE shown[r]]
      /\ walk' = IF last THEN [walk EXCEPT !.at = "done"]
                 ELSE [walk EXCEPT !.at = "asking", !.page = walk.page + 1]
      /\ UNCHANGED <<list, changes, stays, advanced, overtaken, raced>>
  BY DEF FindRows, history
<1>2. /\ walk.limit \in Limits \cup {0} /\ walk.page \in 0..Cardinality(Rows) \cup {1}
      /\ walk.total \in 0..Cardinality(Rows)
      /\ walk = [at |-> walk.at, limit |-> walk.limit, page |-> walk.page, total |-> walk.total]
  BY <1>0, WalkTyped
<1>3. /\ walk.limit \in Limits /\ walk.limit \in Nat /\ walk.limit >= 1
      /\ walk.page \in Nat /\ walk.page >= 1 /\ walk.total \in Nat
      /\ Cardinality(Rows) \in Nat
      /\ size \in Nat /\ size >= 1 /\ (walk.limit <= MaxSize => size = walk.limit)
  <2>1. walk.limit \in Limits /\ walk.page >= 1
    BY <1>0, <1>1 DEF WalkShape
  <2> QED
    BY <1>2, <2>1, PagingFacts
<1>4. /\ before \in Nat
      /\ Offset(walk.page + 1, size) = before + size
      /\ before + size = walk.page * size
  BY <1>3, OffsetFacts
<1>5. /\ TotalPages(walk.total, walk.limit) \in Nat
      /\ TotalPages(walk.total, walk.limit) <= walk.total
      /\ walk.total <= TotalPages(walk.total, walk.limit) * walk.limit
  BY <1>3, TotalPagesFacts
<1>6. /\ Len(list) \in Nat
      /\ \A i \in 1..Len(list) : list[i] \in Rows
      /\ \A i, j \in 1..Len(list) : list[i] = list[j] => i = j
      /\ \A r : r \in Present <=> \E i \in 1..Len(list) : list[i] = r
  BY <1>0, Listed
<1>7. \A r \in Rows : shown[r] \in Nat
  BY <1>0 DEF PagesTypeOK
<1>8. \A i \in 1..Len(list) : list[i] \in Page <=> before < i /\ i <= before + size
  <2>1. Page = {list[j] : j \in {k \in 1..Len(list) : before < k /\ k <= before + size}}
    BY DEF Page
  <2> HIDE DEF before, size
  <2> QED
    BY <1>6, <2>1
<1>9. /\ last => walk' = [at |-> "done", limit |-> walk.limit, page |-> walk.page, total |-> walk.total]
      /\ ~last => walk' = [at |-> "asking", limit |-> walk.limit, page |-> walk.page + 1, total |-> walk.total]
  <2> HIDE DEF last
  <2> QED
    BY <1>1, <1>2
<1>10. ~last => walk.page + 1 \in 0..Cardinality(Rows)
  BY <1>2, <1>3, <1>5
(* What a page does to the rows that were there all the time.              *)
<1>11. ASSUME NEW i \in 1..Len(list), list[i] \in stays
       PROVE  /\ list[i] \notin overtaken => shown'[list[i]] <= 1
              /\ list[i] \notin overtaken /\ shown'[list[i]] = 1 => i <= before + size
              /\ list[i] \notin advanced /\ shown'[list[i]] = 0 => i > before + size
              /\ list[i] \notin raced => i <= walk.total
  <2>1. /\ list[i] \notin overtaken => shown[list[i]] <= 1
        /\ list[i] \notin overtaken /\ shown[list[i]] = 1 => i <= before
        /\ list[i] \notin advanced /\ shown[list[i]] = 0 => i > before
        /\ list[i] \notin raced => i <= walk.total
    BY <1>0, <1>1, <1>11 DEF Walked
  <2>2. /\ list[i] \in Rows /\ shown[list[i]] \in Nat
        /\ shown'[list[i]] = IF list[i] \in Page THEN shown[list[i]] + 1 ELSE shown[list[i]]
    BY <1>1, <1>6, <1>7
  <2> HIDE DEF before, size
  <2>3. CASE list[i] \in Page
    <3>1. before < i /\ i <= before + size
      BY <1>8, <2>3
    <3>2. shown'[list[i]] = shown[list[i]] + 1
      BY <2>2, <2>3
    <3>3. list[i] \notin overtaken => shown[list[i]] = 0
      BY <1>4, <2>1, <2>2, <3>1
    <3> QED
      BY <2>1, <2>2, <3>1, <3>2, <3>3
  <2>4. CASE list[i] \notin Page
    <3>1. ~(before < i /\ i <= before + size)
      BY <1>8, <2>4
    <3>2. shown'[list[i]] = shown[list[i]]
      BY <2>2, <2>4
    <3> QED
      BY <1>3, <1>4, <1>6, <2>1, <2>2, <3>1, <3>2
  <2> QED
    BY <2>3, <2>4
<1>12. PagesTypeOK'
  <2>1. walk' \in [at    : {"idle", "asking", "counted", "done"},
                   limit : Limits \cup {0},
                   page  : 0..Cardinality(Rows) \cup {1},
                   total : 0..Cardinality(Rows)]
    <3> HIDE DEF last
    <3>1. CASE last
      BY <1>2, <1>9, <3>1
    <3>2. CASE ~last
      BY <1>2, <1>9, <1>10, <3>2
    <3> QED
      BY <3>1, <3>2
  <2>2. shown' \in [Rows -> Nat]
    BY <1>1, <1>7
  <2>3. Present' = Present
    BY <1>1 DEF Present
  <2> QED
    BY <1>0, <1>1, <2>1, <2>2, <2>3 DEF PagesTypeOK
<1>13. WalkShape'
  <2> HIDE DEF last
  <2>1. CASE last
    BY <1>9, <2>1 DEF WalkShape
  <2>2. CASE ~last
    <3>1. walk'.at = "asking" /\ walk'.limit = walk.limit /\ walk'.page = walk.page + 1
      BY <1>9, <2>2
    <3>2. walk.page + 1 >= 1
      BY <1>3
    <3> QED
      BY <1>3, <3>1, <3>2 DEF WalkShape
  <2> QED
    BY <2>1, <2>2
<1>14. Walked'
  <2>1. CASE last
    <3>1. walk'.at = "done"
      BY <1>9, <2>1
    <3> QED
      BY <3>1 DEF Walked
  <2>2. CASE ~last
    <3>1. walk'.at = "asking" /\ walk'.limit = walk.limit /\ walk'.page = walk.page + 1
      BY <1>9, <2>2
    <3>2. Offset(walk'.page, Size(walk'.limit)) = before + size
      BY <1>4, <3>1
    <3> HIDE DEF before, size, last
    <3> QED
      BY <1>1, <1>11, <3>1, <3>2 DEF Walked
  <2> QED
    BY <2>1, <2>2
<1>15. ShownOnce'
  <2> SUFFICES ASSUME NEW r \in stays
               PROVE  /\ walk'.at = "done" /\ walk'.limit <= MaxSize /\ shown'[r] = 0 => r \in advanced \cup raced
                      /\ shown'[r] > 1 => r \in overtaken
    BY <1>1 DEF ShownOnce
  <2>1. PICK i \in 1..Len(list) : list[i] = r
    BY <1>0, <1>6 DEF PagesTypeOK
  <2>2. shown'[r] \in Nat
    BY <1>1, <1>6, <1>7, <2>1
  <2>3. shown'[r] > 1 => r \in overtaken
    BY <1>11, <2>1, <2>2
  <2>4. ASSUME walk'.at = "done", walk'.limit <= MaxSize, shown'[r] = 0, r \notin advanced, r \notin raced
        PROVE  FALSE
    <3>1. last /\ walk'.limit = walk.limit
      <4> HIDE DEF last
      <4> QED
        BY <1>9, <2>4
    <3>2. size = walk.limit
      BY <1>3, <2>4, <3>1
    <3>3. i > before + size /\ i <= walk.total
      BY <1>11, <2>1, <2>4
    <3>4. walk.total <= walk.page * size
      <4>1. \A p, q, s \in Nat : p >= q => p * s >= q * s
        OBVIOUS
      <4>2. walk.page * walk.limit >= TotalPages(walk.total, walk.limit) * walk.limit
        BY <1>3, <1>5, <3>1, <4>1
      <4>3. \A p, s \in Nat : p * s \in Nat
        OBVIOUS
      <4>4. walk.page * walk.limit \in Nat /\ TotalPages(walk.total, walk.limit) * walk.limit \in Nat
        BY <1>3, <1>5, <4>3
      <4> HIDE DEF size, before
      <4> QED
        BY <1>3, <1>5, <3>2, <4>2, <4>4
    <3> HIDE DEF before, size, last
    <3> QED
      BY <1>3, <1>4, <3>3, <3>4
  <2> QED
    BY <2>3, <2>4
<1> QED
  BY <1>12, <1>13, <1>14, <1>15 DEF PagesInv

(* The first state.                                                        *)
LEMMA PagingStarts ==
  ASSUME PagesInit
  PROVE  PagesInv
<1>1. /\ changes = 0
      /\ walk = [at |-> "idle", limit |-> 0, page |-> 0, total |-> 0]
      /\ shown = [r \in Rows |-> 0]
      /\ stays = {} /\ advanced = {} /\ overtaken = {} /\ raced = {}
  BY DEF PagesInit
<1>2. PICK S \in SUBSET Rows : list \in SetToSeqs(S)
  BY DEF PagesInit
<1>3. /\ list \in [1..Cardinality(S) -> S]
      /\ \A i, j \in 1..Cardinality(S) : i # j => list[i] # list[j]
  BY <1>2 DEF SetToSeqs
<1>4. Cardinality(S) \in Nat
  <2>1. IsFiniteSet(Rows)
    BY PagingAssumption DEF PagingAssumption
  <2>2. IsFiniteSet(S)
    BY <2>1, FS_Subset
  <2> QED
    BY <2>2, FS_CardinalityType
<1>5. list \in Seq(Rows) /\ IsInjective(list)
  <2>1. list \in [1..Cardinality(S) -> Rows] /\ DOMAIN list = 1..Cardinality(S)
    BY <1>3
  <2> QED
    BY <1>3, <1>4, <2>1 DEF IsInjective
<1>6. PagesTypeOK
  BY <1>1, <1>5, PagingFacts DEF PagesTypeOK
<1>7. WalkShape /\ Walked /\ ShownOnce
  BY <1>1 DEF WalkShape, Walked, ShownOnce
<1> QED
  BY <1>6, <1>7 DEF PagesInv

(* Every step.                                                             *)
LEMMA PagingStep ==
  ASSUME PagesInv, [PagesNext]_pagesVars
  PROVE  PagesInv'
<1>1. ASSUME NEW r \in Rows, Enter(r) PROVE PagesInv'
  BY <1>1, EnterStep
<1>2. ASSUME NEW r \in Rows, Leave(r) PROVE PagesInv'
  BY <1>2, LeaveStep
<1>3. ASSUME NEW limit \in Limits, Begin(limit) PROVE PagesInv'
  BY <1>3, BeginStep
<1>4. CASE CountRows
  BY <1>4, CountStep
<1>5. CASE FindRows
  BY <1>5, FindStep
<1>6. CASE AskAgain
  BY <1>6, AskAgainStep
<1>7. CASE UNCHANGED pagesVars
  BY <1>7 DEF PagesInv, PagesTypeOK, WalkShape, Walked, ShownOnce, Present, pagesVars, history
<1> QED
  BY <1>1, <1>2, <1>3, <1>4, <1>5, <1>6, <1>7 DEF PagesNext

(* The invariant holds in every reachable state.                           *)
LEMMA PagingInvariant ==
  PagesSpec => []PagesInv
<1>1. PagesInit => PagesInv
  BY PagingStarts
<1>2. PagesInv /\ [PagesNext]_pagesVars => PagesInv'
  BY PagingStep
<1> QED
  BY <1>1, <1>2, PTL DEF PagesSpec

(* The list has no row twice and the walk no more pages than the list can  *)
(* have rows, and the history is about rows of the list.                   *)
THEOREM PagingTypeCorrect ==
  PagesSpec => []PagesTypeOK
<1>1. PagesInv => PagesTypeOK
  BY DEF PagesInv
<1> QED
  BY <1>1, PagingInvariant, PTL

(* A client that asked for every page of a limit NewPage accepts was shown *)
(* every row that was in the list all the time, unless a row ahead of it   *)
(* left, or one entered ahead of it between the total and the rows; and    *)
(* none twice that no row has overtaken.                                   *)
THEOREM ShownOnceTheorem ==
  PagesSpec => []ShownOnce
<1>1. PagesInv => ShownOnce
  BY DEF PagesInv
<1> QED
  BY <1>1, PagingInvariant, PTL
=============================================================================

-------------------------------- MODULE Inbox --------------------------------
(***************************************************************************)
(* Announcements and the inboxes of the accounts: usecase/notification.go  *)
(* over repository/notification.go.                                        *)
(*                                                                         *)
(* No handler of this part opens a transaction: every statement commits by *)
(* itself, and what happens between two statements of a handler is seen by *)
(* the second.  The audit inserts ignore their errors and change nothing   *)
(* here; the events of a published announcement are those of NotifyHub.    *)
(* A notification is named by the request that published it and by its     *)
(* account; read_at holds the request whose clock was written.             *)
(***************************************************************************)
EXTENDS Naturals, FiniteSets

CONSTANTS
  Users,          \* accounts, numbered in the order of their creation
  Announcements,  \* ids of announcements
  Requests,       \* requests that publish, update or mark
  Texts,          \* title and body
  PageMax,        \* the largest page NewPage grants (1000)
  None            \* no row, nothing read

Notes == Requests \X Users
Owner(n) == n[2]

(* The columns of the two tables, as far as the handlers use them.         *)
Announcement == [text: Texts, deleted: BOOLEAN]
Notification ==
  [text: Texts, is_read: BOOLEAN, read_at: Requests \cup {None}, is_important: BOOLEAN]

ASSUME InboxAssumption ==
  /\ Users \subseteq Nat
  /\ PageMax \in Nat \ {0}
  /\ None \notin Requests \cup Announcements \cup Announcement \cup Notification

VARIABLES
  active,  \* accounts with users.status = 'active'
  ann,     \* the row of an announcement, or None
  inbox,   \* the row of a notification, or None
  at,      \* where a request is
  caller,  \* the account that sent it
  work,    \* its local variables, empty before it begins and after it ends
  seen     \* history: what happened since it began

rows == <<active, ann, inbox>>
vars == <<active, ann, inbox, at, caller, work, seen>>

(* The announcement and its row as it was read, the notification, the      *)
(* accounts a query returned, the notifications an UPDATE has found.       *)
Locals ==
  [about: Announcements \cup {None}, row: Announcement \cup {None},
   note: Notes \cup {None}, picked: SUBSET Users, matched: SUBSET Notes]
NoLocals == [about |-> None, row |-> None, note |-> None, picked |-> {}, matched |-> {}]

(* The texts of the announcement, whether it was deleted, the accounts     *)
(* active at some moment and at every moment, the notifications that       *)
(* MarkAllRead has to leave read.                                          *)
Witness ==
  [texts: SUBSET Texts, deleted: BOOLEAN, ever: SUBSET Users, always: SUBSET Users,
   due: SUBSET Notes]
NoWitness == [texts |-> {}, deleted |-> FALSE, ever |-> {}, always |-> {}, due |-> {}]

TypeOK ==
  /\ active \in SUBSET Users
  /\ ann \in [Announcements -> Announcement \cup {None}]
  /\ inbox \in [Notes -> Notification \cup {None}]
  /\ at \in [Requests -> {"idle", "updating", "publishing", "listed", "marking", "opened",
                          "published", "ok", "error"}]
  /\ caller \in [Requests -> Users \cup {None}]
  /\ work \in [Requests -> Locals]
  /\ seen \in [Requests -> Witness]

Init ==
  /\ active = Users
  /\ ann = [a \in Announcements |-> None]
  /\ inbox = [n \in Notes |-> None]
  /\ at = [r \in Requests |-> "idle"]
  /\ caller = [r \in Requests |-> None]
  /\ work = [r \in Requests |-> NoLocals]
  /\ seen = [r \in Requests |-> NoWitness]

(* The request goes on, or ends and forgets its variables.                 *)
Goes(r, to) == at' = [at EXCEPT ![r] = to]
Ends(r, result) ==
  /\ Goes(r, result)
  /\ work' = [work EXCEPT ![r] = NoLocals]

(***************************************************************************)
(* Statements that are a handler of their own.                             *)
(***************************************************************************)

InFlight(r) == at[r] \in {"updating", "publishing", "listed"}
IsLive(row) == row # None /\ ~row.deleted

CreateAnnouncement(a, t) ==
  /\ ann[a] = None
  /\ ann' = [ann EXCEPT ![a] = [text |-> t, deleted |-> FALSE]]
  /\ UNCHANGED <<active, inbox, at, caller, work, seen>>

DeleteAnnouncement(a) ==
  /\ IsLive(ann[a])
  /\ ann' = [ann EXCEPT ![a].deleted = TRUE]
  /\ seen' = [r \in Requests |-> IF InFlight(r) /\ work[r].about = a
                                 THEN [seen[r] EXCEPT !.deleted = TRUE] ELSE seen[r]]
  /\ UNCHANGED <<active, inbox, at, caller, work>>

(* An account is locked or deleted, or unlocked (UserAccounts).            *)
Lock(u) ==
  /\ u \in active
  /\ active' = active \ {u}
  /\ seen' = [r \in Requests |-> [seen[r] EXCEPT !.always = @ \ {u}]]
  /\ UNCHANGED <<ann, inbox, at, caller, work>>

Unlock(u) ==
  /\ u \in Users \ active
  /\ active' = active \cup {u}
  /\ seen' = [r \in Requests |-> IF InFlight(r) THEN [seen[r] EXCEPT !.ever = @ \cup {u}]
                                                ELSE seen[r]]
  /\ UNCHANGED <<ann, inbox, at, caller, work>>

(***************************************************************************)
(* Updating and publishing an announcement.                                *)
(***************************************************************************)

(* Faulty variant: a deleted announcement is found.                        *)
FindsDeleted(a) == ann[a] # None

(* announcements.GetByID finds the row.                                    *)
Finds(a) == IsLive(ann[a])

(* UpdateAnnouncement and PublishToAll begin with GetByID: 404 when there  *)
(* is no such row.                                                         *)
Load(r, a, to) ==
  /\ at[r] = "idle"
  /\ IF Finds(a)
     THEN /\ Goes(r, to)
          /\ work' = [work EXCEPT ![r].about = a, ![r].row = ann[a]]
          /\ seen' = [seen EXCEPT ![r].texts = IF IsLive(ann[a]) THEN {ann[a].text} ELSE {},
                                  ![r].ever = active, ![r].always = active]
     ELSE /\ Goes(r, "error")
          /\ UNCHANGED <<work, seen>>
  /\ UNCHANGED <<rows, caller>>

(* announcements.Update writes every column; deleted_at is the one that    *)
(* was read.                                                               *)
SaveAnnouncement(r, t) ==
  /\ at[r] = "updating"
  /\ LET a == work[r].about IN
       /\ ann' = [ann EXCEPT ![a] = [work[r].row EXCEPT !.text = t]]
       /\ seen' = [q \in Requests |->
                     IF q = r THEN NoWitness
                     ELSE IF InFlight(q) /\ work[q].about = a
                     THEN [seen[q] EXCEPT !.texts = @ \cup {t}] ELSE seen[q]]
  /\ Ends(r, "ok")
  /\ UNCHANGED <<active, inbox, caller>>

(* Faulty variant: the first page is numbered from one.                    *)
PageFromOne == {u \in active : Cardinality({v \in active : v < u}) \in 1 .. PageMax}

(* The first page of the active accounts by created_at: PublishToAll asks  *)
(* for 10000 accounts, NewPage grants PageMax.                             *)
FirstPage == {u \in active : Cardinality({v \in active : v < u}) < PageMax}

ListAudience(r) ==
  /\ at[r] = "publishing"
  /\ work' = [work EXCEPT ![r].picked = FirstPage]
  /\ Goes(r, "listed")
  /\ UNCHANGED <<rows, caller, seen>>

(* BulkCreate: one INSERT for all of them.                                 *)
BulkCreate(r) ==
  /\ at[r] = "listed"
  /\ inbox' = [n \in Notes |->
                 IF n \in {r} \X work[r].picked
                 THEN [text |-> work[r].row.text, is_read |-> FALSE, read_at |-> None,
                       is_important |-> FALSE]
                 ELSE inbox[n]]
  /\ Ends(r, "published")
  /\ seen' = [seen EXCEPT ![r] = NoWitness]
  /\ UNCHANGED <<active, ann, caller>>

(***************************************************************************)
(* The inbox of an account.                                                *)
(***************************************************************************)

(* WHERE id = n AND user_id = u.                                           *)
Matches(n, u) == inbox[n] # None /\ Owner(n) = u

(* Faulty variant: read_at is written again.                               *)
ReadAgain(row, r) == [row EXCEPT !.is_read = TRUE, !.read_at = r]

(* SET is_read = TRUE, read_at = now WHERE is_read = FALSE.                *)
Read(row, r) ==
  IF row.is_read THEN row ELSE [row EXCEPT !.is_read = TRUE, !.read_at = r]

(* SET is_read = FALSE, read_at = NULL.                                    *)
Unread(row) == [row EXCEPT !.is_read = FALSE, !.read_at = None]

(* A handler of one statement on one row: the answer is 204 also when no   *)
(* row matches.                                                            *)
Mark(r, u, n, row) ==
  /\ at[r] = "idle"
  /\ caller' = [caller EXCEPT ![r] = u]
  /\ inbox' = IF Matches(n, u) THEN [inbox EXCEPT ![n] = row] ELSE inbox
  /\ Goes(r, "ok")
  /\ UNCHANGED <<active, ann, work>>

MarkRead(r, u, n) == Mark(r, u, n, Read(inbox[n], r)) /\ UNCHANGED seen

MarkUnread(r, u, n) ==
  /\ Mark(r, u, n, Unread(inbox[n]))
  /\ seen' = [q \in Requests |-> [seen[q] EXCEPT !.due = @ \ {n}]]

SetImportant(r, u, n) ==
  /\ \E important \in BOOLEAN : Mark(r, u, n, [inbox[n] EXCEPT !.is_important = important])
  /\ UNCHANGED seen

(* Faulty variant: important notifications are left alone.                 *)
OrdinaryUnread(u) == {n \in Notes : Matches(n, u) /\ ~inbox[n].is_read /\ ~inbox[n].is_important}

(* WHERE user_id = u AND is_read = FALSE.                                  *)
UnreadOf(u) == {n \in Notes : Matches(n, u) /\ ~inbox[n].is_read}

(* The UPDATE of MarkAllRead takes a snapshot of the rows that match ...   *)
StartMarkAll(r, u) ==
  /\ at[r] = "idle"
  /\ caller' = [caller EXCEPT ![r] = u]
  /\ work' = [work EXCEPT ![r].matched = UnreadOf(u)]
  /\ seen' = [seen EXCEPT ![r].due = {n \in Notes : Matches(n, u)}]
  /\ Goes(r, "marking")
  /\ UNCHANGED rows

(* ... and writes those that still match when it has locked them.          *)
FinishMarkAll(r) ==
  /\ at[r] = "marking"
  /\ inbox' = [n \in Notes |-> IF n \in work[r].matched THEN Read(inbox[n], r) ELSE inbox[n]]
  /\ Ends(r, "ok")
  /\ seen' = [seen EXCEPT ![r] = NoWitness]
  /\ UNCHANGED <<active, ann, caller>>

(* GET /notifications/:id reads the row and marks it read when it was not. *)
OpenDetail(r, u, n) ==
  /\ at[r] = "idle"
  /\ caller' = [caller EXCEPT ![r] = u]
  /\ IF Matches(n, u) /\ ~inbox[n].is_read
     THEN work' = [work EXCEPT ![r].note = n] /\ Goes(r, "opened")
     ELSE UNCHANGED work /\ Goes(r, IF Matches(n, u) THEN "ok" ELSE "error")
  /\ UNCHANGED <<rows, seen>>

MarkOpened(r) ==
  /\ at[r] = "opened"
  /\ LET n == work[r].note IN
       inbox' = IF Matches(n, caller[r]) THEN [inbox EXCEPT ![n] = Read(@, r)] ELSE inbox
  /\ Ends(r, "ok")
  /\ UNCHANGED <<active, ann, caller, seen>>

(* A statement fails.  The detail view drops the error of its mark.        *)
Fail(r) ==
  /\ at[r] \in {"updating", "publishing", "listed", "marking", "opened"}
  /\ Ends(r, IF at[r] = "opened" THEN "ok" ELSE "error")
  /\ seen' = [seen EXCEPT ![r] = NoWitness]
  /\ UNCHANGED <<rows, caller>>

(***************************************************************************)
(* The specification.                                                      *)
(***************************************************************************)

Handle(r) ==
  \/ \E a \in Announcements : Load(r, a, "updating") \/ Load(r, a, "publishing")
  \/ \E t \in Texts : SaveAnnouncement(r, t)
  \/ ListAudience(r) \/ BulkCreate(r)
  \/ \E u \in Users, n \in Notes :
       MarkRead(r, u, n) \/ MarkUnread(r, u, n) \/ SetImportant(r, u, n) \/ OpenDetail(r, u, n)
  \/ \E u \in Users : StartMarkAll(r, u)
  \/ FinishMarkAll(r) \/ MarkOpened(r) \/ Fail(r)

Next ==
  \/ \E a \in Announcements : DeleteAnnouncement(a) \/ \E t \in Texts : CreateAnnouncement(a, t)
  \/ \E u \in Users : Lock(u) \/ Unlock(u)
  \/ \E r \in Requests : Handle(r)

Spec == Init /\ [][Next]_vars

(***************************************************************************)
(* Properties that hold.                                                   *)
(***************************************************************************)

(* read_at tells when a notification was first read since it was last      *)
(* unread: marks that overlap do not move it, and it goes with is_read.    *)
ReadTimeIsTheFirst ==
  [][\A n \in Notes : inbox'[n] # None =>
       /\ inbox'[n].is_read <=> inbox'[n].read_at # None
       /\ inbox[n] # None /\ inbox[n].is_read /\ inbox'[n].is_read
            => inbox'[n].read_at = inbox[n].read_at]_vars

(* When MarkAllRead succeeds, every notification the account had when it   *)
(* began is read, but for those marked unread meanwhile.                   *)
AllReadMeansRead ==
  [][\A r \in Requests : at[r] = "marking" /\ at'[r] = "ok"
       => \A n \in seen[r].due : inbox'[n].is_read]_vars

(* Nobody is sent a text the announcement did not have, undeleted, while   *)
(* it was being published, and nobody is told who was not active           *)
(* meanwhile.                                                              *)
SentWasCurrent ==
  [][\A n \in Notes : inbox[n] = None /\ inbox'[n] # None =>
       inbox'[n].text \in seen[n[1]].texts /\ Owner(n) \in seen[n[1]].ever]_vars

(* A publication that succeeds tells an account that was active all the    *)
(* time, if it is among the first PageMax of those that were active at     *)
(* some time: a lock or unlock of another account costs it nothing, and    *)
(* who does not fit the page is the youngest.                              *)
ActiveAreTold ==
  [][\A r \in Requests, u \in Users :
       /\ at[r] = "listed" /\ at'[r] = "published"
       /\ u \in seen[r].always
       /\ Cardinality({v \in seen[r].ever : v < u}) < PageMax
       => inbox'[<<r, u>>] # None]_vars

(* A deleted announcement comes back only by an update that had read it    *)
(* before the delete.                                                      *)
ReturnsByStaleUpdateOnly ==
  [][\A a \in Announcements : ann[a] # None /\ ann[a].deleted /\ ~ann'[a].deleted =>
       \E r \in Requests :
         at[r] = "updating" /\ at'[r] = "ok" /\ work[r].about = a /\ seen[r].deleted]_vars
=============================================================================

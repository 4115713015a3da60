------------------------------- MODULE Paging -------------------------------
(***************************************************************************)
(* A client reads a list page by page: announcements, notifications,       *)
(* users, permissions, activity logs.  Each page is a request of its own,  *)
(* and each request takes its total and its rows in two statements, while  *)
(* rows enter the list, leave it (a delete, a lock under a status filter,  *)
(* a mark under the unread filter) or change their place (a new            *)
(* published_at: they leave and enter).                                    *)
(*                                                                         *)
(* The list is what the WHERE clause selects, in the order of its ORDER    *)
(* BY.  A row can enter anywhere: created_at and the ids of the audit log  *)
(* are taken before the commit, published_at is chosen freely.  Rows with  *)
(* equal keys are taken to have an order.  The client asks for the next    *)
(* page until it has had totalPages of them.                               *)
(***************************************************************************)
EXTENDS Naturals, FiniteSets, Sequences, SequencesExt

CONSTANTS
  Rows,      \* rows of the table
  Limits,    \* the limits clients ask for
  MaxSize,   \* the largest page: 1000, for activity logs 200
  Oversize,  \* the size of a page when more is asked: 1000, for activity logs 50
  MaxChanges \* bound on the changes of the list during the walk

ASSUME PagingAssumption ==
  /\ IsFiniteSet(Rows)
  /\ Limits \subseteq Nat \ {0}
  /\ MaxSize \in Nat \ {0}
  /\ Oversize \in 1..MaxSize
  /\ MaxChanges \in Nat

VARIABLES
  list,       \* the rows the list has now, in order
  changes,    \* how often it has changed
  walk,       \* the client: where it is, its limit, its page, the total it was told
  shown,      \* how often the client was shown a row
  stays,      \* history: rows in the list ever since the walk began
  advanced,   \* history: rows ahead of which one has left during the walk
  overtaken,  \* history: rows ahead of which one has entered during the walk
  raced       \* history: the same between the two statements of the last request

history == <<stays, advanced, overtaken, raced>>
pagesVars == <<list, changes, walk, shown, history>>

Present == Range(list)
Behind(i) == {list[j] : j \in i..Len(list)}

PagesTypeOK ==
  /\ list \in Seq(Rows) /\ IsInjective(list)
  /\ changes \in 0..MaxChanges
  /\ walk \in [at    : {"idle", "asking", "counted", "done"},
               limit : Limits \cup {0},
               page  : 0..Cardinality(Rows) \cup {1},
               total : 0..Cardinality(Rows)]
  /\ shown \in [Rows -> Nat]
  /\ stays \subseteq Present
  /\ advanced \subseteq Rows /\ raced \subseteq overtaken /\ overtaken \subseteq Rows

PagesInit ==
  /\ list \in UNION {SetToSeqs(S) : S \in SUBSET Rows}
  /\ changes = 0
  /\ walk = [at |-> "idle", limit |-> 0, page |-> 0, total |-> 0]
  /\ shown = [r \in Rows |-> 0]
  /\ stays = {} /\ advanced = {} /\ overtaken = {} /\ raced = {}

(***************************************************************************)
(* The other requests.                                                     *)
(***************************************************************************)

Change ==
  /\ walk.at \in {"asking", "counted"}
  /\ changes < MaxChanges /\ changes' = changes + 1

Enter(r) ==
  /\ Change /\ r \notin Present
  /\ \E i \in 1..Len(list) + 1 :
       /\ list' = InsertAt(list, i, r)
       /\ overtaken' = overtaken \cup Behind(i)
       /\ raced' = IF walk.at = "counted" THEN raced \cup Behind(i) ELSE raced
  /\ UNCHANGED <<walk, shown, stays, advanced>>

Leave(r) ==
  /\ Change
  /\ \E i \in 1..Len(list) :
       /\ list[i] = r
       /\ list' = RemoveAt(list, i)
       /\ advanced' = advanced \cup (Behind(i) \ {r})
  /\ stays' = stays \ {r}
  /\ UNCHANGED <<walk, shown, overtaken, raced>>

(***************************************************************************)
(* Pages.                                                                  *)
(***************************************************************************)

(* NewPage, and ListLogs for itself.                                       *)
Size(limit) == IF limit > MaxSize THEN Oversize ELSE limit

Offset(page, size) == (page - 1) * size

(* Faulty variants: a partly filled page is not counted, one is always     *)
(* counted.                                                                *)
FullPages(total, limit) == total \div limit
FullPagesAndOne(total, limit) == total \div limit + 1

(* totalPages of the answer, from the limit that was asked for; activity   *)
(* logs are answered with the total alone, and the client divides.         *)
TotalPages(total, limit) == (total + limit - 1) \div limit

Begin(limit) ==
  /\ walk.at = "idle"
  /\ walk' = [at |-> "asking", limit |-> limit, page |-> 1, total |-> 0]
  /\ stays' = Present
  /\ UNCHANGED <<list, changes, shown, advanced, overtaken, raced>>

CountRows ==
  /\ walk.at = "asking"
  /\ walk' = [walk EXCEPT !.at = "counted", !.total = Len(list)]
  /\ raced' = {}
  /\ UNCHANGED <<list, changes, shown, stays, advanced, overtaken>>

(* LIMIT and OFFSET.                                                       *)
Page ==
  LET before == Offset(walk.page, Size(walk.limit))
  IN  {list[i] : i \in {j \in 1..Len(list) : before < j /\ j <= before + Size(walk.limit)}}

(* The rows of the page are shown, and the client goes on or stops.        *)
FindRows ==
  /\ walk.at = "counted"
  /\ shown' = [r \in Rows |-> IF r \in Page THEN shown[r] + 1 ELSE shown[r]]
  /\ walk' = IF walk.page >= TotalPages(walk.total, walk.limit)
             THEN [walk EXCEPT !.at = "done"]
             ELSE [walk EXCEPT !.at = "asking", !.page = @ + 1]
  /\ UNCHANGED <<list, changes, history>>

(* A statement fails, the answer is 500 and the client asks again.         *)
AskAgain ==
  /\ walk.at = "counted"
  /\ walk' = [walk EXCEPT !.at = "asking"]
  /\ UNCHANGED <<list, changes, shown, history>>

(***************************************************************************)
(* The specification.                                                      *)
(***************************************************************************)

PagesNext ==
  \/ \E r \in Rows : Enter(r) \/ Leave(r)
  \/ \E limit \in Limits : Begin(limit)
  \/ CountRows \/ FindRows \/ AskAgain

PagesSpec == PagesInit /\ [][PagesNext]_pagesVars

(***************************************************************************)
(* Properties.                                                             *)
(***************************************************************************)

(* A client that has had totalPages pages has been shown every row that    *)
(* was in the list all the time, unless a row ahead of it left the list    *)
(* meanwhile, or one entered ahead of it between the total and the rows of *)
(* the last request.  In a list that only grows at its head (DESC) or end  *)
(* (ASC), nothing else goes missing.  It holds for limits the server       *)
(* accepts: with a larger one totalPages counts pages of the limit that    *)
(* was asked for, and the rows after as many smaller pages are not shown.  *)
(* A row is shown twice only if one has entered ahead of it.               *)
ShownOnce ==
  \A r \in stays :
    /\ walk.at = "done" /\ walk.limit <= MaxSize /\ shown[r] = 0 => r \in advanced \cup raced
    /\ shown[r] > 1 => r \in overtaken
=============================================================================

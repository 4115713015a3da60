------------------------------ MODULE EventFeed ------------------------------
(***************************************************************************)
(* What the real-time notifications promise to one open stream: events of  *)
(* stored notifications of its user, in the order in which Redis executed  *)
(* their publications, each publication at most once and none from before  *)
(* the stream was opened.  Any of them may be missing: the client reads    *)
(* the list of notifications anyway.                                       *)
(*                                                                         *)
(* A publication whose reply was lost is sent again, so a notification may *)
(* be published up to MaxSends times, with those of others in between, and *)
(* its event may reach a client as often.  An event <<n, k>> is the k-th   *)
(* publication of n; the client is shown n and cannot see k.               *)
(***************************************************************************)
EXTENDS Naturals, Sequences

CONSTANTS
  Users,          \* accounts that have notifications
  Streams,        \* GET /notifications/stream requests
  Notifications,  \* rows of the notifications table
  MaxSends,       \* how often a publication may be executed
  None            \* no user

VARIABLES
  recipient,  \* the user of a stored notification, None before it is stored
  feed,       \* per user, the events in the order of their execution
  user,       \* the user of a stream
  since,      \* the length of the feed when the stream was opened
  seen        \* the events written to the client

Events == Notifications \X (1..MaxSends)

feedVars == <<recipient, feed, user, since, seen>>

FeedInit ==
  /\ recipient = [n \in Notifications |-> None]
  /\ feed = [u \in Users |-> <<>>]
  /\ user = [s \in Streams |-> None]
  /\ since = [s \in Streams |-> 0]
  /\ seen = [s \in Streams |-> <<>>]

Store(n, u) ==
  /\ recipient[n] = None
  /\ recipient' = [recipient EXCEPT ![n] = u]
  /\ UNCHANGED <<feed, user, since, seen>>

(* A stored notification is published to its user, for the k-th time.      *)
Announce(n, k) ==
  /\ recipient[n] # None
  /\ \A j \in 1..MaxSends :
       j < k <=> \E v \in Users : \E i \in 1..Len(feed[v]) : feed[v][i] = <<n, j>>
  /\ feed' = [feed EXCEPT ![recipient[n]] = Append(@, <<n, k>>)]
  /\ UNCHANGED <<recipient, user, since, seen>>

Open(s, u) ==
  /\ user[s] = None
  /\ user' = [user EXCEPT ![s] = u]
  /\ since' = [since EXCEPT ![s] = Len(feed[u])]
  /\ UNCHANGED <<recipient, feed, seen>>

(* The next event shown is a publication executed after the stream was     *)
(* opened and after all those shown before.                                *)
Show(s) ==
  /\ user[s] # None
  /\ \E i \in since[s] + 1 .. Len(feed[user[s]]) :
       /\ \A j \in i .. Len(feed[user[s]]), k \in 1 .. Len(seen[s]) :
            seen[s][k] # feed[user[s]][j]
       /\ seen' = [seen EXCEPT ![s] = Append(@, feed[user[s]][i])]
  /\ UNCHANGED <<recipient, feed, user, since>>

FeedNext ==
  \/ \E n \in Notifications : \/ \E k \in 1..MaxSends : Announce(n, k)
                              \/ \E u \in Users : Store(n, u)
  \/ \E s \in Streams : Show(s) \/ \E u \in Users : Open(s, u)

FeedSpec == FeedInit /\ [][FeedNext]_feedVars
=============================================================================

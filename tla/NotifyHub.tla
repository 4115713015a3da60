------------------------------ MODULE NotifyHub ------------------------------
(***************************************************************************)
(* Real-time notifications of one API process: the hub (xnotify/hub.go),   *)
(* the SSE handlers that read from it (handler/sse.go) and the repository  *)
(* that publishes to it (repository/notification_publishing.go).           *)
(*                                                                         *)
(* Every stream is served by two goroutines.  The handler subscribes, then *)
(* writes what it finds in its channel to the client.  The loop moves the  *)
(* messages of a Redis subscription to that channel without ever waiting   *)
(* for the handler, and gives the slot of the stream back when it ends.    *)
(* The steps are the critical sections of the hub's mutex and the receives *)
(* and sends on the channels; Redis forwards a message to each subscriber  *)
(* in order, at most once, or loses it.  The Redis client sends a command  *)
(* again when its reply is lost: a PUBLISH may be executed MaxSends times. *)
(***************************************************************************)
EXTENDS Naturals, Sequences, FiniteSets

CONSTANTS
  Users,          \* accounts, numbered as they first appear
  Streams,        \* GET /notifications/stream requests, numbered as they come
  Notifications,  \* rows of the notifications table, numbered as inserted
  MaxConns,       \* maxConnsPerUser
  ChanBuf,        \* chanBufSize
  MaxSends,       \* 1 + MaxRetries of the go-redis client, 4 by default
  None            \* no user

ASSUME NotifyHubAssumption ==
  /\ MaxConns \in Nat \ {0}
  /\ ChanBuf \in Nat \ {0}
  /\ MaxSends \in Nat \ {0}
  /\ None \notin Users
  /\ Users \subseteq Nat
  /\ Streams \subseteq Nat
  /\ Notifications \subseteq Nat

(* <<n, k>>: the k-th time Redis executes the publication of n.  The k is  *)
(* history, it is not in the message.                                      *)
Events == Notifications \X (1..MaxSends)

VARIABLES
  recipient,  \* the user of an inserted notification
  feed,       \* history: the publications Redis executed, per user
  conns,      \* h.conns: the streams that hold a slot
  hub,        \* open, closing: h.done is closed, closed: h.conns is cleared
  redis,      \* the client rdb: up or closed
  user,       \* the user of a stream
  handler,    \* where the SSE handler of a stream is
  loop,       \* where the goroutine of its subscription is
  cancelled,  \* streams whose subscription context is done
  hungUp,     \* streams whose request context is done: the client or the handler is gone
  wire,       \* messages received from Redis, not yet taken by the loop
  buf,        \* the channel between loop and handler
  seen,       \* events written to the client
  since       \* history: length of the feed when the stream was opened

hubVars    == <<conns, hub, cancelled>>
streamVars == <<user, hungUp, handler, loop, wire, buf, seen, since>>
vars == <<recipient, feed, redis, conns, hub, cancelled, user, hungUp, handler, loop,
          wire, buf, seen, since>>

TypeOK ==
  /\ recipient \in [Notifications -> Users \cup {None}]
  /\ feed \in [Users -> Seq(Events)]
  /\ conns \in [Users -> SUBSET Streams]
  /\ hub \in {"open", "closing", "closed"}
  /\ redis \in {"up", "closed"}
  /\ user \in [Streams -> Users \cup {None}]
  /\ handler \in [Streams -> {"idle", "subscribing", "streaming", "gone", "refused"}]
  /\ loop \in [Streams -> {"none", "running", "leaving", "ended"}]
  /\ hungUp \subseteq cancelled /\ cancelled \subseteq Streams
  /\ wire \in [Streams -> Seq(Events)]
  /\ buf \in [Streams -> Seq(Events)]
  /\ \A s \in Streams : Len(buf[s]) <= ChanBuf
  /\ seen \in [Streams -> Seq(Events)]
  /\ since \in [Streams -> Nat]

Init ==
  /\ recipient = [n \in Notifications |-> None]
  /\ feed = [u \in Users |-> <<>>]
  /\ conns = [u \in Users |-> {}]
  /\ hub = "open"
  /\ redis = "up"
  /\ user = [s \in Streams |-> None]
  /\ handler = [s \in Streams |-> "idle"]
  /\ loop = [s \in Streams |-> "none"]
  /\ cancelled = {}
  /\ hungUp = {}
  /\ wire = [s \in Streams |-> <<>>]
  /\ buf = [s \in Streams |-> <<>>]
  /\ seen = [s \in Streams |-> <<>>]
  /\ since = [s \in Streams |-> 0]

Published(e) == \E u \in Users : \E i \in 1..Len(feed[u]) : feed[u][i] = e

(* An account that has a notification or a stream, or the next one.        *)
Accounts ==
  {u \in Users : \A v \in Users : v < u =>
     \/ \E n \in Notifications : recipient[n] = v
     \/ \E s \in Streams : user[s] = v}

(***************************************************************************)
(* Publishing.                                                             *)
(***************************************************************************)

(* inner.Create, one row of inner.BulkCreate: the insert is committed.     *)
Insert(n) ==
  /\ recipient[n] = None
  /\ \A m \in Notifications : m < n => recipient[m] # None
  /\ \E u \in Accounts : recipient' = [recipient EXCEPT ![n] = u]
  /\ UNCHANGED <<feed, redis, hubVars, streamVars>>

(* publishNew after the insert.  It may fail, never happen, or happen      *)
(* after that of a later insert; Redis forwards the event to some of the   *)
(* streams that have subscribed by now.  When the reply of the PUBLISH is  *)
(* lost the client sends it again, after a pause in which other events may *)
(* be published, and Redis executes it once more: the k-th time.           *)
Publish(n, k) ==
  /\ recipient[n] # None
  /\ \A j \in 1..MaxSends : j < k <=> Published(<<n, j>>)
  /\ redis = "up"
  /\ feed' = [feed EXCEPT ![recipient[n]] = Append(@, <<n, k>>)]
  /\ \E got \in SUBSET {s \in Streams : user[s] = recipient[n] /\ loop[s] = "running"} :
       wire' = [s \in Streams |-> IF s \in got THEN Append(wire[s], <<n, k>>) ELSE wire[s]]
  /\ UNCHANGED <<recipient, redis, hubVars, user, hungUp, handler, loop, buf, seen, since>>

(***************************************************************************)
(* Subscribe.                                                              *)
(***************************************************************************)

(* The next stream request.                                                *)
Arrives(s) ==
  /\ handler[s] = "idle"
  /\ \A t \in Streams : t < s => handler[t] # "idle"

(* The critical section: a slot, or 429 Too Many Requests.  It does not    *)
(* look at h.done: a late request gets a slot of a hub that is closed.     *)
Subscribe(s) ==
  /\ Arrives(s)
  /\ \E u \in Accounts :
       /\ Cardinality(conns[u]) < MaxConns
       /\ conns' = [conns EXCEPT ![u] = @ \cup {s}]
       /\ user' = [user EXCEPT ![s] = u]
       /\ since' = [since EXCEPT ![s] = Len(feed[u])]
  /\ handler' = [handler EXCEPT ![s] = "subscribing"]
  /\ UNCHANGED <<recipient, feed, redis, hub, cancelled, hungUp, loop, wire, buf, seen>>

TooManyStreams(s) ==
  /\ Arrives(s)
  /\ \E u \in Users : Cardinality(conns[u]) >= MaxConns
  /\ handler' = [handler EXCEPT ![s] = "refused"]
  /\ UNCHANGED <<recipient, feed, redis, hubVars, user, hungUp, loop, wire, buf, seen, since>>

(* rdb.Subscribe has sent SUBSCRIBE and the loop is started; the handler   *)
(* has its channel before Redis has confirmed anything, and events         *)
(* published until then are among those that are lost.                     *)
StartLoop(s) ==
  /\ handler[s] = "subscribing"
  /\ handler' = [handler EXCEPT ![s] = "streaming"]
  /\ loop' = [loop EXCEPT ![s] = "running"]
  /\ UNCHANGED <<recipient, feed, redis, hubVars, user, hungUp, wire, buf, seen, since>>

(***************************************************************************)
(* The loop of a subscription.                                             *)
(***************************************************************************)

(* Faulty variant: a message is acknowledged late and may be taken twice.  *)
ForwardAgain(s) ==
  /\ loop[s] = "running"
  /\ wire[s] # <<>>
  /\ wire' \in {wire, [wire EXCEPT ![s] = Tail(@)]}
  /\ buf' = [buf EXCEPT ![s] = IF Len(@) < ChanBuf THEN Append(@, Head(wire[s])) ELSE @]
  /\ UNCHANGED <<recipient, feed, redis, hubVars, user, hungUp, handler, loop, seen, since>>

(* A message of Redis is put in the channel, or dropped when the channel   *)
(* is full.                                                                *)
Forward(s) ==
  /\ loop[s] = "running"
  /\ wire[s] # <<>>
  /\ wire' = [wire EXCEPT ![s] = Tail(@)]
  /\ buf' = [buf EXCEPT ![s] = IF Len(@) < ChanBuf THEN Append(@, Head(wire[s])) ELSE @]
  /\ UNCHANGED <<recipient, feed, redis, hubVars, user, hungUp, handler, loop, seen, since>>

LeaveLoop(s) ==
  /\ loop[s] = "running"
  /\ loop' = [loop EXCEPT ![s] = "leaving"]
  /\ wire' = [wire EXCEPT ![s] = <<>>]
  /\ UNCHANGED <<recipient, feed, redis, hubVars, user, hungUp, handler, buf, seen, since>>

(* Faulty variant: the loop does not watch h.done.                         *)
EndLoopByContext(s) == s \in cancelled /\ LeaveLoop(s)

(* The loop ends: its context is done or the hub is closing.  The Redis    *)
(* subscription and the channel are closed; what is in the channel can     *)
(* still be read.                                                          *)
EndLoop(s) == (s \in cancelled \/ hub # "open") /\ LeaveLoop(s)

(* The closed Redis client closes the subscription.                        *)
LoseRedis(s) ==
  /\ redis = "closed"
  /\ wire[s] = <<>>
  /\ LeaveLoop(s)

(* Faulty variant: the slot is not given back.                             *)
ReleaseNothing(s) ==
  /\ loop[s] = "leaving"
  /\ loop' = [loop EXCEPT ![s] = "ended"]
  /\ UNCHANGED <<recipient, feed, redis, hubVars, user, hungUp, handler, wire, buf, seen, since>>

(* Then, in its own critical section, the slot is given back.              *)
Release(s) ==
  /\ loop[s] = "leaving"
  /\ loop' = [loop EXCEPT ![s] = "ended"]
  /\ conns' = [conns EXCEPT ![user[s]] = @ \ {s}]
  /\ UNCHANGED <<recipient, feed, redis, hub, cancelled, hungUp, user, handler, wire, buf,
                 seen, since>>

(***************************************************************************)
(* The SSE handler and its client.                                         *)
(***************************************************************************)

(* The next event of the channel is written to the client.                 *)
Deliver(s) ==
  /\ handler[s] = "streaming"
  /\ buf[s] # <<>>
  /\ seen' = [seen EXCEPT ![s] = Append(@, Head(buf[s]))]
  /\ buf' = [buf EXCEPT ![s] = Tail(@)]
  /\ UNCHANGED <<recipient, feed, redis, hubVars, user, hungUp, handler, loop, wire, since>>

(* The client closes the connection: the context of the request, and with  *)
(* it the one of the subscription, is done.                                *)
Disconnect(s) ==
  /\ handler[s] \in {"subscribing", "streaming"}
  /\ hungUp' = hungUp \cup {s}
  /\ cancelled' = cancelled \cup {s}
  /\ UNCHANGED <<recipient, feed, redis, conns, hub, user, handler, loop, wire, buf,
                 seen, since>>

(* The handler returns: its context is done, or the channel is closed and  *)
(* empty.  The server cancels the context of a request that has returned,  *)
(* and the deferred cancel ends the loop.                                  *)
Leave(s) ==
  /\ handler[s] = "streaming"
  /\ s \in hungUp \/ (buf[s] = <<>> /\ loop[s] \in {"leaving", "ended"})
  /\ handler' = [handler EXCEPT ![s] = "gone"]
  /\ hungUp' = hungUp \cup {s}
  /\ cancelled' = cancelled \cup {s}
  /\ UNCHANGED <<recipient, feed, redis, conns, hub, user, loop, wire, buf, seen, since>>

(* A write to the client fails, of the first bytes, a heartbeat or an      *)
(* event: the handler returns.                                             *)
WriteFails(s) ==
  /\ handler[s] = "streaming"
  /\ handler' = [handler EXCEPT ![s] = "gone"]
  /\ hungUp' = hungUp \cup {s}
  /\ cancelled' = cancelled \cup {s}
  /\ UNCHANGED <<recipient, feed, redis, conns, hub, user, loop, wire, buf, seen, since>>

(***************************************************************************)
(* The end of the process: rdb.Close, then hub.Close.  When it comes is    *)
(* the matter of ServerLife.                                               *)
(***************************************************************************)

CloseRedis ==
  /\ redis = "up"
  /\ redis' = "closed"
  /\ UNCHANGED <<recipient, feed, hubVars, streamVars>>

CloseDone ==
  /\ hub = "open"
  /\ redis = "closed"
  /\ hub' = "closing"
  /\ UNCHANGED <<recipient, feed, redis, conns, cancelled, streamVars>>

CloseConns ==
  /\ hub = "closing"
  /\ hub' = "closed"
  /\ cancelled' = cancelled \cup UNION {conns[u] : u \in Users}
  /\ conns' = [u \in Users |-> {}]
  /\ UNCHANGED <<recipient, feed, redis, streamVars>>

(***************************************************************************)
(* The steps by who takes them.                                            *)
(***************************************************************************)

(* Faulty variant: the loop waits for room in the channel, where it cannot  *)
(* see that it should end.                                                 *)
LoopWaiting(s) ==
  \/ Forward(s) /\ Len(buf[s]) < ChanBuf
  \/ EndLoop(s) /\ (wire[s] = <<>> \/ Len(buf[s]) < ChanBuf)
  \/ Release(s)

Loop(s) == Forward(s) \/ EndLoop(s) \/ Release(s)

Handler(s) == StartLoop(s) \/ Leave(s)

(* A stream request that reaches the handler.                              *)
OpeningNext == \E s \in Streams : Subscribe(s) \/ TooManyStreams(s)

(* The streams that are open, their clients and Redis.                     *)
StreamingNext ==
  \E s \in Streams : \/ Loop(s) \/ LoseRedis(s) \/ Handler(s)
                     \/ Deliver(s) \/ Disconnect(s) \/ WriteFails(s)

(***************************************************************************)
(* Properties.                                                             *)
(***************************************************************************)

(* A stream between its registration and the end of its goroutine.         *)
Live(s) == handler[s] = "subscribing" \/ loop[s] \in {"running", "leaving"}

(* The slots of a user are exactly its streams with a goroutine (or about  *)
(* to have one): no slot leaks, none is given back early, so Redis         *)
(* subscriptions per user stay within maxConnsPerUser.  After Close has    *)
(* taken the slots away the streams that lost theirs are cancelled, and    *)
(* those that subscribe to the closed hub have one like any other.         *)
SlotsAreLiveStreams ==
  \A u \in Users :
    /\ \A s \in conns[u] : user[s] = u /\ Live(s)
    /\ \A s \in Streams : user[s] = u /\ Live(s) =>
         s \in conns[u] \/ (hub = "closed" /\ s \in cancelled)
    /\ Cardinality(conns[u]) <= MaxConns

Feed == INSTANCE EventFeed
          WITH recipient <- recipient, feed <- feed, user <- user, since <- since, seen <- seen

(* The hub gives every stream what EventFeed promises: stored              *)
(* notifications of its own user, in the order in which Redis executed     *)
(* their publications, each execution at most once, none from before the   *)
(* stream was opened.  Nothing but a resent PUBLISH repeats an event.      *)
ImplementsFeed == Feed!FeedSpec

(* The stream of a client that is gone ends, however full its channel is   *)
(* and whatever the other clients do, and so does every stream when the    *)
(* hub is closed, those that were being opened while Close ran and those   *)
(* of late requests, which subscribe when it has returned, included.  With *)
(* SlotsAreLiveStreams: the slot comes back.                               *)
StreamsEnd ==
  \A s \in Streams : (s \in cancelled \/ hub = "closed") /\ Live(s) ~> loop[s] = "ended"
=============================================================================

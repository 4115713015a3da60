--------------------------- MODULE ServerLifeProofs ---------------------------
(***************************************************************************)
(* Proofs about ServerLife and the NotifyHub in it, for any accounts,      *)
(* streams, notifications and requests and any size of the channels.       *)
(*                                                                         *)
(* Stages ties the handler, the loop and the user of a stream, Slots is    *)
(* SlotsAreLiveStreams with the finiteness its cardinalities need, Closing *)
(* says what main() has waited for before it closes anything, and Lanes    *)
(* follows an event through a stream: what is shown, in the channel and on *)
(* the wire are events of the feed since the stream was opened, in the     *)
(* order of the feed.  Inv, their conjunction, is inductive.               *)
(***************************************************************************)
EXTENDS ServerLife, SequenceTheorems, FiniteSetTheorems, TLAPS

StageOf(s) ==
  /\ handler[s] = "idle" => user[s] = None /\ loop[s] = "none" /\ wire[s] = <<>> /\ buf[s] = <<>>
                              /\ seen[s] = <<>>
  /\ handler[s] \in {"subscribing", "refused"} => loop[s] = "none"
  /\ handler[s] \in {"subscribing", "streaming"} \/ loop[s] # "none" => user[s] \in Users
  /\ handler[s] = "refused" => user[s] = None
  /\ user[s] = None => wire[s] = <<>> /\ buf[s] = <<>> /\ seen[s] = <<>>

Stages == \A s \in Streams : StageOf(s)

Holders(u) == {s \in Streams : user[s] = u /\ Live(s)}

SlotsOf(u) ==
  /\ IsFiniteSet(conns[u]) /\ Cardinality(conns[u]) <= MaxConns
  /\ conns[u] \subseteq Holders(u)
  /\ \A s \in Holders(u) : s \in conns[u] \/ (hub = "closed" /\ s \in cancelled)

Slots == \A u \in Users : SlotsOf(u)

AllGone == running = {} /\ \A s \in Streams : handler[s] \in {"idle", "gone", "refused"}

Closing ==
  /\ hub # "open" => redis = "closed"
  /\ redis = "closed" => main \in {"drained", "timedOut"}
  /\ main = "drained" => AllGone

(* An event is in the feed of the user of its notification, once.          *)
FeedOnce ==
  /\ \A u \in Users : \A i \in 1 .. Len(feed[u]) : recipient[feed[u][i][1]] = u
  /\ \A u \in Users : \A i, j \in 1 .. Len(feed[u]) : feed[u][i] = feed[u][j] => i = j
  /\ \A s \in Streams : user[s] \in Users => since[s] <= Len(feed[user[s]])

(* n is in f after the place from, n comes before m wherever both are.     *)
In(f, from, n) == \E i \in 1 .. Len(f) : from < i /\ f[i] = n
Before(f, n, m) == \A i, j \in 1 .. Len(f) : f[i] = n /\ f[j] = m => i < j

Sorted(f, from, q) ==
  /\ \A k \in 1 .. Len(q) : In(f, from, q[k])
  /\ \A k, l \in 1 .. Len(q) : k < l => Before(f, q[k], q[l])
Follows(f, q, p) == \A k \in 1 .. Len(p), l \in 1 .. Len(q) : Before(f, p[k], q[l])

Lane(f, from, shown, chan, sent) ==
  /\ Sorted(f, from, shown) /\ Sorted(f, from, chan) /\ Sorted(f, from, sent)
  /\ Follows(f, chan, shown) /\ Follows(f, sent, shown) /\ Follows(f, sent, chan)

LaneOf(s) == user[s] \in Users => Lane(feed[user[s]], since[s], seen[s], buf[s], wire[s])
Lanes == \A s \in Streams : LaneOf(s)

Inv == LifeTypeOK /\ Stages /\ Slots /\ Closing /\ FeedOnce /\ Lanes

LEMMA InitInv == LifeInit => Inv
<1> SUFFICES ASSUME LifeInit PROVE Inv
  OBVIOUS
<1>1. LifeTypeOK
  BY NotifyHubAssumption DEF NotifyHubAssumption, LifeInit, Init, LifeTypeOK, TypeOK
<1>2. Stages /\ Closing /\ Lanes
  BY NotifyHubAssumption
     DEF NotifyHubAssumption, LifeInit, Init, Stages, StageOf, Closing, Lanes, LaneOf
<1>3. Slots
  BY FS_EmptySet, NotifyHubAssumption DEF NotifyHubAssumption, LifeInit, Init, Slots, SlotsOf, Holders, Live
<1>4. FeedOnce
  BY DEF LifeInit, Init, FeedOnce
<1> QED
  BY <1>1, <1>2, <1>3, <1>4 DEF Inv

(***************************************************************************)
(* The steps, one by one.                                                  *)
(***************************************************************************)

RequestStep == \E r \in Requests : BeginRequest(r) \/ EndRequest(r)
MainStep == Signal \/ ShutdownReturns \/ ShutdownTimesOut
CloseStep == main \in {"drained", "timedOut"} /\ (CloseRedis \/ CloseDone \/ CloseConns)
NotificationStep ==
  \E n \in Notifications : Insert(n) \/ \E k \in 1..MaxSends : Publish(n, k)
OpenStep(s) == Accepts /\ (Subscribe(s) \/ TooManyStreams(s))
ServeStep(s) ==
  \/ StartLoop(s) \/ Forward(s) \/ LeaveLoop(s) \/ Release(s)
  \/ Leave(s) \/ Deliver(s) \/ Disconnect(s) \/ WriteFails(s)

LEMMA Steps ==
  ASSUME [LifeNext]_lifeVars
  PROVE  \/ UNCHANGED lifeVars
         \/ RequestStep \/ MainStep
         \/ CloseStep /\ UNCHANGED mainVars
         \/ NotificationStep /\ running # {} /\ UNCHANGED mainVars
         \/ \E s \in Streams : (OpenStep(s) \/ ServeStep(s)) /\ UNCHANGED mainVars
BY DEF LifeNext, RequestStep, MainStep, CloseStep, NotificationStep, OpenStep, ServeStep, Main,
       Close, CreateNotification, OpeningNext, StreamingNext, Loop, Handler, EndLoop, LoseRedis

(***************************************************************************)
(* Types.                                                                  *)
(***************************************************************************)

LEMMA TypesHold == LifeTypeOK /\ Stages /\ [LifeNext]_lifeVars => LifeTypeOK'
<1> SUFFICES ASSUME LifeTypeOK, Stages, [LifeNext]_lifeVars PROVE LifeTypeOK'
  OBVIOUS
<1>0. Accounts \subseteq Users
  BY DEF Accounts
<1>1. CASE UNCHANGED lifeVars
  BY <1>1 DEF lifeVars, vars, mainVars, LifeTypeOK, TypeOK
<1>2. CASE RequestStep \/ MainStep
  BY <1>2 DEF RequestStep, MainStep, BeginRequest, EndRequest, Signal, ShutdownReturns,
              ShutdownTimesOut, vars, LifeTypeOK, TypeOK
<1>3. CASE CloseStep /\ UNCHANGED mainVars
  BY <1>3 DEF CloseStep, CloseRedis, CloseDone, CloseConns, hubVars, streamVars, mainVars,
              LifeTypeOK, TypeOK
<1>4. ASSUME NEW n \in Notifications, Insert(n), UNCHANGED mainVars PROVE LifeTypeOK'
  <2>1. PICK u \in Users : recipient' = [recipient EXCEPT ![n] = u]
    BY <1>0, <1>4 DEF Insert
  <2>2. recipient' \in [Notifications -> Users \cup {None}]
    BY <2>1 DEF LifeTypeOK, TypeOK
  <2> QED
    BY <1>4, <2>2 DEF Insert, hubVars, streamVars, mainVars, LifeTypeOK, TypeOK
<1>5. ASSUME NEW n \in Notifications, NEW k \in 1..MaxSends, Publish(n, k), UNCHANGED mainVars PROVE LifeTypeOK'
  <2>1. feed' \in [Users -> Seq(Events)]
    <3>1. recipient[n] \in Users /\ feed' = [feed EXCEPT ![recipient[n]] = Append(@, <<n, k>>)]
      BY <1>5 DEF Publish, LifeTypeOK, TypeOK
    <3>2. Append(feed[recipient[n]], <<n, k>>) \in Seq(Events)
      BY <3>1 DEF Events, LifeTypeOK, TypeOK
    <3> QED
      BY <3>1, <3>2 DEF LifeTypeOK, TypeOK
  <2>2. wire' \in [Streams -> Seq(Events)]
    <3>1. PICK got :
            wire' = [s \in Streams |-> IF s \in got THEN Append(wire[s], <<n, k>>) ELSE wire[s]]
      BY <1>5 DEF Publish
    <3>2. <<n, k>> \in Events
      BY DEF Events
    <3> QED
      BY <3>1, <3>2 DEF LifeTypeOK, TypeOK
  <2> QED
    BY <1>5, <2>1, <2>2 DEF Publish, hubVars, mainVars, LifeTypeOK, TypeOK
<1>6. ASSUME NEW s \in Streams, OpenStep(s), UNCHANGED mainVars PROVE LifeTypeOK'
  <2>1. CASE Subscribe(s)
    <3>1. PICK u \in Users : /\ conns' = [conns EXCEPT ![u] = @ \cup {s}]
                             /\ user' = [user EXCEPT ![s] = u]
                             /\ since' = [since EXCEPT ![s] = Len(feed[u])]
      BY <1>0, <2>1 DEF Subscribe
    <3>2. Len(feed[u]) \in Nat
      BY DEF LifeTypeOK, TypeOK
    <3>3. conns' \in [Users -> SUBSET Streams]
      BY <3>1 DEF LifeTypeOK, TypeOK
    <3>4. user' \in [Streams -> Users \cup {None}] /\ since' \in [Streams -> Nat]
      BY <3>1, <3>2 DEF LifeTypeOK, TypeOK
    <3> QED
      BY <1>6, <2>1, <3>3, <3>4 DEF Subscribe, mainVars, LifeTypeOK, TypeOK
  <2>2. CASE TooManyStreams(s)
    BY <1>6, <2>2 DEF TooManyStreams, hubVars, mainVars, LifeTypeOK, TypeOK
  <2> QED
    BY <1>6, <2>1, <2>2 DEF OpenStep
<1>7. ASSUME NEW s \in Streams, ServeStep(s), UNCHANGED mainVars PROVE LifeTypeOK'
  <2>1. CASE StartLoop(s)
    BY <1>7, <2>1 DEF StartLoop, hubVars, mainVars, LifeTypeOK, TypeOK
  <2>2. CASE Forward(s)
    <3>1. wire[s] \in Seq(Events) /\ wire[s] # <<>> /\ buf[s] \in Seq(Events)
      BY <2>2 DEF Forward, LifeTypeOK, TypeOK
    <3>2. Tail(wire[s]) \in Seq(Events) /\ Head(wire[s]) \in Events
      BY <3>1
    <3> DEFINE chan == IF Len(buf[s]) < ChanBuf THEN Append(buf[s], Head(wire[s])) ELSE buf[s]
    <3>3. chan \in Seq(Events) /\ Len(chan) <= ChanBuf
      BY <3>1, <3>2, NotifyHubAssumption DEF NotifyHubAssumption, LifeTypeOK, TypeOK
    <3>4. wire' = [wire EXCEPT ![s] = Tail(wire[s])] /\ buf' = [buf EXCEPT ![s] = chan]
      BY <2>2 DEF Forward
    <3> HIDE DEF chan
    <3>5. wire' \in [Streams -> Seq(Events)]
      BY <3>2, <3>4 DEF LifeTypeOK, TypeOK
    <3>6. buf' \in [Streams -> Seq(Events)] /\ \A t \in Streams : Len(buf'[t]) <= ChanBuf
      BY <3>3, <3>4 DEF LifeTypeOK, TypeOK
    <3> QED
      BY <1>7, <2>2, <3>5, <3>6 DEF Forward, hubVars, mainVars, LifeTypeOK, TypeOK
  <2>3. CASE LeaveLoop(s)
    <3>1. wire' \in [Streams -> Seq(Events)]
      <4>1. <<>> \in Seq(Events)
        OBVIOUS
      <4> QED
        BY <2>3, <4>1 DEF LeaveLoop, LifeTypeOK, TypeOK
    <3>2. loop' \in [Streams -> {"none", "running", "leaving", "ended"}]
      BY <2>3 DEF LeaveLoop, LifeTypeOK, TypeOK
    <3> QED
      BY <1>7, <2>3, <3>1, <3>2 DEF LeaveLoop, hubVars, mainVars, LifeTypeOK, TypeOK
  <2>4. CASE Release(s)
    <3>1. user[s] \in Users
      BY <2>4 DEF Release, Stages, StageOf
    <3> QED
      BY <1>7, <2>4, <3>1 DEF Release, mainVars, LifeTypeOK, TypeOK
  <2>5. CASE Deliver(s)
    <3>1. buf[s] \in Seq(Events) /\ buf[s] # <<>> /\ seen[s] \in Seq(Events)
      BY <2>5 DEF Deliver, LifeTypeOK, TypeOK
    <3>2. /\ Tail(buf[s]) \in Seq(Events) /\ Len(Tail(buf[s])) <= Len(buf[s])
          /\ Append(seen[s], Head(buf[s])) \in Seq(Events)
      BY <3>1
    <3>3. Len(Tail(buf[s])) <= ChanBuf
      <4>1. Len(buf[s]) <= ChanBuf /\ Len(buf[s]) \in Nat /\ Len(Tail(buf[s])) \in Nat
        BY <3>1, <3>2 DEF LifeTypeOK, TypeOK
      <4> QED
        BY <3>2, <4>1, NotifyHubAssumption DEF NotifyHubAssumption
    <3> QED
      BY <1>7, <2>5, <3>2, <3>3 DEF Deliver, hubVars, mainVars, LifeTypeOK, TypeOK
  <2>6. CASE Leave(s) \/ Disconnect(s) \/ WriteFails(s)
    BY <1>7, <2>6 DEF Leave, Disconnect, WriteFails, hubVars, mainVars, LifeTypeOK, TypeOK
  <2> QED
    BY <1>7, <2>1, <2>2, <2>3, <2>4, <2>5, <2>6 DEF ServeStep
<1> QED
  BY <1>1, <1>2, <1>3, <1>4, <1>5, <1>6, <1>7, Steps DEF NotificationStep

(***************************************************************************)
(* Streams and slots.                                                      *)
(***************************************************************************)

(* A step of a stream leaves the other streams alone.                      *)
LEMMA OneStream ==
  ASSUME LifeTypeOK, NEW s \in Streams, OpenStep(s) \/ ServeStep(s), NEW t \in Streams, t # s
  PROVE  /\ handler'[t] = handler[t] /\ loop'[t] = loop[t] /\ user'[t] = user[t]
         /\ wire'[t] = wire[t] /\ buf'[t] = buf[t] /\ seen'[t] = seen[t] /\ since'[t] = since[t]
<1>1. CASE OpenStep(s)
  BY <1>1 DEF OpenStep, Subscribe, TooManyStreams, LifeTypeOK, TypeOK
<1>2. CASE StartLoop(s) \/ LeaveLoop(s) \/ Release(s)
  BY <1>2 DEF StartLoop, LeaveLoop, Release, streamVars, LifeTypeOK, TypeOK
<1>3. CASE Forward(s) \/ Deliver(s)
  BY <1>3 DEF Forward, Deliver, LifeTypeOK, TypeOK
<1>4. CASE Leave(s) \/ Disconnect(s) \/ WriteFails(s)
  BY <1>4 DEF Leave, Disconnect, WriteFails, LifeTypeOK, TypeOK
<1> QED
  BY <1>1, <1>2, <1>3, <1>4 DEF ServeStep

(* Requests, main() and the closing of Redis and the hub leave the streams *)
(* alone.                                                                  *)
LEMMA NoStream ==
  ASSUME UNCHANGED lifeVars \/ RequestStep \/ MainStep \/ CloseStep
  PROVE  UNCHANGED <<recipient, feed, streamVars>>
BY DEF lifeVars, vars, RequestStep, MainStep, CloseStep, BeginRequest, EndRequest, Signal,
       ShutdownReturns, ShutdownTimesOut, CloseRedis, CloseDone, CloseConns, streamVars

LEMMA StagesHold == Inv /\ [LifeNext]_lifeVars => Stages'
<1> SUFFICES ASSUME Inv, [LifeNext]_lifeVars PROVE Stages'
  OBVIOUS
<1>1. CASE UNCHANGED lifeVars \/ RequestStep \/ MainStep \/ CloseStep
  BY <1>1, NoStream DEF streamVars, Inv, Stages, StageOf
<1>2. ASSUME NEW n \in Notifications, Insert(n) PROVE Stages'
  BY <1>2 DEF Insert, streamVars, Inv, Stages, StageOf
<1>3. ASSUME NEW n \in Notifications, NEW k \in 1..MaxSends, Publish(n, k) PROVE Stages'
  <2>1. PICK got \in SUBSET {s \in Streams : user[s] = recipient[n] /\ loop[s] = "running"} :
          wire' = [s \in Streams |-> IF s \in got THEN Append(wire[s], <<n, k>>) ELSE wire[s]]
    BY <1>3 DEF Publish
  <2>2. recipient[n] # None
    BY <1>3 DEF Publish
  <2>3. \A s \in Streams : s \notin got => wire'[s] = wire[s]
    BY <2>1
  <2>4. \A s \in Streams : s \in got => loop[s] = "running" /\ user[s] # None
    BY <2>2
  <2> QED
    BY <1>3, <2>3, <2>4 DEF Publish, hubVars, Inv, Stages, StageOf
<1>4. ASSUME NEW s \in Streams, OpenStep(s) \/ ServeStep(s) PROVE Stages'
  <2>1. ASSUME NEW t \in Streams, t # s PROVE StageOf(t)'
    BY <1>4, <2>1, OneStream DEF Inv, Stages, StageOf
  <2>2. StageOf(s)'
    <3>0. StageOf(s) /\ handler \in [Streams -> {"idle", "subscribing", "streaming", "gone", "refused"}]
          /\ loop \in [Streams -> {"none", "running", "leaving", "ended"}]
      BY DEF Inv, Stages, LifeTypeOK, TypeOK
    <3>1. CASE Subscribe(s)
      <4>1. PICK u \in Users : user' = [user EXCEPT ![s] = u]
        BY <3>1 DEF Subscribe, Accounts
      <4>2. user'[s] \in Users
        BY <4>1 DEF Inv, LifeTypeOK, TypeOK
      <4> QED
        BY <3>0, <3>1, <4>2, NotifyHubAssumption
           DEF NotifyHubAssumption, Subscribe, Arrives, StageOf
    <3>2. CASE TooManyStreams(s)
      BY <3>0, <3>2 DEF TooManyStreams, Arrives, StageOf
    <3>3. CASE StartLoop(s) \/ LeaveLoop(s) \/ Release(s)
      BY <3>0, <3>3, NotifyHubAssumption
         DEF NotifyHubAssumption, StartLoop, LeaveLoop, Release, streamVars, StageOf, Inv,
             LifeTypeOK, TypeOK
    <3>4. CASE Forward(s) \/ Deliver(s)
      BY <3>0, <3>4, NotifyHubAssumption DEF NotifyHubAssumption, Forward, Deliver, StageOf
    <3>5. CASE Leave(s) \/ Disconnect(s) \/ WriteFails(s)
      BY <3>0, <3>5 DEF Leave, Disconnect, WriteFails, StageOf
    <3> QED
      BY <1>4, <3>1, <3>2, <3>3, <3>4, <3>5 DEF OpenStep, ServeStep
  <2> QED
    BY <2>1, <2>2 DEF Stages
<1> QED
  BY <1>1, <1>2, <1>3, <1>4, Steps DEF NotificationStep

LEMMA SlotsHold == Inv /\ [LifeNext]_lifeVars => Slots'
<1> SUFFICES ASSUME Inv, [LifeNext]_lifeVars PROVE Slots'
  OBVIOUS
<1>1. CASE UNCHANGED lifeVars \/ RequestStep \/ MainStep \/ (CloseStep /\ ~CloseConns)
  <2>1. UNCHANGED <<recipient, feed, streamVars>>
    BY <1>1, NoStream
  <2>2. conns' = conns /\ cancelled' = cancelled /\ (hub = "closed" => hub' = "closed")
    BY <1>1 DEF lifeVars, vars, RequestStep, MainStep, CloseStep, BeginRequest, EndRequest,
       Signal, ShutdownReturns, ShutdownTimesOut, CloseRedis, CloseDone, hubVars
  <2>3. \A u \in Users : Holders(u)' = Holders(u)
    BY <2>1 DEF streamVars, Holders, Live
  <2> QED
    BY <2>2, <2>3 DEF Inv, Slots, SlotsOf
<1>2. CASE CloseConns
  <2>1. \A u \in Users : conns'[u] = {} /\ conns[u] \subseteq cancelled'
    BY <1>2 DEF CloseConns
  <2>2. hub' = "closed" /\ cancelled \subseteq cancelled'
    BY <1>2 DEF CloseConns
  <2>3. IsFiniteSet({}) /\ Cardinality({}) <= MaxConns
    BY FS_EmptySet, NotifyHubAssumption DEF NotifyHubAssumption
  <2>4. \A u \in Users : Holders(u)' = Holders(u)
    BY <1>2 DEF CloseConns, streamVars, Holders, Live
  <2>5. \A u \in Users : \A s \in Holders(u) : s \in cancelled'
    BY <2>1, <2>2 DEF Inv, Slots, SlotsOf
  <2> QED
    BY <2>1, <2>2, <2>3, <2>4, <2>5 DEF Slots, SlotsOf
<1>3. CASE NotificationStep
  <2>1. UNCHANGED <<hubVars, user, handler, loop>>
    BY <1>3 DEF NotificationStep, Insert, Publish, streamVars
  <2>2. \A u \in Users : Holders(u)' = Holders(u)
    BY <2>1 DEF Holders, Live
  <2> QED
    BY <2>1, <2>2 DEF hubVars, Inv, Slots, SlotsOf
<1>4. ASSUME NEW s \in Streams, OpenStep(s) \/ ServeStep(s) PROVE Slots'
  <2>0. \A t \in Streams : t # s => user'[t] = user[t] /\ (Live(t)' <=> Live(t))
    BY <1>4, OneStream DEF Live, Inv
  <2>1. StageOf(s) /\ handler \in [Streams -> {"idle", "subscribing", "streaming", "gone", "refused"}]
        /\ loop \in [Streams -> {"none", "running", "leaving", "ended"}]
        /\ user \in [Streams -> Users \cup {None}]
    BY DEF Inv, Stages, LifeTypeOK, TypeOK
  <2>2. cancelled \subseteq cancelled' /\ hub' = hub
    BY <1>4 DEF OpenStep, ServeStep, Subscribe, TooManyStreams, StartLoop, Forward, LeaveLoop,
       Release, Leave, Deliver, Disconnect, WriteFails, hubVars
  <2>3. CASE Subscribe(s)
    <3>1. PICK u \in Users : /\ Cardinality(conns[u]) < MaxConns
                             /\ conns' = [conns EXCEPT ![u] = @ \cup {s}]
                             /\ user' = [user EXCEPT ![s] = u]
      BY <2>3 DEF Subscribe, Accounts
    <3>2. /\ user[s] = None /\ user'[s] = u /\ Live(s)' /\ hub' = hub
      BY <2>1, <2>3, <3>1 DEF Subscribe, Arrives, StageOf, Live
    <3>3. ASSUME NEW v \in Users, v # u PROVE SlotsOf(v)'
      <4>1. conns'[v] = conns[v]
        BY <3>1, <3>3 DEF Inv, LifeTypeOK, TypeOK
      <4>2. Holders(v)' = Holders(v)
        BY <2>0, <3>2, <3>3, NotifyHubAssumption DEF NotifyHubAssumption, Holders
      <4> QED
        BY <2>2, <4>1, <4>2 DEF Inv, Slots, SlotsOf
    <3>4. SlotsOf(u)'
      <4>1. conns'[u] = conns[u] \cup {s} /\ IsFiniteSet(conns[u])
        BY <3>1 DEF Inv, LifeTypeOK, TypeOK, Slots, SlotsOf
      <4>2. Holders(u)' = Holders(u) \cup {s}
        BY <2>0, <3>2 DEF Holders
      <4>3. IsFiniteSet(conns'[u]) /\ Cardinality(conns'[u]) <= MaxConns
        <5>1. /\ Cardinality(conns[u]) \in Nat /\ IsFiniteSet(conns[u] \cup {s})
              /\ \/ Cardinality(conns[u] \cup {s}) = Cardinality(conns[u])
                 \/ Cardinality(conns[u] \cup {s}) = Cardinality(conns[u]) + 1
          BY <4>1, FS_AddElement, FS_CardinalityType
        <5>2. Cardinality(conns[u] \cup {s}) <= MaxConns
          <6>1. MaxConns \in Nat
            BY NotifyHubAssumption DEF NotifyHubAssumption
          <6>2. \A before \in Nat : before < MaxConns => before <= MaxConns /\ before + 1 <= MaxConns
            BY <6>1
          <6>3. Cardinality(conns[u]) <= MaxConns /\ Cardinality(conns[u]) + 1 <= MaxConns
            BY <3>1, <5>1, <6>2
          <6> QED
            BY <5>1, <6>3
        <5> QED
          BY <4>1, <5>1, <5>2
      <4> QED
        BY <2>2, <4>1, <4>2, <4>3 DEF Inv, Slots, SlotsOf
    <3> QED
      BY <3>3, <3>4 DEF Slots
  <2>4. CASE Release(s)
    <3>0. PICK u \in Users : u = user[s]
      BY <2>1, <2>4 DEF Release, StageOf
    <3>1. /\ u \in Users /\ user' = user /\ ~Live(s)' /\ hub' = hub
          /\ conns' = [conns EXCEPT ![u] = @ \ {s}]
      BY <2>1, <2>4, <3>0 DEF Release, StageOf, Live
    <3>2. ASSUME NEW v \in Users, v # u PROVE SlotsOf(v)'
      <4>1. conns'[v] = conns[v]
        BY <3>1, <3>2 DEF Inv, LifeTypeOK, TypeOK
      <4>2. Holders(v)' = Holders(v)
        BY <2>0, <3>0, <3>1, <3>2 DEF Holders
      <4> QED
        BY <2>2, <4>1, <4>2 DEF Inv, Slots, SlotsOf
    <3>3. SlotsOf(u)'
      <4>1. conns'[u] = conns[u] \ {s} /\ IsFiniteSet(conns[u])
        BY <3>1 DEF Inv, LifeTypeOK, TypeOK, Slots, SlotsOf
      <4>2. Holders(u)' = Holders(u) \ {s}
        BY <2>0, <3>0, <3>1 DEF Holders
      <4>3. IsFiniteSet(conns'[u]) /\ Cardinality(conns'[u]) <= MaxConns
        <5>1. /\ Cardinality(conns[u]) \in Nat /\ IsFiniteSet(conns[u] \ {s})
              /\ Cardinality(conns[u] \ {s}) \in Nat
              /\ Cardinality(conns[u] \ {s}) <= Cardinality(conns[u])
          BY <4>1, FS_Subset, FS_CardinalityType
        <5>2. Cardinality(conns[u]) <= MaxConns
          BY <3>1 DEF Inv, Slots, SlotsOf
        <5> QED
          BY <4>1, <5>1, <5>2, NotifyHubAssumption DEF NotifyHubAssumption
      <4> QED
        BY <2>2, <4>1, <4>2, <4>3 DEF Inv, Slots, SlotsOf
    <3> QED
      BY <3>2, <3>3 DEF Slots
  <2>5. CASE ~Subscribe(s) /\ ~Release(s)
    <3>1. conns' = conns
      BY <1>4, <2>5 DEF OpenStep, ServeStep, TooManyStreams, StartLoop, Forward, LeaveLoop, Leave,
         Deliver, Disconnect, WriteFails, hubVars
    <3>2. user'[s] = user[s] /\ (Live(s)' <=> Live(s))
      <4>1. CASE TooManyStreams(s) \/ StartLoop(s) \/ LeaveLoop(s)
        BY <2>1, <4>1 DEF TooManyStreams, StartLoop, LeaveLoop, Arrives, StageOf, Live
      <4>2. CASE Forward(s) \/ Leave(s) \/ Deliver(s) \/ Disconnect(s) \/ WriteFails(s)
        BY <2>1, <4>2 DEF Forward, Leave, Deliver, Disconnect, WriteFails, StageOf, Live
      <4> QED
        BY <1>4, <2>5, <4>1, <4>2 DEF OpenStep, ServeStep
    <3>3. \A t \in Streams : user'[t] = user[t] /\ (Live(t)' <=> Live(t))
      BY <2>0, <3>2
    <3>4. \A u \in Users : Holders(u)' = Holders(u)
      BY <3>3 DEF Holders
    <3> QED
      BY <2>2, <3>1, <3>4 DEF Inv, Slots, SlotsOf
  <2> QED
    BY <2>3, <2>4, <2>5
<1> QED
  BY <1>1, <1>2, <1>3, <1>4, Steps

(***************************************************************************)
(* Closing.                                                                *)
(***************************************************************************)

LEMMA ClosingHolds == Inv /\ [LifeNext]_lifeVars => Closing'
<1> SUFFICES ASSUME Inv, [LifeNext]_lifeVars PROVE Closing'
  OBVIOUS
<1>1. CASE UNCHANGED lifeVars
  BY <1>1 DEF lifeVars, vars, mainVars, Inv, Closing, AllGone
<1>2. CASE RequestStep
  BY <1>2 DEF RequestStep, BeginRequest, EndRequest, Accepts, vars, Inv, Closing, AllGone
<1>3. CASE MainStep
  <2>1. NoHandlerOpen => AllGone
    BY DEF NoHandlerOpen, AllGone, Inv, LifeTypeOK, TypeOK
  <2> QED
    BY <1>3, <2>1 DEF MainStep, Signal, ShutdownReturns, ShutdownTimesOut, vars, Inv, Closing,
                      AllGone
<1>4. CASE CloseStep /\ UNCHANGED mainVars
  BY <1>4 DEF CloseStep, CloseRedis, CloseDone, CloseConns, hubVars, streamVars, mainVars, Inv,
              Closing, AllGone
<1>5. CASE NotificationStep /\ UNCHANGED mainVars
  BY <1>5 DEF NotificationStep, Insert, Publish, hubVars, streamVars, mainVars, Inv, Closing,
              AllGone
<1>6. ASSUME NEW s \in Streams, OpenStep(s) \/ ServeStep(s), UNCHANGED mainVars PROVE Closing'
  <2>1. hub' = hub /\ redis' = redis
    BY <1>6 DEF OpenStep, ServeStep, Subscribe, TooManyStreams, StartLoop, Forward, LeaveLoop,
       Release, Leave, Deliver, Disconnect, WriteFails, hubVars
  <2>2. main = "drained" /\ AllGone => AllGone'
    <3> SUFFICES ASSUME main = "drained", AllGone, NEW t \in Streams
                 PROVE  handler'[t] \in {"idle", "gone", "refused"}
      BY <1>6 DEF AllGone, mainVars
    <3>1. handler'[t] = handler[t] \/ handler'[t] = "gone"
      BY <1>6 DEF OpenStep, Accepts, ServeStep, StartLoop, Forward, LeaveLoop, Release, Leave,
         Deliver, Disconnect, WriteFails, streamVars, AllGone, Inv, LifeTypeOK, TypeOK
    <3> QED
      BY <3>1 DEF AllGone
  <2> QED
    BY <1>6, <2>1, <2>2 DEF mainVars, Inv, Closing
<1> QED
  BY <1>1, <1>2, <1>3, <1>4, <1>5, <1>6, Steps

(***************************************************************************)
(* The order of the events.                                                *)
(***************************************************************************)

(* A new event is after all others.                                        *)
LEMMA InAppend ==
  ASSUME NEW S, NEW f \in Seq(S), NEW n \in S, NEW from \in Nat,
         \A i \in 1 .. Len(f) : f[i] # n
  PROVE  /\ \A a : In(f, from, a) => In(Append(f, n), from, a) /\ Before(Append(f, n), a, n)
         /\ \A a, b : In(f, from, a) /\ In(f, from, b) /\ Before(f, a, b)
                        => Before(Append(f, n), a, b)
         /\ from <= Len(f) => In(Append(f, n), from, n)
<1> DEFINE g == Append(f, n)
<1>1. /\ Len(f) \in Nat /\ Len(g) = Len(f) + 1
      /\ \A i \in 1 .. Len(f) : g[i] = f[i]
      /\ g[Len(f) + 1] = n
  OBVIOUS
<1> HIDE DEF g
<1>2. ASSUME NEW a, In(f, from, a) PROVE In(g, from, a) /\ a # n
  BY <1>1, <1>2 DEF In
<1>3. ASSUME NEW a, a # n PROVE Before(g, a, n)
  BY <1>1, <1>3 DEF Before
<1>4. ASSUME NEW a, NEW b, a # n, b # n, Before(f, a, b) PROVE Before(g, a, b)
  BY <1>1, <1>4 DEF Before
<1>5. from <= Len(f) => In(g, from, n)
  BY <1>1 DEF In
<1> QED
  BY <1>2, <1>3, <1>4, <1>5 DEF g

LEMMA LaneFeed ==
  ASSUME NEW S, NEW f \in Seq(S), NEW n \in S, NEW from \in Nat,
         \A i \in 1 .. Len(f) : f[i] # n, from <= Len(f),
         NEW x \in Seq(S), NEW y \in Seq(S), NEW z \in Seq(S), Lane(f, from, x, y, z)
  PROVE  /\ Lane(Append(f, n), from, x, y, z)
         /\ Lane(Append(f, n), from, x, y, Append(z, n))
<1> DEFINE g == Append(f, n)
<1>1. /\ \A a : In(f, from, a) => In(g, from, a) /\ Before(g, a, n)
      /\ \A a, b : In(f, from, a) /\ In(f, from, b) /\ Before(f, a, b) => Before(g, a, b)
      /\ In(g, from, n)
  BY InAppend
<1> HIDE DEF g
<1>2. Lane(g, from, x, y, z)
  BY <1>1 DEF Lane, Sorted, Follows
<1>3. /\ Len(z) \in Nat /\ Len(Append(z, n)) = Len(z) + 1
      /\ \A k \in 1 .. Len(z) : Append(z, n)[k] = z[k]
      /\ Append(z, n)[Len(z) + 1] = n
  OBVIOUS
<1>4. \A k \in 1 .. Len(Append(z, n)) :
        \/ k \in 1 .. Len(z) /\ Append(z, n)[k] = z[k]
        \/ k = Len(z) + 1 /\ Append(z, n)[k] = n
  BY <1>3
<1>5. Sorted(g, from, Append(z, n))
  <2>1. \A k \in 1 .. Len(z) : In(g, from, z[k]) /\ Before(g, z[k], n)
    BY <1>1 DEF Lane, Sorted
  <2>2. \A k, l \in 1 .. Len(z) : k < l => Before(g, z[k], z[l])
    BY <1>2 DEF Lane, Sorted
  <2>3. ASSUME NEW k \in 1 .. Len(Append(z, n)), NEW l \in 1 .. Len(Append(z, n)), k < l
        PROVE  Before(g, Append(z, n)[k], Append(z, n)[l])
    <3>1. k \in 1 .. Len(z) /\ Append(z, n)[k] = z[k]
      BY <1>3, <1>4, <2>3
    <3> QED
      BY <1>4, <2>1, <2>2, <2>3, <3>1
  <2>4. \A k \in 1 .. Len(Append(z, n)) : In(g, from, Append(z, n)[k])
    BY <1>1, <1>4, <2>1
  <2> QED
    BY <2>3, <2>4 DEF Sorted
<1>6. ASSUME NEW q \in Seq(S), Follows(g, z, q), \A k \in 1 .. Len(q) : Before(g, q[k], n)
      PROVE  Follows(g, Append(z, n), q)
  BY <1>4, <1>6 DEF Follows
<1>7. /\ \A k \in 1 .. Len(x) : Before(g, x[k], n)
      /\ \A k \in 1 .. Len(y) : Before(g, y[k], n)
  BY <1>1 DEF Lane, Sorted
<1>8. Lane(g, from, x, y, Append(z, n))
  BY <1>2, <1>5, <1>6, <1>7 DEF Lane
<1> QED
  BY <1>2, <1>8 DEF g

(* The head of a queue goes to the end of the queue before it.             *)
LEMMA QueueMove ==
  ASSUME NEW S, NEW f, NEW from, NEW p \in Seq(S), NEW q \in Seq(S), q # <<>>,
         Sorted(f, from, p), Sorted(f, from, q), Follows(f, q, p)
  PROVE  /\ Sorted(f, from, Append(p, Head(q))) /\ Sorted(f, from, Tail(q))
         /\ Follows(f, Tail(q), p) /\ Follows(f, Tail(q), Append(p, Head(q)))
<1> DEFINE h == Head(q)
           t == Tail(q)
           e == Append(p, h)
<1>1. /\ Len(q) \in Nat \ {0} /\ Len(t) = Len(q) - 1 /\ h = q[1]
      /\ \A k \in 1 .. Len(t) : t[k] = q[k + 1]
  OBVIOUS
<1>2. /\ Len(p) \in Nat /\ Len(e) = Len(p) + 1
      /\ \A k \in 1 .. Len(p) : e[k] = p[k]
      /\ e[Len(p) + 1] = h
  OBVIOUS
<1> HIDE DEF h, t, e
<1>3. \A k \in 1 .. Len(t) : k + 1 \in 1 .. Len(q) /\ 1 < k + 1 /\ t[k] = q[k + 1]
  BY <1>1
<1>4. \A k \in 1 .. Len(e) : (k \in 1 .. Len(p) /\ e[k] = p[k]) \/ (k = Len(p) + 1 /\ e[k] = q[1])
  BY <1>1, <1>2
<1>5. 1 \in 1 .. Len(q)
  BY <1>1
<1>6. Sorted(f, from, t)
  <2>1. \A k \in 1 .. Len(t) : In(f, from, t[k])
    BY <1>3 DEF Sorted
  <2>2. ASSUME NEW k \in 1 .. Len(t), NEW l \in 1 .. Len(t), k < l PROVE Before(f, t[k], t[l])
    <3>1. k + 1 < l + 1
      BY <2>2
    <3> QED
      BY <1>3, <3>1 DEF Sorted
  <2> QED
    BY <2>1, <2>2 DEF Sorted
<1>7. Sorted(f, from, e)
  <2>1. \A k \in 1 .. Len(e) : In(f, from, e[k])
    BY <1>4, <1>5 DEF Sorted
  <2>2. ASSUME NEW k \in 1 .. Len(e), NEW l \in 1 .. Len(e), k < l PROVE Before(f, e[k], e[l])
    <3>1. k \in 1 .. Len(p) /\ e[k] = p[k]
      BY <1>2, <1>4, <2>2
    <3> QED
      BY <1>4, <1>5, <2>2, <3>1 DEF Sorted, Follows
  <2> QED
    BY <2>1, <2>2 DEF Sorted
<1>8. Follows(f, t, p)
  BY <1>3 DEF Follows
<1>9. Follows(f, t, e)
  BY <1>3, <1>4, <1>5 DEF Follows, Sorted
<1> QED
  BY <1>6, <1>7, <1>8, <1>9 DEF h, t, e

(* What is done to the queues keeps the order.                             *)
LEMMA LaneMoves ==
  ASSUME NEW S, NEW f, NEW from, NEW x \in Seq(S), NEW y \in Seq(S), NEW z \in Seq(S),
         Lane(f, from, x, y, z)
  PROVE  /\ Lane(f, from, x, y, <<>>)
         /\ y # <<>> => Lane(f, from, Append(x, Head(y)), Tail(y), z)
         /\ z # <<>> => /\ Lane(f, from, x, y, Tail(z))
                        /\ Lane(f, from, x, Append(y, Head(z)), Tail(z))
<1>1. Lane(f, from, x, y, <<>>)
  BY DEF Lane, Sorted, Follows
<1>2. ASSUME NEW p \in Seq(S), NEW q \in Seq(S), NEW r \in Seq(S), q # <<>>,
             Follows(f, q, r), Follows(f, p, r)
      PROVE  Follows(f, Append(p, Head(q)), r)
  <2>1. /\ \A k \in 1 .. Len(Append(p, Head(q))) :
             (k \in 1 .. Len(p) /\ Append(p, Head(q))[k] = p[k]) \/ Append(p, Head(q))[k] = q[1]
        /\ 1 \in 1 .. Len(q)
    BY <1>2
  <2> QED
    BY <1>2, <2>1 DEF Follows
<1>3. ASSUME NEW q \in Seq(S), NEW r \in Seq(S), q # <<>>, Follows(f, q, r)
      PROVE  Follows(f, Tail(q), r)
  <2>1. \A k \in 1 .. Len(Tail(q)) : k + 1 \in 1 .. Len(q) /\ Tail(q)[k] = q[k + 1]
    BY <1>3
  <2> QED
    BY <1>3, <2>1 DEF Follows
<1>4. ASSUME NEW q \in Seq(S), NEW r \in Seq(S), NEW t \in Seq(S), q # <<>>,
             Follows(f, t, q), Follows(f, t, r)
      PROVE  Follows(f, t, Append(r, Head(q))) /\ Follows(f, t, Tail(q))
  <2>1. /\ \A k \in 1 .. Len(Append(r, Head(q))) :
             (k \in 1 .. Len(r) /\ Append(r, Head(q))[k] = r[k]) \/ Append(r, Head(q))[k] = q[1]
        /\ 1 \in 1 .. Len(q)
        /\ \A k \in 1 .. Len(Tail(q)) : k + 1 \in 1 .. Len(q) /\ Tail(q)[k] = q[k + 1]
    BY <1>4
  <2> QED
    BY <1>4, <2>1 DEF Follows
<1>5. ASSUME y # <<>> PROVE Lane(f, from, Append(x, Head(y)), Tail(y), z)
  BY <1>4, <1>5, QueueMove DEF Lane
<1>6. ASSUME z # <<>>
      PROVE  Lane(f, from, x, y, Tail(z)) /\ Lane(f, from, x, Append(y, Head(z)), Tail(z))
  BY <1>2, <1>3, <1>6, QueueMove DEF Lane
<1> QED
  BY <1>1, <1>5, <1>6

(***************************************************************************)
(* The feed and the events of a stream.                                    *)
(***************************************************************************)

(* A publication appends to the feed of the account an event that is in    *)
(* none, and Redis forwards it to streams of the account.                  *)
Publishes(n, k) ==
  /\ recipient[n] \in Users /\ UNCHANGED <<recipient, user, since, seen, buf>>
  /\ <<n, k>> \in Events
  /\ feed'[recipient[n]] = Append(feed[recipient[n]], <<n, k>>)
  /\ \A u \in Users : /\ feed[u] \in Seq(Events)
                      /\ u # recipient[n] => feed'[u] = feed[u]
                      /\ \A i \in 1 .. Len(feed[u]) : feed[u][i] # <<n, k>>
  /\ \A s \in Streams :
       \/ wire'[s] = wire[s]
       \/ user[s] = recipient[n] /\ wire'[s] = Append(wire[s], <<n, k>>)

LEMMA PublishEffect ==
  ASSUME Inv, NEW n \in Notifications, NEW k \in 1..MaxSends, Publish(n, k)
  PROVE  Publishes(n, k)
<1>1. k \in 1..MaxSends /\ ~(k < k)
  BY NotifyHubAssumption DEF NotifyHubAssumption
<1>2. ~Published(<<n, k>>)
  BY <1>1 DEF Publish
<1> QED
  BY <1>2 DEF Publishes, Publish, Published, Events, hubVars, Inv, LifeTypeOK, TypeOK

LEMMA FeedHolds == Inv /\ [LifeNext]_lifeVars => FeedOnce'
<1> SUFFICES ASSUME Inv, [LifeNext]_lifeVars PROVE FeedOnce'
  OBVIOUS
<1>1. CASE UNCHANGED lifeVars \/ RequestStep \/ MainStep \/ CloseStep
  BY <1>1, NoStream DEF streamVars, Inv, FeedOnce
<1>2. ASSUME NEW n \in Notifications, Insert(n) PROVE FeedOnce'
  <2>1. /\ recipient[n] = None /\ UNCHANGED <<feed, user, since>>
        /\ \A m \in Notifications \ {n} : recipient'[m] = recipient[m]
    BY <1>2 DEF Insert, streamVars, Inv, LifeTypeOK, TypeOK
  <2>2. \A u \in Users : \A i \in 1 .. Len(feed[u]) : feed[u][i][1] \in Notifications \ {n}
    BY <2>1, NotifyHubAssumption DEF NotifyHubAssumption, Events, Inv, FeedOnce, LifeTypeOK, TypeOK
  <2> QED
    BY <2>1, <2>2 DEF Inv, FeedOnce
<1>3. ASSUME NEW n \in Notifications, NEW k \in 1..MaxSends, Publish(n, k) PROVE FeedOnce'
  <2> DEFINE e == <<n, k>>
             f == feed[recipient[n]]
             g == Append(f, e)
  <2>0. Publishes(n, k)
    BY <1>3, PublishEffect
  <2>1. /\ recipient[n] \in Users /\ UNCHANGED <<recipient, user, since>> /\ feed'[recipient[n]] = g
        /\ f \in Seq(Events) /\ \A i \in 1 .. Len(f) : f[i] # e
        /\ \A u \in Users : u # recipient[n] => feed'[u] = feed[u]
    BY <2>0 DEF Publishes
  <2>2. /\ Len(f) \in Nat /\ Len(g) = Len(f) + 1 /\ g[Len(f) + 1] = e /\ e[1] = n
        /\ \A i \in 1 .. Len(f) : g[i] = f[i]
    BY <2>1
  <2>3. /\ \A i \in 1 .. Len(f) : recipient[f[i][1]] = recipient[n]
        /\ \A i, j \in 1 .. Len(f) : f[i] = f[j] => i = j
    BY <2>1 DEF Inv, FeedOnce
  <2> HIDE DEF e, f, g
  <2>4. \A i \in 1 .. Len(g) : recipient[g[i][1]] = recipient[n]
    BY <2>2, <2>3
  <2>5. \A i, j \in 1 .. Len(g) : g[i] = g[j] => i = j
    BY <2>1, <2>2, <2>3
  <2>6. ASSUME NEW u \in Users
        PROVE  /\ \A i \in 1 .. Len(feed'[u]) : recipient'[feed'[u][i][1]] = u
               /\ \A i, j \in 1 .. Len(feed'[u]) : feed'[u][i] = feed'[u][j] => i = j
    <3>1. CASE u = recipient[n]
      BY <2>1, <2>4, <2>5, <3>1
    <3>2. CASE u # recipient[n]
      BY <2>1, <3>2 DEF Inv, FeedOnce
    <3> QED
      BY <3>1, <3>2
  <2>7. ASSUME NEW s \in Streams, user'[s] \in Users PROVE since'[s] <= Len(feed'[user'[s]])
    <3>1. since[s] <= Len(feed[user[s]]) /\ since[s] \in Nat /\ user[s] \in Users
      BY <2>1, <2>7 DEF Inv, FeedOnce, LifeTypeOK, TypeOK
    <3>2. CASE user[s] = recipient[n]
      BY <2>1, <2>2, <3>1, <3>2 DEF f
    <3>3. CASE user[s] # recipient[n]
      BY <2>1, <3>1, <3>3
    <3> QED
      BY <3>2, <3>3
  <2> QED
    BY <2>6, <2>7 DEF FeedOnce
<1>4. ASSUME NEW s \in Streams, OpenStep(s) \/ ServeStep(s) PROVE FeedOnce'
  <2>1. UNCHANGED <<recipient, feed>>
    BY <1>4 DEF OpenStep, ServeStep, Subscribe, TooManyStreams, StartLoop, Forward, LeaveLoop,
       Release, Leave, Deliver, Disconnect, WriteFails
  <2>2. ASSUME NEW t \in Streams, user'[t] \in Users PROVE since'[t] <= Len(feed[user'[t]])
    <3>1. CASE t # s
      BY <1>4, <2>2, <3>1, OneStream DEF Inv, FeedOnce
    <3>2. CASE t = s /\ Subscribe(s)
      <4>1. PICK u \in Users : /\ user' = [user EXCEPT ![s] = u]
                               /\ since' = [since EXCEPT ![s] = Len(feed[u])]
        BY <3>2 DEF Subscribe, Accounts
      <4>2. user'[t] = u /\ since'[t] = Len(feed[u]) /\ Len(feed[u]) \in Nat
        BY <3>2, <4>1 DEF Inv, LifeTypeOK, TypeOK
      <4> QED
        BY <4>2
    <3>3. CASE t = s /\ ~Subscribe(s)
      <4>1. user' = user /\ since' = since
        BY <1>4, <3>3 DEF OpenStep, ServeStep, TooManyStreams, StartLoop, Forward, LeaveLoop,
           Release, Leave, Deliver, Disconnect, WriteFails, streamVars
      <4> QED
        BY <2>2, <4>1 DEF Inv, FeedOnce
    <3> QED
      BY <3>1, <3>2, <3>3
  <2> QED
    BY <2>1, <2>2 DEF Inv, FeedOnce
<1> QED
  BY <1>1, <1>2, <1>3, <1>4, Steps DEF NotificationStep

LEMMA LanesHold == Inv /\ [LifeNext]_lifeVars => Lanes'
<1> SUFFICES ASSUME Inv, [LifeNext]_lifeVars PROVE Lanes'
  OBVIOUS
<1>1. CASE UNCHANGED lifeVars \/ RequestStep \/ MainStep \/ CloseStep
  BY <1>1, NoStream DEF streamVars, Inv, Lanes, LaneOf
<1>2. ASSUME NEW n \in Notifications, Insert(n) PROVE Lanes'
  BY <1>2 DEF Insert, streamVars, Inv, Lanes, LaneOf
<1>3. ASSUME NEW n \in Notifications, NEW k \in 1..MaxSends, Publish(n, k) PROVE Lanes'
  <2> SUFFICES ASSUME NEW s \in Streams, user'[s] \in Users
               PROVE  Lane(feed'[user'[s]], since'[s], seen'[s], buf'[s], wire'[s])
    BY DEF Lanes, LaneOf
  <2>1. /\ user' = user /\ since' = since /\ seen' = seen /\ buf' = buf
        /\ user[s] # recipient[n] => feed'[user[s]] = feed[user[s]] /\ wire'[s] = wire[s]
        /\ user[s] = recipient[n] => feed'[user[s]] = Append(feed[user[s]], <<n, k>>)
        /\ wire'[s] = wire[s] \/ wire'[s] = Append(wire[s], <<n, k>>)
        /\ feed[user[s]] \in Seq(Events)
        /\ \A i \in 1 .. Len(feed[user[s]]) : feed[user[s]][i] # <<n, k>>
        /\ <<n, k>> \in Events
    <3>1. Publishes(n, k)
      BY <1>3, PublishEffect
    <3> QED
      BY <3>1 DEF Publishes
  <2>2. Lane(feed[user[s]], since[s], seen[s], buf[s], wire[s])
    BY <2>1 DEF Inv, Lanes, LaneOf
  <2>3. CASE user[s] # recipient[n]
    BY <2>1, <2>2, <2>3
  <2>4. CASE user[s] = recipient[n]
    <3>1. /\ since[s] \in Nat /\ since[s] <= Len(feed[user[s]])
          /\ seen[s] \in Seq(Events) /\ buf[s] \in Seq(Events)
          /\ wire[s] \in Seq(Events)
      BY <2>1 DEF Inv, FeedOnce, LifeTypeOK, TypeOK
    <3>2. /\ Lane(Append(feed[user[s]], <<n, k>>), since[s], seen[s], buf[s], wire[s])
          /\ Lane(Append(feed[user[s]], <<n, k>>), since[s], seen[s], buf[s], Append(wire[s], <<n, k>>))
      BY <2>1, <2>2, <3>1, LaneFeed
    <3> QED
      BY <2>1, <2>4, <3>2
  <2> QED
    BY <2>3, <2>4
<1>4. ASSUME NEW s \in Streams, OpenStep(s) \/ ServeStep(s) PROVE Lanes'
  <2>0. feed' = feed
    BY <1>4 DEF OpenStep, ServeStep, Subscribe, TooManyStreams, StartLoop, Forward, LeaveLoop,
       Release, Leave, Deliver, Disconnect, WriteFails
  <2>1. ASSUME NEW t \in Streams, t # s PROVE LaneOf(t)'
    BY <1>4, <2>0, <2>1, OneStream DEF Inv, Lanes, LaneOf
  <2>2. LaneOf(s)'
    <3>1. CASE Subscribe(s)
      <4>1. wire'[s] = <<>> /\ buf'[s] = <<>> /\ seen'[s] = <<>>
        BY <3>1 DEF Subscribe, Arrives, Inv, Stages, StageOf
      <4> QED
        BY <4>1 DEF LaneOf, Lane, Sorted, Follows
    <3>2. CASE ~Subscribe(s)
      <4> SUFFICES ASSUME user'[s] \in Users
                   PROVE  Lane(feed'[user'[s]], since'[s], seen'[s], buf'[s], wire'[s])
        BY DEF LaneOf
      <4>1. user' = user /\ since' = since
        BY <1>4, <3>2 DEF OpenStep, ServeStep, TooManyStreams, StartLoop, Forward, LeaveLoop,
           Release, Leave, Deliver, Disconnect, WriteFails, streamVars
      <4>2. /\ Lane(feed[user[s]], since[s], seen[s], buf[s], wire[s])
            /\ seen[s] \in Seq(Events) /\ buf[s] \in Seq(Events)
            /\ wire[s] \in Seq(Events)
        BY <4>1 DEF Inv, Lanes, LaneOf, LifeTypeOK, TypeOK
      <4>3. \/ seen'[s] = seen[s] /\ buf'[s] = buf[s] /\ wire'[s] \in {wire[s], <<>>}
            \/ /\ wire[s] # <<>> /\ seen'[s] = seen[s] /\ wire'[s] = Tail(wire[s])
               /\ buf'[s] \in {buf[s], Append(buf[s], Head(wire[s]))}
            \/ /\ buf[s] # <<>> /\ seen'[s] = Append(seen[s], Head(buf[s]))
               /\ buf'[s] = Tail(buf[s]) /\ wire'[s] = wire[s]
        <5>1. CASE TooManyStreams(s) \/ StartLoop(s) \/ LeaveLoop(s) \/ Release(s)
          BY <5>1 DEF TooManyStreams, StartLoop, LeaveLoop, Release, Inv, LifeTypeOK, TypeOK
        <5>2. CASE Leave(s) \/ Disconnect(s) \/ WriteFails(s)
          BY <5>2 DEF Leave, Disconnect, WriteFails
        <5>3. CASE Forward(s)
          BY <5>3 DEF Forward, Inv, LifeTypeOK, TypeOK
        <5>4. CASE Deliver(s)
          BY <5>4 DEF Deliver, Inv, LifeTypeOK, TypeOK
        <5> QED
          BY <1>4, <3>2, <5>1, <5>2, <5>3, <5>4 DEF OpenStep, ServeStep
      <4>4. /\ Lane(feed[user[s]], since[s], seen[s], buf[s], <<>>)
            /\ buf[s] # <<>> => Lane(feed[user[s]], since[s], Append(seen[s], Head(buf[s])),
                                     Tail(buf[s]), wire[s])
            /\ wire[s] # <<>> =>
                 /\ Lane(feed[user[s]], since[s], seen[s], buf[s], Tail(wire[s]))
                 /\ Lane(feed[user[s]], since[s], seen[s], Append(buf[s], Head(wire[s])),
                         Tail(wire[s]))
        BY <4>2, LaneMoves
      <4> QED
        BY <2>0, <4>1, <4>2, <4>3, <4>4
    <3> QED
      BY <3>1, <3>2
  <2> QED
    BY <2>1, <2>2 DEF Lanes
<1> QED
  BY <1>1, <1>2, <1>3, <1>4, Steps DEF NotificationStep

(***************************************************************************)
(* The theorems.                                                           *)
(***************************************************************************)

LEMMA Invariance == LifeSpec => []Inv
<1>1. Inv /\ [LifeNext]_lifeVars => Inv'
  BY TypesHold, StagesHold, SlotsHold, ClosingHolds, FeedHolds, LanesHold DEF Inv
<1> QED
  BY <1>1, InitInv, PTL DEF LifeSpec

(* The variables of the process and of its streams have their types, and   *)
(* a channel never holds more than chanBufSize events.                     *)
THEOREM TypeCorrect == LifeSpec => []LifeTypeOK
<1>1. Inv => LifeTypeOK
  BY DEF Inv
<1> QED
  BY <1>1, Invariance, PTL

(* No slot leaks, none is given back early.                                *)
THEOREM SlotsTheorem == LifeSpec => []SlotsAreLiveStreams
<1>1. Inv => SlotsAreLiveStreams
  BY DEF Inv, Slots, SlotsOf, Holders, SlotsAreLiveStreams
<1> QED
  BY <1>1, Invariance, PTL

(* Nothing is closed under a handler that ends within the 30 seconds.      *)
THEOREM DrainTheorem == LifeSpec => []ClosedAfterDrain
<1>1. Inv => ClosedAfterDrain
  BY DEF Inv, Closing, AllGone, ClosedAfterDrain
<1> QED
  BY <1>1, Invariance, PTL

LEMMA FeedStep == Inv /\ [LifeNext]_lifeVars => [Feed!FeedNext]_(Feed!feedVars)
<1> SUFFICES ASSUME Inv, [LifeNext]_lifeVars PROVE [Feed!FeedNext]_(Feed!feedVars)
  OBVIOUS
<1>1. CASE UNCHANGED lifeVars \/ RequestStep \/ MainStep \/ CloseStep
  BY <1>1, NoStream DEF streamVars, Feed!feedVars
<1>2. ASSUME NEW n \in Notifications, Insert(n) PROVE Feed!FeedNext
  <2>1. PICK u \in Users : recipient' = [recipient EXCEPT ![n] = u]
    BY <1>2 DEF Insert, Accounts
  <2>2. Feed!Store(n, u)
    BY <1>2, <2>1 DEF Insert, streamVars, Feed!Store
  <2> QED
    BY <2>2 DEF Feed!FeedNext
<1>3. ASSUME NEW n \in Notifications, NEW k \in 1..MaxSends, Publish(n, k) PROVE Feed!FeedNext
  <2>1. Feed!Announce(n, k)
    BY <1>3 DEF Publish, Published, Feed!Announce
  <2> QED
    BY <2>1 DEF Feed!FeedNext
<1>4. ASSUME NEW s \in Streams, Subscribe(s) PROVE Feed!FeedNext
  <2>1. PICK u \in Users : /\ user' = [user EXCEPT ![s] = u]
                           /\ since' = [since EXCEPT ![s] = Len(feed[u])]
    BY <1>4 DEF Subscribe, Accounts
  <2>2. user[s] = None
    BY <1>4 DEF Subscribe, Arrives, Inv, Stages, StageOf
  <2>3. Feed!Open(s, u)
    BY <1>4, <2>1, <2>2 DEF Subscribe, Feed!Open
  <2> QED
    BY <2>3 DEF Feed!FeedNext
<1>5. ASSUME NEW s \in Streams, Deliver(s) PROVE Feed!FeedNext
  <2> DEFINE f == feed[user[s]]
             e == Head(buf[s])
  <2>1. user[s] \in Users /\ buf[s] \in Seq(Events) /\ buf[s] # <<>>
    BY <1>5 DEF Deliver, Inv, Stages, StageOf, LifeTypeOK, TypeOK
  <2>2. /\ Lane(f, since[s], seen[s], buf[s], wire[s]) /\ f \in Seq(Events)
        /\ since[s] \in Nat /\ seen[s] \in Seq(Events)
    BY <2>1 DEF Inv, Lanes, LaneOf, LifeTypeOK, TypeOK
  <2>3. 1 \in 1 .. Len(buf[s]) /\ e = buf[s][1]
    BY <2>1
  <2>4. PICK i \in 1 .. Len(f) : since[s] < i /\ f[i] = e
    BY <2>2, <2>3 DEF Lane, Sorted, In
  <2>5. ASSUME NEW j \in i .. Len(f), NEW k \in 1 .. Len(seen[s]) PROVE seen[s][k] # f[j]
    <3>1. Before(f, seen[s][k], e)
      BY <2>2, <2>3 DEF Lane, Follows
    <3>2. j \in 1 .. Len(f) /\ ~(j < i)
      BY <2>2
    <3> QED
      BY <2>4, <3>1, <3>2 DEF Before
  <2>6. i \in since[s] + 1 .. Len(f)
    BY <2>2, <2>4
  <2>7. Feed!Show(s)
    <3>1. user[s] # None
      BY <2>1, NotifyHubAssumption DEF NotifyHubAssumption
    <3>2. UNCHANGED <<recipient, feed, user, since>> /\ seen' = [seen EXCEPT ![s] = Append(@, f[i])]
      BY <1>5, <2>4 DEF Deliver
    <3> QED
      BY <2>5, <2>6, <3>1, <3>2 DEF Feed!Show
  <2> QED
    BY <2>7 DEF Feed!FeedNext
<1>6. ASSUME NEW s \in Streams, OpenStep(s) \/ ServeStep(s), ~Subscribe(s), ~Deliver(s)
      PROVE  UNCHANGED Feed!feedVars
  BY <1>6 DEF OpenStep, ServeStep, TooManyStreams, StartLoop, Forward, LeaveLoop, Release, Leave,
     Disconnect, WriteFails, streamVars, Feed!feedVars
<1> QED
  BY <1>1, <1>2, <1>3, <1>4, <1>5, <1>6, Steps DEF NotificationStep

(* The hub implements EventFeed: every step is a step of the feed or none. *)
THEOREM FeedTheorem == LifeSpec => ImplementsFeed
<1>1. LifeInit => Feed!FeedInit
  BY DEF LifeInit, Init, Feed!FeedInit
<1> QED
  BY <1>1, FeedStep, Invariance, PTL DEF LifeSpec, ImplementsFeed, Feed!FeedSpec
=============================================================================

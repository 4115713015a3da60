----------------------------- MODULE ServerLife -----------------------------
(***************************************************************************)
(* The life of an API process (cmd/api/main.go) around the hub and its     *)
(* streams: it listens, waits for a signal, lets the open handlers finish  *)
(* for at most 30 seconds, and closes the database, the Redis client and   *)
(* the hub, in this order.                                                 *)
(*                                                                         *)
(* Echo's Shutdown (net/http) is external: it closes the listener and the  *)
(* idle connections, then waits until no connection is left with a request *)
(* on it or its context is done.  It does not cancel the handlers, those   *)
(* of the streams included, and it lets a connection that was accepted     *)
(* before bring its request.  The ban guard, the middleware and the start  *)
(* of a handler change nothing here; they are part of the step in which    *)
(* the handler does something, which may be long after the connection was  *)
(* accepted.  The exit of the process after the last step only cuts the    *)
(* behaviours short; it is left out, so that what hub.Close promises is    *)
(* visible.                                                                *)
(***************************************************************************)
EXTENDS NotifyHub

CONSTANT Requests  \* requests that use the database

VARIABLES
  main,     \* where main() is: serving, draining, then drained or timedOut
  listens,  \* whether e.Start got its port
  running   \* the requests whose handler runs

mainVars == <<main, listens, running>>
lifeVars == <<vars, mainVars>>

LifeTypeOK ==
  /\ TypeOK
  /\ main \in {"serving", "draining", "drained", "timedOut"}
  /\ listens \in BOOLEAN
  /\ running \subseteq Requests

(* A Start that fails, the port being taken, is only logged: the process   *)
(* goes on, without a listener, until it is told to stop.                  *)
LifeInit ==
  /\ Init
  /\ main = "serving"
  /\ listens \in BOOLEAN
  /\ running = {}

(***************************************************************************)
(* Requests.                                                               *)
(***************************************************************************)

(* A handler can begin as long as Shutdown has not seen the last           *)
(* connection go: while it drains, when the 30 seconds are over (the       *)
(* server has no read timeout, so a request may be that late) and when the *)
(* hub is closed.                                                          *)
Accepts == listens /\ main # "drained"

BeginRequest(r) ==
  /\ Accepts
  /\ r \notin running
  /\ running' = running \cup {r}
  /\ UNCHANGED <<vars, main, listens>>

EndRequest(r) ==
  /\ r \in running
  /\ running' = running \ {r}
  /\ UNCHANGED <<vars, main, listens>>

(* Notifications are inserted and published by the handler of a request;   *)
(* an insert needs the database, which is closed with Redis.               *)
CreateNotification(n) ==
  /\ running # {}
  /\ (redis = "up" /\ Insert(n)) \/ \E k \in 1..MaxSends : Publish(n, k)
  /\ UNCHANGED mainVars

(***************************************************************************)
(* main().                                                                 *)
(***************************************************************************)

Signal ==
  /\ main = "serving"
  /\ main' = "draining"
  /\ UNCHANGED <<vars, listens, running>>

(* Faulty variant: only the requests are waited for.                       *)
NoRequestOpen == running = {}

(* What Shutdown waits for: no handler runs.  One that has done nothing    *)
(* yet would not let it return; in the model it never does anything then.  *)
NoHandlerOpen ==
  /\ running = {}
  /\ \A s \in Streams : handler[s] \notin {"subscribing", "streaming"}

ShutdownReturns ==
  /\ main = "draining"
  /\ NoHandlerOpen
  /\ main' = "drained"
  /\ UNCHANGED <<vars, listens, running>>

(* Faulty variant: Shutdown gets a context without a deadline.             *)
NeverTimesOut == FALSE /\ UNCHANGED lifeVars

(* The 30 seconds of shCtx are over: Shutdown returns an error, which is   *)
(* logged, and leaves the handlers alone.                                  *)
ShutdownTimesOut ==
  /\ main = "draining"
  /\ main' = "timedOut"
  /\ UNCHANGED <<vars, listens, running>>

(* The database and Redis are closed, one after the other: what a handler  *)
(* does between the two it can do before or after.  Then comes the         *)
(* deferred cleanup, which closes the hub.                                 *)
Close ==
  /\ main \in {"drained", "timedOut"}
  /\ CloseRedis \/ CloseDone \/ CloseConns
  /\ UNCHANGED mainVars

(***************************************************************************)
(* The specification.                                                      *)
(***************************************************************************)

Main == ShutdownReturns \/ ShutdownTimesOut \/ Close

LifeNext ==
  \/ \E r \in Requests : BeginRequest(r) \/ EndRequest(r)
  \/ \E n \in Notifications : CreateNotification(n)
  \/ Accepts /\ OpeningNext /\ UNCHANGED mainVars
  \/ StreamingNext /\ UNCHANGED mainVars
  \/ Signal \/ Main

LifeSpec == LifeInit /\ [][LifeNext]_lifeVars

(* main() and the goroutines that can run do, and time passes.  A signal   *)
(* may never come, and nothing is assumed of the clients: a write          *)
(* (Deliver) may block as long as the client does not read.                *)
FairLifeSpec ==
  /\ LifeSpec
  /\ WF_lifeVars(Main)
  /\ \A s \in Streams : /\ WF_lifeVars(Loop(s) /\ UNCHANGED mainVars)
                        /\ WF_lifeVars(Handler(s) /\ UNCHANGED mainVars)

(***************************************************************************)
(* Properties.                                                             *)
(***************************************************************************)

(* Nothing is closed under a handler unless the 30 seconds are over: a     *)
(* request, or a stream, that ends in time never meets a closed database,  *)
(* a closed Redis client or a closed hub.                                  *)
ClosedAfterDrain ==
  (redis = "closed" \/ hub # "open") /\ main # "timedOut" =>
    /\ running = {}
    /\ \A s \in Streams : handler[s] \in {"idle", "gone", "refused"}

(* A process that was told to stop closes the hub, its last step, whatever *)
(* the clients of its streams do.                                          *)
ShutdownEnds == main = "draining" ~> hub = "closed"
=============================================================================

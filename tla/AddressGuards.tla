---------------------------- MODULE AddressGuards ----------------------------
(***************************************************************************)
(* What the API keeps of a client address: the scanner ban of              *)
(* xratelimit/ipban.go in Redis, in front of all routes, and the token     *)
(* buckets of middleware/ratelimit.go in memory, in front of the login     *)
(* routes.                                                                 *)
(*                                                                         *)
(* The unit of time is the one in which a bucket gains a token (12 s); it  *)
(* passes between any two steps.  Redis deletes a key when its time is     *)
(* over.  A call of Redis that fails may have been executed.               *)
(***************************************************************************)
EXTENDS Naturals, FiniteSets

CONSTANTS
  Addresses,    \* client addresses
  Requests,     \* calls of the API
  Threshold,    \* Config.Threshold: hits that make a ban (5)
  WindowTTL,    \* Config.WindowTTL (10 min)
  BanDuration,  \* Config.BanDuration (24 h)
  Burst,        \* size of a bucket (5)
  IdleTTL,      \* ttl of a bucket nobody uses (10 min)
  MaxTime,      \* bound of the model on the clock
  None          \* no address, no bucket

(* DefaultConfig (5 hits, 10 minutes, 24 hours) and NewIPRateLimiter: a    *)
(* ban outlasts every chain of hits below the threshold, and an idle       *)
(* bucket is full before it is evicted.                                    *)
ASSUME AddressGuardsAssumption ==
  /\ Threshold \in Nat \ {0}
  /\ WindowTTL \in Nat \ {0}
  /\ BanDuration \in Nat /\ WindowTTL <= BanDuration
  /\ (Threshold - 1) * WindowTTL <= BanDuration
  /\ Burst \in Nat \ {0}
  /\ IdleTTL \in Nat /\ Burst <= IdleTTL
  /\ MaxTime \in Nat
  /\ None \notin [level: Nat, last: Nat, seen: Nat]

VARIABLES
  now,      \* the clock
  scan,     \* Redis, scan:{ip}: the counter and when it is deleted
  ban,      \* Redis, ban:{ip}: when it is deleted, 0 if there is none
  bucket,   \* IPRateLimiter.visitors
  at,       \* where a request is
  kind,     \* what it asks for
  address,  \* where it comes from
  failed,   \* history: addresses whose SET has failed
  hits,     \* history of an address: the scored hits
  admitted  \* history: logins let through, by time

redis == <<scan, ban>>
request == <<at, kind, address>>
history == <<failed, hits, admitted>>
vars == <<now, redis, bucket, request, history>>

Time == 0..MaxTime

(* A path of scanPathRe without and with an Authorization header, and the  *)
(* routes behind loginLimiter, whose paths are never suspicious.  A        *)
(* browser that is signed in by the session cookie sends no such header:   *)
(* what it asks for by mistake is a probe.                                 *)
Kinds == {"probe", "authenticatedProbe", "login"}

Counter == [count: Nat, until: Nat]
NoCounter == [count |-> 0, until |-> 0]
Bucket == [level: 0..Burst, last: Time, seen: Time]

(* Hits since the last one that came too late or the last Unban; hits      *)
(* since the last ban; the time of the last hit.                           *)
Hits == [chain: Nat, fresh: Nat, last: Time]
NoHits == [chain |-> 0, fresh |-> 0, last |-> 0]

TypeOK ==
  /\ now \in Time
  /\ scan \in [Addresses -> Counter]
  /\ \A a \in Addresses : scan[a].count = 0 <=> scan[a].until = 0
  /\ ban \in [Addresses -> Nat]
  /\ bucket \in [Addresses -> Bucket \cup {None}]
  /\ at \in [Requests -> {"idle", "running", "scoring", "counted", "banned",
                          "forbidden", "throttled", "done"}]
  /\ kind \in [Requests -> Kinds \cup {None}]
  /\ address \in [Requests -> Addresses \cup {None}]
  /\ failed \in SUBSET Addresses
  /\ hits \in [Addresses -> Hits]
  /\ admitted \in [Addresses -> [Time -> Nat]]

Init ==
  /\ now = 0
  /\ scan = [a \in Addresses |-> NoCounter]
  /\ ban = [a \in Addresses |-> 0]
  /\ bucket = [a \in Addresses |-> None]
  /\ at = [r \in Requests |-> "idle"]
  /\ kind = [r \in Requests |-> None]
  /\ address = [r \in Requests |-> None]
  /\ failed = {}
  /\ hits = [a \in Addresses |-> NoHits]
  /\ admitted = [a \in Addresses |-> [t \in Time |-> 0]]

Goes(r, to) == at' = [at EXCEPT ![r] = to]

Tick ==
  /\ now < MaxTime
  /\ now' = now + 1
  /\ scan' = [a \in Addresses |-> IF scan[a].until <= now' THEN NoCounter ELSE scan[a]]
  /\ ban' = [a \in Addresses |-> IF ban[a] <= now' THEN 0 ELSE ban[a]]
  /\ UNCHANGED <<bucket, request, history>>

(***************************************************************************)
(* IPBanGuard.                                                             *)
(***************************************************************************)

(* isBanned: an address that is banned is rejected, whoever asks; if Redis *)
(* does not answer, nobody is.                                             *)
Arrive(r, a, k) ==
  /\ at[r] = "idle"
  /\ kind' = [kind EXCEPT ![r] = k]
  /\ address' = [address EXCEPT ![r] = a]
  /\ \/ Goes(r, IF ban[a] # 0 THEN "forbidden" ELSE "running")
     \/ Goes(r, "running")
  /\ UNCHANGED <<now, redis, bucket, history>>

(* Faulty variant: requests with an Authorization header are scored too.   *)
AnswerScoringEveryone(r) ==
  /\ at[r] = "running"
  /\ kind[r] # "login"
  /\ Goes(r, "scoring")
  /\ UNCHANGED <<now, redis, bucket, kind, address, history>>

(* The route answers (404), and what is left is the scoring of a path that *)
(* looks like a probe, unless the request carries an Authorization header. *)
Answer(r) ==
  /\ at[r] = "running"
  /\ kind[r] # "login"
  /\ Goes(r, IF kind[r] = "probe" THEN "scoring" ELSE "done")
  /\ UNCHANGED <<now, redis, bucket, kind, address, history>>

(* A hit of address a as the history counts it: in a chain if it comes     *)
(* within the window of the one before, and only if it is not              *)
(* authenticated.                                                          *)
Hit(r, a) ==
  hits' = [hits EXCEPT ![a] =
    IF kind[r] # "probe" THEN @
    ELSE [chain |-> IF now < @.last + WindowTTL THEN @.chain + 1 ELSE 1,
          fresh |-> @.fresh + 1,
          last  |-> now]]

(* Faulty variant: INCR without EXPIRE.                                    *)
CountedForGood(a) ==
  [count |-> scan[a].count + 1,
   until |-> IF scan[a].count = 0 THEN MaxTime + 1 ELSE scan[a].until]

Counted(a) == [count |-> scan[a].count + 1, until |-> now + WindowTTL]

(* Faulty variant: the hit after the threshold bans.                       *)
PassesThreshold(count) == count > Threshold

ReachesThreshold(count) == count >= Threshold

(* INCR and EXPIRE in one transaction of Redis.                            *)
Score(r) ==
  /\ at[r] = "scoring"
  /\ LET a == address[r]
     IN  \/ /\ scan' = [scan EXCEPT ![a] = Counted(a)]
            /\ Hit(r, a)
            /\ Goes(r, IF ReachesThreshold(Counted(a).count) THEN "counted" ELSE "done")
            /\ UNCHANGED failed
         \/ Goes(r, "done") /\ UNCHANGED <<scan, hits, failed>>
         \/ /\ Goes(r, "done")
            /\ scan' = [scan EXCEPT ![a] = Counted(a)]
            /\ Hit(r, a)
            /\ failed' = failed \cup {a}
  /\ UNCHANGED <<now, ban, bucket, kind, address, admitted>>

(* SET of the ban, also of one that is there already.                      *)
SetBan(r) ==
  /\ at[r] = "counted"
  /\ LET a == address[r]
         Banned == /\ ban' = [ban EXCEPT ![a] = now + BanDuration]
                   /\ hits' = [hits EXCEPT ![a].fresh = 0]
     IN  \/ Banned /\ Goes(r, "banned") /\ UNCHANGED failed
         \/ /\ Banned \/ UNCHANGED <<ban, hits>>
            /\ Goes(r, "done")
            /\ failed' = failed \cup {a}
  /\ UNCHANGED <<now, scan, bucket, kind, address, admitted>>

(* DEL of the counter; an error is not looked at.                          *)
ClearCount(r) ==
  /\ at[r] = "banned"
  /\ \/ scan' = [scan EXCEPT ![address[r]] = NoCounter]
     \/ UNCHANGED scan
  /\ Goes(r, "done")
  /\ UNCHANGED <<now, ban, bucket, kind, address, history>>

(* Unban, for an operator: one DEL of both keys.                           *)
Unban(a) ==
  /\ ban[a] # 0 \/ scan[a].count # 0
  /\ scan' = [scan EXCEPT ![a] = NoCounter]
  /\ ban' = [ban EXCEPT ![a] = 0]
  /\ hits' = [hits EXCEPT ![a].chain = 0]
  /\ UNCHANGED <<now, bucket, request, failed, admitted>>

(***************************************************************************)
(* IPRateLimiter.                                                          *)
(***************************************************************************)

(* Faulty variant: a bucket grows for as long as it is not used.           *)
LevelUncapped(a) ==
  IF bucket[a] = None THEN Burst ELSE bucket[a].level + (now - bucket[a].last)

(* rate.Limiter: a new bucket is full, and a bucket gains a token per unit *)
(* of time.                                                                *)
Level(a) ==
  IF bucket[a] = None THEN Burst
  ELSE LET filled == bucket[a].level + (now - bucket[a].last)
       IN  IF filled < Burst THEN filled ELSE Burst

(* get and Allow.  A refusal takes no token but is seen.                   *)
Allow(r) ==
  /\ at[r] = "running"
  /\ kind[r] = "login"
  /\ LET a == address[r]
     IN  \/ /\ Level(a) > 0
            /\ bucket' = [bucket EXCEPT ![a] = [level |-> Level(a) - 1, last |-> now, seen |-> now]]
            /\ admitted' = [admitted EXCEPT ![a][now] = @ + 1]
            /\ Goes(r, "done")
         \/ /\ Level(a) = 0
            /\ bucket' = [bucket EXCEPT ![a].seen = now]
            /\ Goes(r, "throttled")
            /\ UNCHANGED admitted
  /\ UNCHANGED <<now, redis, kind, address, failed, hits>>

(* Faulty variant: whoever has not been seen just now is idle.             *)
IdleAtOnce(a) == bucket[a].seen < now

Idle(a) == bucket[a].seen + IdleTTL < now

(* One round of sweep, at any time.                                        *)
Sweep ==
  /\ \E a \in Addresses : bucket[a] # None /\ Idle(a)
  /\ bucket' = [a \in Addresses |-> IF bucket[a] = None THEN None
                                    ELSE IF Idle(a) THEN None ELSE bucket[a]]
  /\ UNCHANGED <<now, redis, request, history>>

(***************************************************************************)
(* Specification.                                                          *)
(***************************************************************************)

Next ==
  \/ Tick \/ Sweep
  \/ \E a \in Addresses : Unban(a)
  \/ \E r \in Requests :
       \/ \E a \in Addresses, k \in Kinds : Arrive(r, a, k)
       \/ Answer(r) \/ Score(r) \/ SetBan(r) \/ ClearCount(r) \/ Allow(r)

Spec == Init /\ [][Next]_vars

(***************************************************************************)
(* Properties.                                                             *)
(***************************************************************************)

(* A ban needs Threshold suspicious requests without an Authorization      *)
(* header, none of them later than the window after the one before, since  *)
(* the last Unban.  Requests with the header never count, which is not all *)
(* that the package comment of ipban.go concludes from it: the signed-in   *)
(* users of a cookie (middleware.go:181) send no header, and enough URLs   *)
(* they mistype do ban their address.                                      *)
BanNeedsHits ==
  [][\A r \in Requests :
       at[r] = "scoring" /\ at'[r] = "counted" => hits'[address[r]].chain >= Threshold]_vars

(* Requests of one address that are scored at the same time cannot pass    *)
(* the threshold unnoticed: when the counter has reached it, the address   *)
(* is banned or a request is about to ban it, unless Redis has failed.     *)
EnoughHitsBan ==
  \A a \in Addresses \ failed :
    scan[a].count >= Threshold =>
      ban[a] # 0 \/ \E r \in Requests : at[r] = "counted" /\ address[r] = a

(* After a ban the counter restarts cleanly, as the comment in score says: *)
(* when a ban is over, a counter below the threshold counts no hit from    *)
(* before it, also when requests that arrived earlier were scored, and     *)
(* have renewed the ban, while it lasted.  (A counter at the threshold is  *)
(* the matter of EnoughHitsBan.)                                           *)
CleanRestart ==
  \A a \in Addresses :
    ban[a] = 0 /\ scan[a].count < Threshold => scan[a].count <= hits[a].fresh

(* The sum of counts[from], counts[from + 1], ..., as a function of its    *)
(* last index.                                                             *)
SumFrom(counts, from) ==
  LET Sum[t \in Time] == IF t < from THEN 0
                         ELSE counts[t] + IF t = from THEN 0 ELSE Sum[t - 1]
  IN  Sum

(* In no stretch of time are more logins of an address let through than    *)
(* the burst and the tokens gained: evicting a bucket gives none away.     *)
LoginsAreLimited ==
  \A a \in Addresses, from, to \in Time :
    from <= to => SumFrom(admitted[a], from)[to] <= Burst + (to - from)
=============================================================================

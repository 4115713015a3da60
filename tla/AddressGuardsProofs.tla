------------------------- MODULE AddressGuardsProofs -------------------------
(***************************************************************************)
(* Proofs about AddressGuards, for every number of addresses and requests, *)
(* every threshold, window, ban and burst, and every length of time.       *)
(***************************************************************************)
EXTENDS AddressGuards, WellFoundedInduction, TLAPS

(***************************************************************************)
(* Sums over time.                                                         *)
(***************************************************************************)

(* What holds at 0 and goes on to the next moment holds at all times.      *)
LEMMA TimeInduction ==
  ASSUME NEW S, 0 \in S, \A t \in Time : t \in S /\ t + 1 \in Time => t + 1 \in S
  PROVE  Time \subseteq S
<1> DEFINE Bad == {t \in Nat : t \in Time /\ t \notin S}
<1>1. SUFFICES ASSUME Bad # {} PROVE FALSE
  BY <1>1 DEF Time
<1>2. PICK x \in Bad : \A y \in Bad : ~(<<y, x>> \in OpToRel(<, Nat))
  BY <1>1, NatLessThanWellFounded, WFMin
<1>3. x \in Nat /\ x \in Time /\ x \notin S /\ x # 0
  OBVIOUS
<1>4. x - 1 \in Nat /\ x - 1 \in Time
  BY <1>3, AddressGuardsAssumption DEF Time, AddressGuardsAssumption
<1>5. x - 1 \in Bad
  <2>1. x - 1 \notin S
    BY <1>3, <1>4
  <2> QED
    BY <2>1, <1>4
<1>6. <<x - 1, x>> \in OpToRel(<, Nat)
  <2> DEFINE Less == {ss \in Nat \X Nat : ss[1] < ss[2]}
  <2>1. OpToRel(<, Nat) = Less
    BY Zenon DEF OpToRel
  <2>2. <<x - 1, x>> \in Less
    BY <1>3, <1>4
  <2> QED
    BY <2>1, <2>2
<1> QED
  BY <1>2, <1>5, <1>6

(* The body of the sum in SumFrom.                                         *)
Addend(counts, from, f, t) ==
  IF t < from THEN 0 ELSE counts[t] + IF t = from THEN 0 ELSE f[t - 1]

(* There is a function that satisfies the equation, so SumFrom is one.     *)
LEMMA SumExists ==
  ASSUME NEW counts \in [Time -> Nat], NEW from \in Time
  PROVE  \E f \in [Time -> Nat] : \A t \in Time : f[t] = Addend(counts, from, f, t)
<1> DEFINE Upto(n, f) == \A t \in Time : t <= n => f[t] = Addend(counts, from, f, t)
           S == {n \in Time : \E f \in [Time -> Nat] : Upto(n, f)}
<1>1. 0 \in S
  <2> DEFINE f == [t \in Time |-> IF from = 0 THEN counts[0] ELSE 0]
  <2>1. 0 \in Time
    BY AddressGuardsAssumption DEF AddressGuardsAssumption, Time
  <2>2. f \in [Time -> Nat]
    BY <2>1
  <2>3. Upto(0, f)
    BY <2>1 DEF Time, Addend
  <2> QED
    BY <2>1, <2>2, <2>3
<1>2. ASSUME NEW n \in Time, n \in S, n + 1 \in Time PROVE n + 1 \in S
  <2>1. PICK f \in [Time -> Nat] : Upto(n, f)
    BY <1>2
  <2> DEFINE g == [f EXCEPT ![n + 1] = Addend(counts, from, f, n + 1)]
  <2>2. n \in Nat /\ Addend(counts, from, f, n + 1) \in Nat
    BY <1>2 DEF Addend, Time
  <2>3. g \in [Time -> Nat]
    BY <1>2, <2>2
  <2>4. ASSUME NEW t \in Time, t <= n + 1 PROVE g[t] = Addend(counts, from, g, t)
    <3>1. CASE t = n + 1
      BY <1>2, <2>2, <3>1 DEF Addend, Time
    <3>2. CASE t # n + 1
      <4> HIDE DEF Upto, g
      <4>0. t \in Nat /\ t <= n /\ (t # 0 => t - 1 \in Time /\ t - 1 # n + 1)
        BY <2>2, <2>4, <3>2, AddressGuardsAssumption DEF AddressGuardsAssumption, Time
      <4>1. g[t] = f[t] /\ (t # 0 => g[t - 1] = f[t - 1])
        BY <1>2, <2>2, <3>2, <4>0 DEF g
      <4>2. Addend(counts, from, g, t) = Addend(counts, from, f, t)
        BY <4>0, <4>1 DEF Addend, Time
      <4> QED
        BY <2>1, <4>0, <4>1, <4>2 DEF Upto
    <3> QED
      BY <3>1, <3>2
  <2> QED
    BY <1>2, <2>3, <2>4
<1>3. MaxTime \in S
  <2> HIDE DEF S
  <2>1. MaxTime \in Time
    BY AddressGuardsAssumption DEF AddressGuardsAssumption, Time
  <2> QED
    BY <1>1, <1>2, <2>1, TimeInduction
<1> QED
  BY <1>3 DEF Time

(* The equation of SumFrom.                                                *)
LEMMA SumEquation ==
  ASSUME NEW counts \in [Time -> Nat], NEW from \in Time, NEW t \in Time
  PROVE  SumFrom(counts, from)[t] = Addend(counts, from, SumFrom(counts, from), t)
<1> DEFINE Body(f) == [u \in Time |-> IF u < from THEN 0
                                      ELSE counts[u] + IF u = from THEN 0 ELSE f[u - 1]]
<1>1. SumFrom(counts, from) = CHOOSE f : f = Body(f)
  BY DEF SumFrom
<1>2. \E f : f = Body(f)
  <2>1. PICK f \in [Time -> Nat] : \A u \in Time : f[u] = Addend(counts, from, f, u)
    BY SumExists
  <2>2. f = Body(f)
    BY <2>1 DEF Addend
  <2> QED
    BY <2>2
<1>3. SumFrom(counts, from) = Body(SumFrom(counts, from))
  <2> HIDE DEF Body
  <2> QED
    BY <1>1, <1>2
<1> QED
  BY <1>3 DEF Addend

LEMMA SumType ==
  ASSUME NEW counts \in [Time -> Nat], NEW from \in Time, NEW t \in Time
  PROVE  SumFrom(counts, from)[t] \in Nat
<1> DEFINE S == {u \in Time : SumFrom(counts, from)[u] \in Nat}
<1>1. 0 \in S
  <2>1. 0 \in Time
    BY AddressGuardsAssumption DEF AddressGuardsAssumption, Time
  <2>2. SumFrom(counts, from)[0] = Addend(counts, from, SumFrom(counts, from), 0)
    BY <2>1, SumEquation
  <2> QED
    BY <2>1, <2>2 DEF Addend, Time
<1>2. ASSUME NEW u \in Time, u \in S, u + 1 \in Time PROVE u + 1 \in S
  <2>1. SumFrom(counts, from)[u + 1] = Addend(counts, from, SumFrom(counts, from), u + 1)
    BY <1>2, SumEquation
  <2> QED
    BY <1>2, <2>1 DEF Addend, Time
<1> HIDE DEF S
<1>3. t \in S
  BY <1>1, <1>2, TimeInduction
<1> QED
  BY <1>3 DEF S

(* A sum that begins later than it ends is empty.                          *)
LEMMA SumBefore ==
  ASSUME NEW counts \in [Time -> Nat], NEW from \in Time, NEW t \in Time, t < from
  PROVE  SumFrom(counts, from)[t] = 0
BY SumEquation DEF Addend

(* One more at n is one more in the sums that reach over n.                *)
LEMMA SumOfOneMore ==
  ASSUME NEW counts \in [Time -> Nat], NEW n \in Time, NEW from \in Time, NEW t \in Time,
         NEW more \in [Time -> Nat], more[n] = counts[n] + 1,
         \A u \in Time : u # n => more[u] = counts[u]
  PROVE  SumFrom(more, from)[t] =
           SumFrom(counts, from)[t] + IF from <= n /\ n <= t THEN 1 ELSE 0
<1> DEFINE old == SumFrom(counts, from)
           new == SumFrom(more, from)
           S == {u \in Time : new[u] = old[u] + IF from <= n /\ n <= u THEN 1 ELSE 0}
<1>1. more \in [Time -> Nat]
  OBVIOUS
<1>2. \A u \in Time : /\ old[u] \in Nat
                     /\ old[u] = Addend(counts, from, old, u)
                     /\ new[u] = Addend(more, from, new, u)
  BY <1>1, SumEquation, SumType
<1>3. \A u \in Time : more[u] = counts[u] + IF u = n THEN 1 ELSE 0
  BY DEF Time
<1> HIDE DEF old, new
<1>4. 0 \in S
  <2>1. 0 \in Time
    BY AddressGuardsAssumption DEF AddressGuardsAssumption, Time
  <2> QED
    BY <1>2, <1>3, <2>1 DEF Time, Addend
<1>5. ASSUME NEW u \in Time, u \in S, u + 1 \in Time PROVE u + 1 \in S
  <2>1. /\ new[u] = old[u] + IF from <= n /\ n <= u THEN 1 ELSE 0
        /\ old[u] \in Nat /\ u \in Nat /\ n \in Nat /\ from \in Nat /\ counts[u + 1] \in Nat
    BY <1>2, <1>5 DEF Time
  <2>2. /\ new[u + 1] = Addend(more, from, new, u + 1)
        /\ old[u + 1] = Addend(counts, from, old, u + 1)
        /\ more[u + 1] = counts[u + 1] + IF u + 1 = n THEN 1 ELSE 0
    BY <1>2, <1>3, <1>5
  <2>3. (u + 1) - 1 = u
    BY <2>1
  <2>4. new[u + 1] = old[u + 1] + IF from <= n /\ n <= u + 1 THEN 1 ELSE 0
    BY <2>1, <2>2, <2>3 DEF Addend
  <2> QED
    BY <1>5, <2>4
<1> HIDE DEF S
<1>6. t \in S
  BY <1>4, <1>5, TimeInduction
<1> QED
  BY <1>6 DEF S, old, new

(* Where nothing is added the sum stays.                                   *)
LEMMA SumAfter ==
  ASSUME NEW counts \in [Time -> Nat], NEW n \in Time, NEW from \in Time, NEW t \in Time,
         from <= n, n <= t, \A u \in Time : n < u => counts[u] = 0
  PROVE  SumFrom(counts, from)[t] = SumFrom(counts, from)[n]
<1> DEFINE sum == SumFrom(counts, from)
           S == {u \in Time : n <= u => sum[u] = sum[n]}
<1>1. \A u \in Time : sum[u] \in Nat /\ sum[u] = Addend(counts, from, sum, u)
  BY SumEquation, SumType
<1> HIDE DEF sum
<1>2. 0 \in S
  BY AddressGuardsAssumption DEF AddressGuardsAssumption, Time
<1>3. ASSUME NEW u \in Time, u \in S, u + 1 \in Time PROVE u + 1 \in S
  <2>1. CASE n <= u
    <3>1. sum[u] = sum[n] /\ counts[u + 1] = 0 /\ (u + 1) - 1 = u /\ sum[u] \in Nat
      BY <1>1, <1>3, <2>1 DEF Time
    <3>2. sum[u + 1] = Addend(counts, from, sum, u + 1)
      BY <1>1, <1>3
    <3>3. sum[u + 1] = sum[u]
      BY <2>1, <3>1, <3>2 DEF Addend, Time
    <3> QED
      BY <1>3, <3>1, <3>3
  <2>2. CASE ~(n <= u)
    BY <1>3, <2>2 DEF Time
  <2> QED
    BY <2>1, <2>2
<1> HIDE DEF S
<1>4. t \in S
  BY <1>2, <1>3, TimeInduction
<1> QED
  BY <1>4 DEF S, sum

(***************************************************************************)
(* Types.                                                                  *)
(***************************************************************************)

(* What the position of a request implies: only probes are scored.         *)
Flow ==
  \A r \in Requests :
    /\ at[r] # "idle" => kind[r] \in Kinds /\ address[r] \in Addresses
    /\ at[r] \in {"scoring", "counted", "banned"} => kind[r] = "probe"

(* The moments of a bucket are in the past.                                *)
Buckets ==
  \A a \in Addresses : bucket[a] # None => bucket[a].last <= bucket[a].seen /\ bucket[a].seen <= now

Base == TypeOK /\ Flow /\ Buckets

LEMMA TimeFacts ==
  /\ MaxTime \in Nat /\ 0 \in Time
  /\ \A t \in Time : t \in Nat /\ (t < MaxTime => t + 1 \in Time)
BY AddressGuardsAssumption DEF AddressGuardsAssumption, Time

LEMMA ConstantFacts ==
  /\ Threshold \in Nat \ {0} /\ WindowTTL \in Nat \ {0} /\ BanDuration \in Nat
  /\ Burst \in Nat \ {0} /\ IdleTTL \in Nat
BY AddressGuardsAssumption DEF AddressGuardsAssumption

LEMMA NowType == TypeOK => now \in Time /\ now \in Nat
BY TimeFacts DEF TypeOK

LEMMA BucketFacts ==
  ASSUME TypeOK, Buckets, NEW a \in Addresses, bucket[a] # None
  PROVE  /\ bucket[a] \in Bucket
         /\ bucket[a].level \in 0..Burst
         /\ bucket[a].last \in Nat /\ bucket[a].seen \in Nat
         /\ bucket[a].last <= bucket[a].seen /\ bucket[a].seen <= now
         /\ bucket[a].last <= now
<1>1. bucket[a] \in Bucket
  BY DEF TypeOK
<1>2. bucket[a].level \in 0..Burst /\ bucket[a].last \in Time /\ bucket[a].seen \in Time
  BY <1>1 DEF Bucket
<1>3. bucket[a].last <= bucket[a].seen /\ bucket[a].seen <= now
  BY DEF Buckets
<1>4. bucket[a].last \in Nat /\ bucket[a].seen \in Nat /\ now \in Nat
  BY <1>2, NowType DEF Time
<1> QED
  BY <1>1, <1>2, <1>3, <1>4

LEMMA LevelType ==
  ASSUME TypeOK, Buckets, NEW a \in Addresses
  PROVE  Level(a) \in 0..Burst
<1>1. Burst \in Nat
  BY AddressGuardsAssumption DEF AddressGuardsAssumption
<1>2. CASE bucket[a] = None
  BY <1>1, <1>2 DEF Level
<1>3. CASE bucket[a] # None
  <2>1. /\ bucket[a].level \in 0..Burst /\ bucket[a].last \in Nat
        /\ now \in Nat /\ bucket[a].last <= now
    BY <1>3, BucketFacts, NowType
  <2> QED
    BY <1>1, <1>3, <2>1 DEF Level
<1> QED
  BY <1>2, <1>3

LEMMA BaseInit == Init => Base
BY TimeFacts, AddressGuardsAssumption
   DEF AddressGuardsAssumption, Init, Base, TypeOK, Flow, Buckets, Counter, NoCounter, Hits, NoHits, Kinds

LEMMA BaseTick == ASSUME Base, Tick PROVE Base'
<1> USE DEF Base
<1>1. now' \in Time /\ now \in Nat /\ now' = now + 1
  BY TimeFacts DEF Tick, TypeOK
<1>2. /\ scan' \in [Addresses -> Counter]
      /\ \A a \in Addresses : scan'[a].count = 0 <=> scan'[a].until = 0
  BY DEF Tick, TypeOK, Counter, NoCounter
<1>3. ban' \in [Addresses -> Nat]
  BY DEF Tick, TypeOK
<1>4. TypeOK'
  BY <1>1, <1>2, <1>3 DEF Tick, TypeOK, request, history
<1>5. Flow'
  BY DEF Tick, Flow, request
<1>6. Buckets'
  <2> SUFFICES ASSUME NEW a \in Addresses, bucket[a] # None
               PROVE  bucket[a].last <= bucket[a].seen /\ bucket[a].seen <= now'
    BY DEF Tick, Buckets
  <2>1. bucket[a].seen \in Nat /\ bucket[a].seen <= now /\ bucket[a].last <= bucket[a].seen
    BY TimeFacts DEF TypeOK, Buckets, Bucket
  <2> QED
    BY <1>1, <2>1
<1> QED
  BY <1>4, <1>5, <1>6

LEMMA BaseSweep == ASSUME Base, Sweep PROVE Base'
BY DEF Base, TypeOK, Flow, Buckets, Sweep, redis, request, history

LEMMA BaseUnban == ASSUME Base, NEW a \in Addresses, Unban(a) PROVE Base'
<1> USE DEF Base
<1>1. /\ scan' \in [Addresses -> Counter]
      /\ \A b \in Addresses : scan'[b].count = 0 <=> scan'[b].until = 0
  BY DEF Unban, TypeOK, Counter, NoCounter
<1>2. ban' \in [Addresses -> Nat] /\ hits' \in [Addresses -> Hits]
  BY DEF Unban, TypeOK, Hits
<1> QED
  BY <1>1, <1>2 DEF Unban, TypeOK, Flow, Buckets, request

LEMMA BaseArrive ==
  ASSUME Base, NEW r \in Requests, NEW a \in Addresses, NEW k \in Kinds, Arrive(r, a, k)
  PROVE  Base'
<1> USE DEF Base
<1>1. at' = [at EXCEPT ![r] = "forbidden"] \/ at' = [at EXCEPT ![r] = "running"]
  BY DEF Arrive, Goes
<1>2. TypeOK'
  BY <1>1 DEF Arrive, TypeOK, redis, history
<1>3. Flow'
  BY <1>1 DEF Arrive, Flow, TypeOK
<1> QED
  BY <1>2, <1>3 DEF Arrive, Buckets

LEMMA BaseAnswer == ASSUME Base, NEW r \in Requests, Answer(r) PROVE Base'
<1> USE DEF Base
<1>1. TypeOK' /\ Buckets'
  BY DEF Answer, Goes, TypeOK, Buckets, redis, history
<1>2. Flow'
  BY DEF Answer, Goes, Flow, TypeOK
<1> QED
  BY <1>1, <1>2

(* INCR and EXPIRE.                                                        *)
LEMMA CountedType ==
  ASSUME TypeOK, NEW a \in Addresses
  PROVE  /\ Counted(a) \in Counter
         /\ Counted(a).count = scan[a].count + 1 /\ Counted(a).until = now + WindowTTL
         /\ Counted(a).count # 0 /\ Counted(a).until # 0
<1>1. scan[a].count \in Nat /\ now \in Nat /\ WindowTTL \in Nat \ {0}
  BY TimeFacts, AddressGuardsAssumption DEF AddressGuardsAssumption, TypeOK, Counter
<1> QED
  BY <1>1 DEF Counted, Counter

LEMMA HitType ==
  ASSUME TypeOK, NEW r \in Requests, NEW a \in Addresses, Hit(r, a)
  PROVE  hits' \in [Addresses -> Hits]
<1>1. hits[a].chain + 1 \in Nat /\ hits[a].fresh + 1 \in Nat /\ hits[a] \in Hits /\ now \in Time
  BY DEF TypeOK, Hits
<1> QED
  BY <1>1 DEF Hit, TypeOK, Hits

LEMMA BaseScore == ASSUME Base, NEW r \in Requests, Score(r) PROVE Base'
<1> USE DEF Base
<1> DEFINE a == address[r]
<1>1. a \in Addresses
  BY DEF Score, Flow
<1>2. at' = [at EXCEPT ![r] = "counted"] \/ at' = [at EXCEPT ![r] = "done"]
  BY DEF Score, Goes
<1>3. \/ scan' = [scan EXCEPT ![a] = Counted(a)] /\ Hit(r, a)
      \/ UNCHANGED <<scan, hits>>
  BY DEF Score
<1>4. failed' \in SUBSET Addresses
  BY <1>1 DEF Score, TypeOK
<1>5. /\ scan' \in [Addresses -> Counter]
      /\ \A b \in Addresses : scan'[b].count = 0 <=> scan'[b].until = 0
      /\ hits' \in [Addresses -> Hits]
  BY <1>1, <1>3, CountedType, HitType DEF TypeOK
<1>6. TypeOK'
  BY <1>2, <1>4, <1>5 DEF Score, TypeOK
<1>7. Flow'
  BY <1>2 DEF Score, Flow, TypeOK
<1> QED
  BY <1>6, <1>7 DEF Score, Buckets

LEMMA BaseSetBan == ASSUME Base, NEW r \in Requests, SetBan(r) PROVE Base'
<1> USE DEF Base
<1> DEFINE a == address[r]
<1>1. a \in Addresses
  BY DEF SetBan, Flow
<1>2. at' = [at EXCEPT ![r] = "banned"] \/ at' = [at EXCEPT ![r] = "done"]
  BY DEF SetBan, Goes
<1>3. \/ ban' = [ban EXCEPT ![a] = now + BanDuration] /\ hits' = [hits EXCEPT ![a].fresh = 0]
      \/ UNCHANGED <<ban, hits>>
  BY DEF SetBan
<1>4. failed' \in SUBSET Addresses
  BY <1>1 DEF SetBan, TypeOK
<1>5. now + BanDuration \in Nat
  BY NowType, ConstantFacts
<1> HIDE DEF a
<1>6. ban' \in [Addresses -> Nat]
  BY <1>3, <1>5 DEF TypeOK
<1>7. hits' \in [Addresses -> Hits]
  <2> DEFINE cleared == [hits[a] EXCEPT !.fresh = 0]
  <2>1. hits \in [Addresses -> Hits] /\ hits[a] \in Hits
    BY <1>1 DEF TypeOK
  <2>2. cleared \in Hits
    BY <2>1 DEF Hits
  <2>3. hits' = [hits EXCEPT ![a] = cleared] \/ hits' = hits
    BY <1>3
  <2> HIDE DEF cleared
  <2> QED
    BY <2>1, <2>2, <2>3
<1>8. TypeOK'
  BY <1>2, <1>4, <1>6, <1>7 DEF SetBan, TypeOK
<1>9. Flow'
  BY <1>2 DEF SetBan, Flow, TypeOK
<1> QED
  BY <1>8, <1>9 DEF SetBan, Buckets

LEMMA BaseClearCount == ASSUME Base, NEW r \in Requests, ClearCount(r) PROVE Base'
<1> USE DEF Base
<1>1. /\ scan' \in [Addresses -> Counter]
      /\ \A b \in Addresses : scan'[b].count = 0 <=> scan'[b].until = 0
  <2>1. NoCounter \in Counter /\ NoCounter.count = 0 /\ NoCounter.until = 0
    BY DEF Counter, NoCounter
  <2>2. scan' = [scan EXCEPT ![address[r]] = NoCounter] \/ scan' = scan
    BY DEF ClearCount
  <2> QED
    BY <2>1, <2>2 DEF TypeOK
<1>2. TypeOK'
  BY <1>1 DEF ClearCount, Goes, TypeOK, history
<1>3. Flow'
  BY DEF ClearCount, Goes, Flow, TypeOK
<1> QED
  BY <1>2, <1>3 DEF ClearCount, Buckets

LEMMA BaseAllow == ASSUME Base, NEW r \in Requests, Allow(r) PROVE Base'
<1> USE DEF Base
<1> DEFINE a == address[r]
<1>1. a \in Addresses
  BY DEF Allow, Flow
<1>2. at' = [at EXCEPT ![r] = "done"] \/ at' = [at EXCEPT ![r] = "throttled"]
  BY DEF Allow, Goes
<1>3. Level(a) \in 0..Burst /\ Burst \in Nat /\ now \in Time /\ now \in Nat
  BY <1>1, LevelType, TimeFacts, AddressGuardsAssumption DEF AddressGuardsAssumption, TypeOK
<1>4. CASE Level(a) > 0
  <2>1. /\ bucket' = [bucket EXCEPT ![a] = [level |-> Level(a) - 1, last |-> now, seen |-> now]]
        /\ admitted' = [admitted EXCEPT ![a][now] = @ + 1]
    BY <1>3, <1>4 DEF Allow
  <2>2. [level |-> Level(a) - 1, last |-> now, seen |-> now] \in Bucket
    BY <1>3, <1>4 DEF Bucket
  <2>3. admitted[a] \in [Time -> Nat] /\ admitted[a][now] + 1 \in Nat
    BY <1>1, <1>3 DEF TypeOK
  <2>4. bucket' \in [Addresses -> Bucket \cup {None}] /\ admitted' \in [Addresses -> [Time -> Nat]]
    BY <2>1, <2>2, <2>3 DEF TypeOK
  <2>5. TypeOK'
    BY <1>2, <2>4 DEF Allow, TypeOK, redis
  <2>6. Buckets'
    <3> SUFFICES ASSUME NEW b \in Addresses, bucket'[b] # None
                 PROVE  bucket'[b].last <= bucket'[b].seen /\ bucket'[b].seen <= now
      BY DEF Allow, Buckets
    <3>1. CASE b = a
      BY <1>3, <2>1, <3>1 DEF TypeOK
    <3>2. CASE b # a
      BY <2>1, <3>2 DEF Buckets, TypeOK
    <3> QED
      BY <3>1, <3>2
  <2>7. Flow'
    BY <1>2 DEF Allow, Flow, TypeOK
  <2> QED
    BY <2>5, <2>6, <2>7
<1>5. CASE Level(a) = 0
  <2>1. bucket' = [bucket EXCEPT ![a].seen = now] /\ UNCHANGED admitted
    BY <1>3, <1>5 DEF Allow
  <2>2. bucket[a] # None
    BY <1>5, AddressGuardsAssumption DEF AddressGuardsAssumption, Level
  <2>3. bucket[a] \in Bucket /\ bucket[a].last \in Nat /\ bucket[a].last <= now
    BY <1>1, <2>2, BucketFacts
  <2>4. bucket' \in [Addresses -> Bucket \cup {None}]
    BY <1>3, <2>1, <2>3 DEF TypeOK, Bucket
  <2>5. TypeOK'
    BY <1>2, <2>1, <2>4 DEF Allow, TypeOK, redis
  <2>6. Buckets'
    <3> SUFFICES ASSUME NEW b \in Addresses, bucket'[b] # None
                 PROVE  bucket'[b].last <= bucket'[b].seen /\ bucket'[b].seen <= now
      BY DEF Allow, Buckets
    <3>1. CASE b = a
      BY <1>1, <1>3, <2>1, <2>3, <3>1 DEF TypeOK, Bucket
    <3>2. CASE b # a
      BY <2>1, <3>2 DEF Buckets, TypeOK
    <3> QED
      BY <3>1, <3>2
  <2>7. Flow'
    BY <1>2 DEF Allow, Flow, TypeOK
  <2> QED
    BY <2>5, <2>6, <2>7
<1> QED
  BY <1>3, <1>4, <1>5 DEF Allow

LEMMA BaseStep == Base /\ [Next]_vars => Base'
<1> SUFFICES ASSUME Base, [Next]_vars PROVE Base'
  OBVIOUS
<1>1. CASE UNCHANGED vars
  BY <1>1 DEF vars, redis, request, history, Base, TypeOK, Flow, Buckets
<1>2. CASE Tick \/ Sweep
  BY <1>2, BaseTick, BaseSweep
<1>3. ASSUME NEW a \in Addresses, Unban(a) PROVE Base'
  BY <1>3, BaseUnban
<1>4. ASSUME NEW r \in Requests, NEW a \in Addresses, NEW k \in Kinds, Arrive(r, a, k)
      PROVE  Base'
  BY <1>4, BaseArrive
<1>5. ASSUME NEW r \in Requests,
             Answer(r) \/ Score(r) \/ SetBan(r) \/ ClearCount(r) \/ Allow(r)
      PROVE  Base'
  BY <1>5, BaseAnswer, BaseScore, BaseSetBan, BaseClearCount, BaseAllow
<1> QED
  BY <1>1, <1>2, <1>3, <1>4, <1>5 DEF Next

(* The type invariant, for all addresses, requests and limits.             *)
THEOREM TypeCorrect == Spec => []TypeOK
<1>1. Base => TypeOK
  BY DEF Base
<1> QED
  BY <1>1, BaseInit, BaseStep, PTL DEF Spec

(***************************************************************************)
(* Bans.                                                                   *)
(***************************************************************************)

(* A counter lives for a window after the last hit, and counts hits of one *)
(* chain.                                                                  *)
Windows ==
  \A a \in Addresses :
    /\ hits[a].last <= now
    /\ scan[a].count # 0 => now < scan[a].until /\ scan[a].until <= hits[a].last + WindowTTL
    /\ scan[a].count <= hits[a].chain

(* A counter at the threshold dies with the ban or before it.              *)
Guarded ==
  \A a \in Addresses \ failed :
    scan[a].count >= Threshold =>
      \/ ban[a] # 0 /\ scan[a].until <= ban[a]
      \/ \E r \in Requests : at[r] = "counted" /\ address[r] = a

(* How much longer a counter can live that stays below the threshold.      *)
Left(count) == (Threshold - 1 - count) * WindowTTL

(* A counter below the threshold with a hit from before the ban dies with  *)
(* the ban, whatever else is counted during it.                            *)
Restarts ==
  \A a \in Addresses :
    \/ scan[a].count <= hits[a].fresh
    \/ scan[a].count >= Threshold
    \/ ban[a] # 0 /\ scan[a].until + Left(scan[a].count) <= ban[a]

Bans == Windows /\ Guarded /\ Restarts

LEMMA CounterFacts ==
  ASSUME TypeOK, NEW a \in Addresses
  PROVE  /\ scan[a].count \in Nat /\ scan[a].until \in Nat /\ ban[a] \in Nat
         /\ scan[a].count = 0 <=> scan[a].until = 0
         /\ hits[a].chain \in Nat /\ hits[a].fresh \in Nat /\ hits[a].last \in Nat
<1>1. scan[a] \in Counter /\ hits[a] \in Hits /\ ban[a] \in Nat
  BY DEF TypeOK
<1>2. Time \subseteq Nat
  BY DEF Time
<1> QED
  BY <1>1, <1>2 DEF Counter, Hits, TypeOK

(* One hit more leaves one window less.                                    *)
LEMMA LeftFacts ==
  ASSUME NEW c \in Nat
  PROVE  /\ Left(c) \in Int
         /\ Left(c) = Left(c + 1) + WindowTTL
         /\ c < Threshold => 0 <= Left(c)
         /\ 1 <= c => Left(c) + WindowTTL <= BanDuration
<1> DEFINE n == Threshold - 1 - c
<1>1. n \in Int /\ WindowTTL \in Nat /\ BanDuration \in Nat /\ Threshold \in Nat
  BY ConstantFacts
<1>2. Left(c) = n * WindowTTL /\ Left(c + 1) = (n - 1) * WindowTTL
  BY <1>1 DEF Left
<1>3. (n - 1) * WindowTTL = n * WindowTTL - WindowTTL
  BY <1>1
<1>4. n * WindowTTL \in Int
  BY <1>1
<1>5. ASSUME c < Threshold PROVE 0 <= Left(c)
  <2>1. n \in Nat
    BY <1>1, <1>5
  <2>2. \A x, y \in Nat : 0 <= x * y
    OBVIOUS
  <2> QED
    BY <1>1, <1>2, <2>1, <2>2
<1>6. ASSUME 1 <= c PROVE Left(c) + WindowTTL <= BanDuration
  <2>1. (Threshold - 1) * WindowTTL <= BanDuration
    BY AddressGuardsAssumption DEF AddressGuardsAssumption
  <2>2. Left(c) + WindowTTL = (n + 1) * WindowTTL
    BY <1>1, <1>2
  <2>3. \A x, y \in Int, w \in Nat : x <= y => x * w <= y * w
    OBVIOUS
  <2>4. (n + 1) * WindowTTL <= (Threshold - 1) * WindowTTL
    BY <1>1, <1>6, <2>3
  <2> QED
    BY <1>1, <1>2, <1>4, <2>1, <2>2, <2>4
<1> QED
  BY <1>1, <1>2, <1>3, <1>4, <1>5, <1>6

LEMMA BansInit == Init => Bans
BY ConstantFacts DEF Init, Bans, Windows, Guarded, Restarts, NoCounter, NoHits

(* A step that touches neither Redis nor the history of the hits.          *)
LEMMA BansFrame ==
  ASSUME Bans, UNCHANGED <<now, scan, ban, failed, hits>>,
         \A r \in Requests : at[r] = "counted" => at'[r] = "counted" /\ address'[r] = address[r]
  PROVE  Bans'
<1>1. Windows' /\ Restarts'
  BY DEF Bans, Windows, Restarts
<1>2. Guarded'
  <2> SUFFICES ASSUME NEW a \in Addresses \ failed, scan[a].count >= Threshold,
                      ~(ban[a] # 0 /\ scan[a].until <= ban[a])
               PROVE  \E r \in Requests : at'[r] = "counted" /\ address'[r] = a
    BY DEF Guarded
  <2>1. PICK r \in Requests : at[r] = "counted" /\ address[r] = a
    BY DEF Bans, Guarded
  <2> QED
    BY <2>1
<1> QED
  BY <1>1, <1>2 DEF Bans

LEMMA BansTick == ASSUME Base, Bans, Tick PROVE Bans'
<1> USE DEF Bans
<1>1. TypeOK /\ now \in Nat /\ now' = now + 1
  BY NowType DEF Base, Tick
<1>2. UNCHANGED <<at, address, failed, hits>>
  BY DEF Tick, request, history
<1>3. ASSUME NEW a \in Addresses
      PROVE  /\ scan'[a] = IF scan[a].until <= now' THEN NoCounter ELSE scan[a]
             /\ ban'[a] = IF ban[a] <= now' THEN 0 ELSE ban[a]
  BY <1>3 DEF Tick
<1>4. ASSUME NEW a \in Addresses, scan'[a].count # 0
      PROVE  scan'[a] = scan[a] /\ now' < scan[a].until
  BY <1>1, <1>3, <1>4, CounterFacts DEF NoCounter
<1>5. Windows'
  <2> SUFFICES ASSUME NEW a \in Addresses
               PROVE  /\ hits[a].last <= now'
                      /\ scan'[a].count # 0 =>
                           now' < scan'[a].until /\ scan'[a].until <= hits[a].last + WindowTTL
                      /\ scan'[a].count <= hits[a].chain
    BY <1>2 DEF Windows
  <2>1. hits[a].last <= now /\ hits[a].last \in Nat
    BY <1>1, CounterFacts DEF Windows
  <2>2. CASE scan'[a].count = 0
    BY <1>1, <2>1, <2>2, CounterFacts
  <2>3. CASE scan'[a].count # 0
    BY <1>1, <1>4, <2>1, <2>3 DEF Windows
  <2> QED
    BY <2>2, <2>3
<1>6. Guarded'
  <2> SUFFICES ASSUME NEW a \in Addresses \ failed, scan'[a].count >= Threshold
               PROVE  \/ ban'[a] # 0 /\ scan'[a].until <= ban'[a]
                      \/ \E r \in Requests : at[r] = "counted" /\ address[r] = a
    BY <1>2 DEF Guarded
  <2>1. scan'[a] = scan[a] /\ now' < scan[a].until
    <3>1. scan'[a].count # 0
      BY ConstantFacts
    <3> QED
      BY <1>4, <3>1
  <2>2. CASE ban[a] # 0 /\ scan[a].until <= ban[a]
    BY <1>1, <1>3, <2>1, <2>2, CounterFacts
  <2>3. CASE ~(ban[a] # 0 /\ scan[a].until <= ban[a])
    BY <2>1, <2>3 DEF Guarded
  <2> QED
    BY <2>2, <2>3
<1>7. Restarts'
  <2> SUFFICES ASSUME NEW a \in Addresses
               PROVE  \/ scan'[a].count <= hits[a].fresh
                      \/ scan'[a].count >= Threshold
                      \/ ban'[a] # 0 /\ scan'[a].until + Left(scan'[a].count) <= ban'[a]
    BY <1>2 DEF Restarts, Left
  <2>1. CASE scan'[a].count = 0
    BY <1>1, <2>1, CounterFacts
  <2>2. CASE scan'[a].count # 0
    <3>1. scan'[a] = scan[a] /\ now' < scan[a].until
      BY <1>4, <2>2
    <3>2. ASSUME scan[a].count < Threshold, scan[a].until + Left(scan[a].count) <= ban[a]
          PROVE  now' < ban[a]
      BY <1>1, <3>1, <3>2, CounterFacts, LeftFacts
    <3>3. Threshold \in Nat /\ scan[a].count \in Nat /\ ban[a] \in Nat
      BY <1>1, ConstantFacts, CounterFacts
    <3> QED
      BY <1>1, <1>3, <3>1, <3>2, <3>3 DEF Restarts
  <2> QED
    BY <2>1, <2>2
<1> QED
  BY <1>5, <1>6, <1>7

(* A counter that is deleted counts nothing any more.                      *)
LEMMA BansCleared ==
  ASSUME Base, Bans, NEW a \in Addresses,
         scan' = [scan EXCEPT ![a] = NoCounter],
         UNCHANGED <<now, failed>>,
         \A b \in Addresses : b # a => ban'[b] = ban[b] /\ hits'[b] = hits[b],
         hits'[a].last = hits[a].last, hits'[a].chain \in Nat, hits'[a].fresh \in Nat,
         \A r \in Requests : at[r] = "counted" => at'[r] = "counted" /\ address'[r] = address[r]
  PROVE  Bans'
<1> USE DEF Bans
<1>1. scan'[a].count = 0
  BY DEF Base, TypeOK, NoCounter
<1>2. \A b \in Addresses : b # a => scan'[b] = scan[b]
  BY DEF Base, TypeOK
<1>3. Windows'
  BY <1>1, <1>2 DEF Windows
<1>4. Guarded'
  <2> SUFFICES ASSUME NEW b \in Addresses \ failed, scan'[b].count >= Threshold
               PROVE  \/ ban'[b] # 0 /\ scan'[b].until <= ban'[b]
                      \/ \E r \in Requests : at'[r] = "counted" /\ address'[r] = b
    BY DEF Guarded
  <2>1. b # a
    BY <1>1, ConstantFacts
  <2>2. CASE ban[b] # 0 /\ scan[b].until <= ban[b]
    BY <1>2, <2>1, <2>2
  <2>3. CASE ~(ban[b] # 0 /\ scan[b].until <= ban[b])
    <3>1. PICK r \in Requests : at[r] = "counted" /\ address[r] = b
      BY <1>2, <2>1, <2>3 DEF Guarded
    <3> QED
      BY <3>1
  <2> QED
    BY <2>2, <2>3
<1>5. Restarts'
  <2> SUFFICES ASSUME NEW b \in Addresses
               PROVE  \/ scan'[b].count <= hits'[b].fresh
                      \/ scan'[b].count >= Threshold
                      \/ ban'[b] # 0 /\ scan'[b].until + Left(scan'[b].count) <= ban'[b]
    BY DEF Restarts, Left
  <2>1. CASE b = a
    BY <1>1, <2>1
  <2>2. CASE b # a
    BY <1>2, <2>2 DEF Restarts
  <2> QED
    BY <2>1, <2>2
<1> QED
  BY <1>3, <1>4, <1>5

LEMMA BansUnban == ASSUME Base, Bans, NEW a \in Addresses, Unban(a) PROVE Bans'
<1>1. /\ hits'[a].last = hits[a].last /\ hits'[a].chain = 0 /\ hits'[a].fresh = hits[a].fresh
      /\ \A b \in Addresses : b # a => ban'[b] = ban[b] /\ hits'[b] = hits[b]
  BY DEF Unban, Base, TypeOK, Hits
<1>2. hits[a].fresh \in Nat
  BY CounterFacts DEF Base
<1>3. /\ scan' = [scan EXCEPT ![a] = NoCounter]
      /\ UNCHANGED <<now, failed, at, address>>
  BY DEF Unban, request
<1>4. hits'[a].chain \in Nat /\ hits'[a].fresh \in Nat
  BY <1>1, <1>2
<1> QED
  BY <1>1, <1>3, <1>4, BansCleared

LEMMA BansClearCount == ASSUME Base, Bans, NEW r \in Requests, ClearCount(r) PROVE Bans'
<1> DEFINE a == address[r]
<1>1. a \in Addresses
  BY DEF ClearCount, Base, Flow
<1>2. \A q \in Requests : at[q] = "counted" => at'[q] = "counted" /\ address'[q] = address[q]
  BY DEF ClearCount, Goes, Base, TypeOK
<1>3. CASE scan' = scan
  BY <1>2, <1>3, BansFrame DEF ClearCount, history
<1>4. CASE scan' = [scan EXCEPT ![a] = NoCounter]
  <2>1. UNCHANGED <<now, failed, ban, hits>>
    BY DEF ClearCount, history
  <2>2. /\ \A b \in Addresses : b # a => ban'[b] = ban[b] /\ hits'[b] = hits[b]
        /\ hits'[a].last = hits[a].last /\ hits'[a].chain \in Nat /\ hits'[a].fresh \in Nat
    BY <1>1, <2>1, CounterFacts DEF Base
  <2> HIDE DEF a
  <2> QED
    BY <1>1, <1>2, <1>4, <2>1, <2>2, BansCleared
<1> QED
  BY <1>3, <1>4 DEF ClearCount


(* The hit of a request that is scored.                                    *)
LEMMA HitFacts ==
  ASSUME Base, NEW r \in Requests, NEW a \in Addresses, kind[r] = "probe", Hit(r, a)
  PROVE  /\ \A b \in Addresses : b # a => hits'[b] = hits[b]
         /\ hits'[a].chain = IF now < hits[a].last + WindowTTL THEN hits[a].chain + 1 ELSE 1
         /\ hits'[a].fresh = hits[a].fresh + 1
         /\ hits'[a].last = now
BY DEF Base, TypeOK, Hit

(* A counter grows with the chain: it is gone when the chain breaks.       *)
LEMMA CountedFacts ==
  ASSUME Base, Bans, NEW r \in Requests, NEW a \in Addresses, kind[r] = "probe", Hit(r, a)
  PROVE  /\ Counted(a).count = scan[a].count + 1 /\ Counted(a).until = now + WindowTTL
         /\ Counted(a).count <= hits'[a].chain
         /\ scan[a].count # 0 => Counted(a).until <= scan[a].until + WindowTTL
<1>1. TypeOK /\ now \in Nat /\ WindowTTL \in Nat \ {0}
  BY NowType, ConstantFacts DEF Base
<1>2. Counted(a).count = scan[a].count + 1 /\ Counted(a).until = now + WindowTTL
  BY <1>1, CountedType
<1>3. /\ scan[a].count \in Nat /\ scan[a].until \in Nat
      /\ hits[a].chain \in Nat /\ hits[a].last \in Nat
  BY <1>1, CounterFacts
<1>4. /\ scan[a].count # 0 => now < scan[a].until /\ scan[a].until <= hits[a].last + WindowTTL
      /\ scan[a].count <= hits[a].chain
  BY DEF Bans, Windows
<1>5. hits'[a].chain = IF now < hits[a].last + WindowTTL THEN hits[a].chain + 1 ELSE 1
  BY HitFacts
<1>6. Counted(a).count <= hits'[a].chain
  BY <1>1, <1>2, <1>3, <1>4, <1>5
<1> QED
  BY <1>1, <1>2, <1>3, <1>4, <1>6

(* A hit that is counted, whether the answer arrives or not: then either   *)
(* the address has failed, or the request goes on to the ban, or the       *)
(* counter is still below the threshold.                                   *)
LEMMA BansCounted ==
  ASSUME Base, Bans, NEW r \in Requests, NEW a \in Addresses, kind[r] = "probe",
         address[r] = a, at[r] = "scoring",
         scan' = [scan EXCEPT ![a] = Counted(a)], Hit(r, a),
         UNCHANGED <<now, ban, address>>, failed \subseteq failed',
         \A q \in Requests : q # r => at'[q] = at[q],
         a \in failed' \/ at'[r] = "counted" \/ ~ReachesThreshold(Counted(a).count)
  PROVE  Bans'
<1> USE DEF Bans
<1>1. TypeOK /\ now \in Nat /\ WindowTTL \in Nat \ {0} /\ Threshold \in Nat \ {0}
  BY NowType, ConstantFacts DEF Base
<1>2. /\ scan'[a].count = scan[a].count + 1 /\ scan'[a].until = now + WindowTTL
      /\ scan'[a].count <= hits'[a].chain
      /\ scan[a].count # 0 => scan'[a].until <= scan[a].until + WindowTTL
      /\ scan'[a].count = Counted(a).count
  BY <1>1, CountedFacts DEF TypeOK
<1>3. \A b \in Addresses : b # a => scan'[b] = scan[b] /\ hits'[b] = hits[b]
  BY <1>1, HitFacts DEF TypeOK
<1>4. hits'[a].fresh = hits[a].fresh + 1 /\ hits'[a].last = now
  BY HitFacts
<1>5. /\ scan[a].count \in Nat /\ scan[a].until \in Nat /\ ban[a] \in Nat
      /\ hits[a].fresh \in Nat
  BY <1>1, CounterFacts
<1>6. Windows'
  <2> SUFFICES ASSUME NEW b \in Addresses
               PROVE  /\ hits'[b].last <= now
                      /\ scan'[b].count # 0 =>
                           now < scan'[b].until /\ scan'[b].until <= hits'[b].last + WindowTTL
                      /\ scan'[b].count <= hits'[b].chain
    BY DEF Windows
  <2>1. CASE b = a
    BY <1>1, <1>2, <1>4, <2>1
  <2>2. CASE b # a
    BY <1>3, <2>2 DEF Windows
  <2> QED
    BY <2>1, <2>2
<1>7. Guarded'
  <2> SUFFICES ASSUME NEW b \in Addresses \ failed', scan'[b].count >= Threshold,
                      ~(ban[b] # 0 /\ scan'[b].until <= ban[b])
               PROVE  \E q \in Requests : at'[q] = "counted" /\ address[q] = b
    BY DEF Guarded
  <2>1. CASE b = a
    BY <1>2, <2>1 DEF ReachesThreshold
  <2>2. CASE b # a
    <3>1. PICK q \in Requests : at[q] = "counted" /\ address[q] = b
      BY <1>3, <2>2 DEF Guarded
    <3> QED
      BY <3>1
  <2> QED
    BY <2>1, <2>2
<1>8. Restarts'
  <2> SUFFICES ASSUME NEW b \in Addresses
               PROVE  \/ scan'[b].count <= hits'[b].fresh
                      \/ scan'[b].count >= Threshold
                      \/ ban[b] # 0 /\ scan'[b].until + Left(scan'[b].count) <= ban[b]
    BY DEF Restarts, Left
  <2>1. CASE b # a
    BY <1>3, <2>1 DEF Restarts
  <2>2. CASE b = a /\ scan[a].count <= hits[a].fresh
    BY <1>2, <1>4, <1>5, <2>2
  <2>3. CASE b = a /\ scan[a].count >= Threshold
    BY <1>1, <1>2, <1>5, <2>3
  <2>4. CASE b = a /\ scan[a].count # 0 /\ ban[a] # 0 /\ scan[a].until + Left(scan[a].count) <= ban[a]
    <3>1. /\ Left(scan[a].count) = Left(scan[a].count + 1) + WindowTTL
          /\ Left(scan[a].count) \in Int /\ Left(scan[a].count + 1) \in Int
      BY <1>5, LeftFacts
    <3>2. scan'[a].until + Left(scan'[a].count) <= ban[a]
      BY <1>1, <1>2, <1>5, <2>4, <3>1
    <3> QED
      BY <2>4, <3>2
  <2> QED
    BY <1>5, <2>1, <2>2, <2>3, <2>4 DEF Restarts
<1> QED
  BY <1>6, <1>7, <1>8

LEMMA BansScore == ASSUME Base, Bans, NEW r \in Requests, Score(r) PROVE Bans'
<1> DEFINE a == address[r]
<1>1. a \in Addresses /\ kind[r] = "probe" /\ at[r] = "scoring"
  BY DEF Score, Base, Flow
<1>2. /\ UNCHANGED <<now, ban, address>> /\ failed \subseteq failed'
      /\ \A q \in Requests : q # r => at'[q] = at[q]
  BY DEF Score, Goes, Base, TypeOK
<1>3. CASE UNCHANGED <<scan, hits, failed>>
  <2>1. \A q \in Requests : at[q] = "counted" => at'[q] = "counted" /\ address'[q] = address[q]
    BY <1>1, <1>2
  <2> QED
    BY <1>2, <1>3, <2>1, BansFrame
<1>4. CASE /\ scan' = [scan EXCEPT ![a] = Counted(a)] /\ Hit(r, a)
           /\ Goes(r, IF ReachesThreshold(Counted(a).count) THEN "counted" ELSE "done")
  <2>1. at'[r] = "counted" \/ ~ReachesThreshold(Counted(a).count)
    BY <1>4 DEF Goes, Base, TypeOK
  <2> HIDE DEF a
  <2> QED
    BY <1>1, <1>2, <1>4, <2>1, BansCounted DEF a
<1>5. CASE scan' = [scan EXCEPT ![a] = Counted(a)] /\ Hit(r, a) /\ failed' = failed \cup {a}
  BY <1>1, <1>2, <1>5, BansCounted
<1> QED
  BY <1>3, <1>4, <1>5 DEF Score

LEMMA BansSetBan == ASSUME Base, Bans, NEW r \in Requests, SetBan(r) PROVE Bans'
<1> USE DEF Bans
<1> DEFINE a == address[r]
<1>1. a \in Addresses /\ at[r] = "counted"
  BY DEF SetBan, Base, Flow
<1>2. TypeOK /\ now \in Nat /\ WindowTTL \in Nat \ {0} /\ BanDuration \in Nat
      /\ WindowTTL <= BanDuration /\ Threshold \in Nat \ {0}
  BY NowType, ConstantFacts, AddressGuardsAssumption DEF AddressGuardsAssumption, Base
<1>3. /\ UNCHANGED <<now, scan, address>> /\ failed \subseteq failed'
      /\ \A q \in Requests : q # r => at'[q] = at[q]
  BY DEF SetBan, Goes, Base, TypeOK
<1>4. \/ ban' = [ban EXCEPT ![a] = now + BanDuration] /\ hits' = [hits EXCEPT ![a].fresh = 0]
      \/ UNCHANGED <<ban, hits>> /\ a \in failed'
  BY DEF SetBan
<1> HIDE DEF a
<1>5. CASE UNCHANGED <<ban, hits>> /\ a \in failed'
  <2>1. Windows' /\ Restarts'
    BY <1>3, <1>5 DEF Windows, Restarts, Left
  <2>2. Guarded'
    <3> SUFFICES ASSUME NEW b \in Addresses \ failed', scan[b].count >= Threshold,
                        ~(ban[b] # 0 /\ scan[b].until <= ban[b])
                 PROVE  \E q \in Requests : at'[q] = "counted" /\ address[q] = b
      BY <1>3, <1>5 DEF Guarded
    <3>1. PICK q \in Requests : at[q] = "counted" /\ address[q] = b
      BY <1>3 DEF Guarded
    <3>2. q # r
      BY <1>5, <3>1 DEF a
    <3> QED
      BY <1>3, <3>1, <3>2
  <2> QED
    BY <2>1, <2>2
<1>6. CASE ban' = [ban EXCEPT ![a] = now + BanDuration] /\ hits' = [hits EXCEPT ![a].fresh = 0]
  <2>1. /\ ban'[a] = now + BanDuration /\ hits'[a].fresh = 0
        /\ hits'[a].last = hits[a].last /\ hits'[a].chain = hits[a].chain
        /\ \A b \in Addresses : b # a => ban'[b] = ban[b] /\ hits'[b] = hits[b]
    BY <1>1, <1>2, <1>6 DEF TypeOK, Hits
  <2>2. /\ scan[a].count \in Nat /\ scan[a].until \in Nat /\ hits[a].last \in Nat
        /\ (scan[a].count = 0 <=> scan[a].until = 0)
    BY <1>1, <1>2, CounterFacts
  <2>3. scan[a].until <= now + WindowTTL
    BY <1>1, <1>2, <2>2 DEF Windows
  <2>4. Windows'
    <3> SUFFICES ASSUME NEW b \in Addresses
                 PROVE  hits'[b].last = hits[b].last /\ hits'[b].chain = hits[b].chain
      BY <1>3 DEF Windows
    <3> QED
      BY <2>1
  <2>5. Guarded'
    <3> SUFFICES ASSUME NEW b \in Addresses \ failed', scan[b].count >= Threshold,
                        ~(ban'[b] # 0 /\ scan[b].until <= ban'[b])
                 PROVE  \E q \in Requests : at'[q] = "counted" /\ address[q] = b
      BY <1>3 DEF Guarded
    <3>1. b # a
      BY <1>2, <2>1, <2>2, <2>3
    <3>2. PICK q \in Requests : at[q] = "counted" /\ address[q] = b
      BY <1>3, <2>1, <3>1 DEF Guarded
    <3>3. q # r
      BY <3>1, <3>2 DEF a
    <3> QED
      BY <1>3, <3>2, <3>3
  <2>6. Restarts'
    <3> SUFFICES ASSUME NEW b \in Addresses
                 PROVE  \/ scan[b].count <= hits'[b].fresh
                        \/ scan[b].count >= Threshold
                        \/ ban'[b] # 0 /\ scan[b].until + Left(scan[b].count) <= ban'[b]
      BY <1>3 DEF Restarts, Left
    <3>1. CASE b # a
      BY <2>1, <3>1 DEF Restarts
    <3>2. CASE b = a /\ scan[a].count = 0
      BY <2>1, <3>2
    <3>3. CASE b = a /\ scan[a].count # 0
      <4>1. Left(scan[a].count) + WindowTTL <= BanDuration /\ Left(scan[a].count) \in Int
        BY <2>2, <3>3, LeftFacts
      <4> QED
        BY <1>2, <2>1, <2>2, <2>3, <3>3, <4>1
    <3> QED
      BY <3>1, <3>2, <3>3
  <2> QED
    BY <2>4, <2>5, <2>6
<1> QED
  BY <1>4, <1>5, <1>6

LEMMA BansStep == Base /\ Bans /\ [Next]_vars => Bans'
<1> SUFFICES ASSUME Base, Bans, [Next]_vars PROVE Bans'
  OBVIOUS
<1>1. CASE UNCHANGED vars
  BY <1>1, BansFrame DEF vars, redis, request, history
<1>2. CASE Tick
  BY <1>2, BansTick
<1>3. CASE Sweep
  BY <1>3, BansFrame DEF Sweep, redis, request, history
<1>4. ASSUME NEW a \in Addresses, Unban(a) PROVE Bans'
  BY <1>4, BansUnban
<1>5. ASSUME NEW r \in Requests, NEW a \in Addresses, NEW k \in Kinds, Arrive(r, a, k)
      PROVE  Bans'
  <2>1. \A q \in Requests : at[q] = "counted" => at'[q] = "counted" /\ address'[q] = address[q]
    BY <1>5 DEF Arrive, Goes, Base, TypeOK
  <2> QED
    BY <1>5, <2>1, BansFrame DEF Arrive, redis, history
<1>6. ASSUME NEW r \in Requests, Answer(r) PROVE Bans'
  <2>1. \A q \in Requests : at[q] = "counted" => at'[q] = "counted" /\ address'[q] = address[q]
    BY <1>6 DEF Answer, Goes, Base, TypeOK
  <2> QED
    BY <1>6, <2>1, BansFrame DEF Answer, redis, history
<1>7. ASSUME NEW r \in Requests, Allow(r) PROVE Bans'
  <2>1. \A q \in Requests : at[q] = "counted" => at'[q] = "counted" /\ address'[q] = address[q]
    BY <1>7 DEF Allow, Goes, Base, TypeOK
  <2> QED
    BY <1>7, <2>1, BansFrame DEF Allow, redis
<1>8. ASSUME NEW r \in Requests, Score(r) \/ SetBan(r) \/ ClearCount(r) PROVE Bans'
  BY <1>8, BansScore, BansSetBan, BansClearCount
<1> QED
  BY <1>1, <1>2, <1>3, <1>4, <1>5, <1>6, <1>7, <1>8 DEF Next

(* No two requests pass the threshold between them: for every threshold    *)
(* and window, and however many requests are scored at a time.             *)
THEOREM EnoughHitsTheorem == Spec => []EnoughHitsBan
<1>1. Bans => EnoughHitsBan
  BY DEF Bans, Guarded, EnoughHitsBan
<1> QED
  BY <1>1, BaseInit, BaseStep, BansInit, BansStep, PTL DEF Spec

(* The counter restarts cleanly after a ban, if a ban outlasts every chain *)
(* of hits below the threshold.                                            *)
THEOREM CleanRestartTheorem == Spec => []CleanRestart
<1>1. Base /\ Bans => CleanRestart
  <2> SUFFICES ASSUME Base, Bans, NEW a \in Addresses, ban[a] = 0, scan[a].count < Threshold
               PROVE  scan[a].count <= hits[a].fresh
    BY DEF CleanRestart
  <2>1. scan[a].count \in Nat /\ Threshold \in Nat
    BY CounterFacts, ConstantFacts DEF Base
  <2> QED
    BY <2>1 DEF Bans, Restarts
<1> QED
  BY <1>1, BaseInit, BaseStep, BansInit, BansStep, PTL DEF Spec

(* The step to a ban needs the threshold of suspicious requests in one     *)
(* chain, none of them with an Authorization header.                       *)
THEOREM BanNeedsHitsTheorem == Spec => BanNeedsHits
<1>1. ASSUME Base, Bans, [Next]_vars
      PROVE  [\A r \in Requests : at[r] = "scoring" /\ at'[r] = "counted" =>
                 hits'[address[r]].chain >= Threshold]_vars
  <2> SUFFICES ASSUME NEW r \in Requests, at[r] = "scoring", at'[r] = "counted", Next
               PROVE  hits'[address[r]].chain >= Threshold
    BY <1>1 DEF vars, request
  <2> DEFINE a == address[r]
  <2>1. Score(r)
    <3>1. at \in [Requests -> {"idle", "running", "scoring", "counted", "banned",
                              "forbidden", "throttled", "done"}]
      BY <1>1 DEF Base, TypeOK
    <3>2. ~(Tick \/ Sweep) /\ \A b \in Addresses : ~Unban(b)
      BY DEF Tick, Sweep, Unban, request
    <3>3. ASSUME NEW q \in Requests
          PROVE  /\ \A b \in Addresses, k \in Kinds : ~Arrive(q, b, k)
                 /\ ~Answer(q) /\ ~SetBan(q) /\ ~ClearCount(q) /\ ~Allow(q)
      BY <3>1, <3>3 DEF Arrive, Answer, SetBan, ClearCount, Allow, Goes
    <3>4. ASSUME NEW q \in Requests, Score(q) PROVE q = r
      BY <3>1, <3>4 DEF Score, Goes
    <3> QED
      BY <3>2, <3>3, <3>4 DEF Next
  <2>2. a \in Addresses /\ kind[r] = "probe"
    BY <1>1 DEF Base, Flow
  <2>3. Hit(r, a) /\ ReachesThreshold(Counted(a).count)
    BY <1>1, <2>1 DEF Score, Goes, Base, TypeOK
  <2>4. Counted(a).count <= hits'[a].chain /\ Counted(a).count = scan[a].count + 1
    BY <1>1, <2>2, <2>3, CountedFacts
  <2>5. scan[a].count \in Nat /\ Threshold \in Nat
    BY <1>1, <2>2, CounterFacts, ConstantFacts DEF Base
  <2>6. hits'[a].chain \in Nat
    BY <1>1, <2>2, <2>3, HitType DEF Base, Hits
  <2> QED
    BY <2>3, <2>4, <2>5, <2>6 DEF ReachesThreshold
<1> QED
  BY <1>1, BaseInit, BaseStep, BansInit, BansStep, PTL DEF Spec, BanNeedsHits

(***************************************************************************)
(* Buckets.                                                                *)
(***************************************************************************)

(* Of an address: the tokens of its bucket are at most those the time has  *)
(* given and no login has taken; nothing is let through in the future.     *)
TokensOf(a) ==
  /\ \A t \in Time : now < t => admitted[a][t] = 0
  /\ \A from \in Time :
       from <= now => SumFrom(admitted[a], from)[now] + Level(a) <= Burst + (now - from)
  /\ \A from, to \in Time :
       from <= to => SumFrom(admitted[a], from)[to] <= Burst + (to - from)

Tokens == \A a \in Addresses : TokensOf(a)

LEMMA SumOfNothing ==
  ASSUME NEW counts \in [Time -> Nat], \A t \in Time : counts[t] = 0,
         NEW from \in Time, NEW to \in Time
  PROVE  SumFrom(counts, from)[to] = 0
<1>1. CASE to < from
  BY <1>1, SumBefore
<1>2. CASE from <= to
  <2>1. from \in Nat /\ from <= from
    BY DEF Time
  <2>2. SumFrom(counts, from)[to] = SumFrom(counts, from)[from]
    BY <1>2, <2>1, SumAfter
  <2>3. SumFrom(counts, from)[from] = Addend(counts, from, SumFrom(counts, from), from)
    BY SumEquation
  <2>4. SumFrom(counts, from)[from] = 0
    BY <2>1, <2>3 DEF Addend
  <2> QED
    BY <2>2, <2>4
<1> QED
  BY <1>1, <1>2 DEF Time

LEMMA TokensInit == Init => Tokens
<1> SUFFICES ASSUME Init, NEW a \in Addresses PROVE TokensOf(a)
  BY DEF Tokens
<1>1. admitted[a] \in [Time -> Nat] /\ \A t \in Time : admitted[a][t] = 0
  BY DEF Init
<1>2. \A from, to \in Time : SumFrom(admitted[a], from)[to] = 0
  BY <1>1, SumOfNothing
<1>3. Level(a) = Burst /\ Burst \in Nat /\ now = 0 /\ 0 \in Time
  BY ConstantFacts, TimeFacts DEF Init, Level
<1> QED
  BY <1>1, <1>2, <1>3 DEF TokensOf, Time

(* A step that lets nobody through and fills no bucket.                    *)
LEMMA TokensFrame ==
  ASSUME Tokens, UNCHANGED <<now, admitted>>, \A a \in Addresses : Level(a)' = Level(a)
  PROVE  Tokens'
<1> SUFFICES ASSUME NEW a \in Addresses PROVE TokensOf(a)'
  BY DEF Tokens
<1>1. TokensOf(a)
  BY DEF Tokens
<1>2. Level(a)' = Level(a)
  OBVIOUS
<1>3. admitted'[a] = admitted[a] /\ now' = now
  OBVIOUS
<1> QED
  BY <1>1, <1>2, <1>3 DEF TokensOf

(* A unit of time is at most a token.                                      *)
LEMMA TokensTick == ASSUME Base, Tokens, Tick PROVE Tokens'
<1> SUFFICES ASSUME NEW a \in Addresses PROVE TokensOf(a)'
  BY DEF Tokens
<1>1. TokensOf(a)
  BY DEF Tokens
<1>2. now' = now + 1 /\ now \in Nat /\ now \in Time /\ now' \in Time /\ Burst \in Nat
  BY NowType, ConstantFacts, TimeFacts DEF Tick, Base
<1>3. UNCHANGED <<bucket, admitted>>
  BY DEF Tick, history
<1>4. Level(a) \in 0..Burst
  BY LevelType DEF Base
<1>5. Level(a)' \in Int /\ Level(a)' <= Burst /\ Level(a)' <= Level(a) + 1
  <2>1. CASE bucket[a] = None
    BY <1>2, <1>3, <2>1 DEF Level
  <2>2. CASE bucket[a] # None
    <3>1. bucket[a].level \in 0..Burst /\ bucket[a].last \in Nat /\ bucket[a].last <= now
      BY <2>2, BucketFacts DEF Base
    <3> QED
      BY <1>2, <1>3, <2>2, <3>1 DEF Level
  <2> QED
    BY <2>1, <2>2
<1>6. admitted[a] \in [Time -> Nat]
  BY DEF Base, TypeOK
<1>7. ASSUME NEW from \in Time, from <= now'
      PROVE  SumFrom(admitted[a], from)[now'] + Level(a)' <= Burst + (now' - from)
  <2>1. CASE from = now'
    <3>1. SumFrom(admitted[a], from)[now'] = 0
      <4>1. admitted[a][now'] = 0
        BY <1>1, <1>2 DEF TokensOf
      <4> QED
        BY <1>2, <1>6, <2>1, <4>1, SumEquation DEF Addend
    <3> QED
      BY <1>2, <1>5, <2>1, <3>1
  <2>2. CASE from <= now
    <3>1. SumFrom(admitted[a], from)[now'] = SumFrom(admitted[a], from)[now]
      BY <1>1, <1>2, <1>6, <2>2, SumAfter DEF TokensOf
    <3>2. SumFrom(admitted[a], from)[now] \in Nat
      BY <1>2, <1>6, SumType
    <3>3. SumFrom(admitted[a], from)[now] + Level(a) <= Burst + (now - from)
      BY <1>1, <2>2 DEF TokensOf
    <3>4. from \in Nat /\ Level(a) \in Int /\ now' - from = (now - from) + 1
      BY <1>2, <1>4 DEF Time
    <3>5. \A sum, old, new, b, d \in Int :
            sum + old <= b + d /\ new <= old + 1 => sum + new <= b + (d + 1)
      OBVIOUS
    <3>6. SumFrom(admitted[a], from)[now] + Level(a)' <= Burst + ((now - from) + 1)
      BY <1>2, <1>5, <3>2, <3>3, <3>4, <3>5
    <3> QED
      BY <1>2, <1>5, <3>1, <3>2, <3>4, <3>6
  <2> QED
    BY <1>2, <1>7, <2>1, <2>2 DEF Time
<1>8. \A t \in Time : now' < t => admitted[a][t] = 0
  BY <1>1, <1>2 DEF TokensOf, Time
<1> QED
  BY <1>1, <1>3, <1>7, <1>8 DEF TokensOf

(* An idle bucket is full.                                                 *)
LEMMA TokensSweep == ASSUME Base, Tokens, Sweep PROVE Tokens'
<1>1. UNCHANGED <<now, admitted>>
  BY DEF Sweep, history
<1>2. ASSUME NEW a \in Addresses PROVE Level(a)' = Level(a)
  <2>1. \/ bucket'[a] = bucket[a]
        \/ bucket[a] # None /\ Idle(a) /\ bucket'[a] = None
    BY DEF Sweep
  <2>2. CASE bucket'[a] = bucket[a]
    BY <1>1, <2>2 DEF Level
  <2>3. CASE bucket[a] # None /\ Idle(a) /\ bucket'[a] = None
    <3>1. /\ bucket[a].level \in 0..Burst /\ bucket[a].last \in Nat /\ bucket[a].seen \in Nat
          /\ bucket[a].last <= bucket[a].seen /\ now \in Nat
      BY <2>3, BucketFacts, NowType DEF Base
    <3>2. bucket[a].seen + IdleTTL < now /\ Burst <= IdleTTL /\ Burst \in Nat /\ IdleTTL \in Nat
      BY <2>3, ConstantFacts, AddressGuardsAssumption DEF Idle, AddressGuardsAssumption
    <3>3. Level(a) = Burst
      BY <2>3, <3>1, <3>2 DEF Level
    <3>4. Level(a)' = Burst
      BY <2>3 DEF Level
    <3> QED
      BY <3>3, <3>4
  <2> QED
    BY <2>1, <2>2, <2>3
<1> QED
  BY <1>1, <1>2, TokensFrame

LEMMA TokensAllow == ASSUME Base, Tokens, NEW r \in Requests, Allow(r) PROVE Tokens'
<1>1. PICK a \in Addresses : a = address[r]
  BY DEF Allow, Base, Flow
<1>2. /\ now' = now /\ now \in Nat /\ now \in Time /\ Burst \in Nat \ {0}
      /\ Level(a) \in 0..Burst
  BY NowType, ConstantFacts, LevelType DEF Allow, Base
<1>3. /\ bucket \in [Addresses -> Bucket \cup {None}]
      /\ admitted \in [Addresses -> [Time -> Nat]] /\ admitted[a] \in [Time -> Nat]
  BY <1>1 DEF Base, TypeOK
<1>4. CASE Level(a) = 0
  <2>1. bucket' = [bucket EXCEPT ![a].seen = now] /\ UNCHANGED admitted
    BY <1>1, <1>2, <1>4 DEF Allow
  <2>2. bucket[a] # None
    BY <1>2, <1>4 DEF Level
  <2>3. bucket[a] \in Bucket
    BY <1>1, <1>3, <2>2
  <2>4. /\ bucket'[a] \in Bucket /\ bucket'[a].level = bucket[a].level
        /\ bucket'[a].last = bucket[a].last
        /\ \A b \in Addresses : b # a => bucket'[b] = bucket[b]
    BY <1>2, <1>3, <2>1, <2>3 DEF Bucket
  <2>5. bucket'[a] # None
    BY <2>4, AddressGuardsAssumption DEF AddressGuardsAssumption, Bucket, Time
  <2>6. \A b \in Addresses : Level(b)' = Level(b)
    BY <1>2, <2>2, <2>4, <2>5 DEF Level
  <2> QED
    BY <1>2, <2>1, <2>6, TokensFrame
<1>5. CASE Level(a) > 0
  <2>1. /\ bucket' = [bucket EXCEPT ![a] = [level |-> Level(a) - 1, last |-> now, seen |-> now]]
        /\ admitted' = [admitted EXCEPT ![a][now] = @ + 1]
    BY <1>1, <1>2, <1>5 DEF Allow
  <2>2. bucket'[a] = [level |-> Level(a) - 1, last |-> now, seen |-> now]
    BY <1>1, <1>3, <2>1
  <2>3. bucket'[a] # None
    BY <1>2, <1>5, <2>2, AddressGuardsAssumption DEF AddressGuardsAssumption
  <2>4. Level(a)' = Level(a) - 1
    BY <1>2, <1>5, <2>2, <2>3 DEF Level
  <2>5. admitted'[a] = [admitted[a] EXCEPT ![now] = @ + 1]
    BY <1>1, <1>3, <2>1
  <2>6. ASSUME NEW b \in Addresses, b # a PROVE TokensOf(b)'
    <3>1. bucket'[b] = bucket[b] /\ admitted'[b] = admitted[b]
      BY <1>3, <2>1, <2>6
    <3>2. Level(b)' = Level(b)
      BY <1>2, <3>1 DEF Level
    <3> QED
      BY <1>2, <3>1, <3>2 DEF Tokens, TokensOf
  <2>7. TokensOf(a)
    BY <1>1 DEF Tokens
  <2>8. ASSUME NEW from \in Time, NEW t \in Time
        PROVE  /\ SumFrom(admitted'[a], from)[t] =
                     SumFrom(admitted[a], from)[t] + IF from <= now /\ now <= t THEN 1 ELSE 0
               /\ SumFrom(admitted[a], from)[t] \in Nat
               /\ from \in Nat /\ t \in Nat
    <3>1. from \in Nat /\ t \in Nat
      BY DEF Time
    <3>2. SumFrom(admitted'[a], from)[t] =
            SumFrom(admitted[a], from)[t] + IF from <= now /\ now <= t THEN 1 ELSE 0
      <4> DEFINE counts == admitted[a]
                 more == admitted'[a]
                 n == now
      <4>1. /\ n \in Time /\ counts \in [Time -> Nat] /\ more \in [Time -> Nat]
            /\ more[n] = counts[n] + 1
            /\ \A u \in Time : u # n => more[u] = counts[u]
        BY <1>2, <1>3, <2>5
      <4> HIDE DEF counts, more, n
      <4>2. SumFrom(more, from)[t] = SumFrom(counts, from)[t] + IF from <= n /\ n <= t THEN 1 ELSE 0
        BY <4>1, SumOfOneMore
      <4> QED
        BY <4>2 DEF counts, more, n
    <3>3. SumFrom(admitted[a], from)[t] \in Nat
      BY <1>3, SumType
    <3> QED
      BY <3>1, <3>2, <3>3
  <2>9. \A t \in Time : now < t => admitted'[a][t] = 0
    BY <1>2, <1>3, <2>5, <2>7 DEF TokensOf
  <2>10. ASSUME NEW from \in Time, from <= now
         PROVE  SumFrom(admitted'[a], from)[now] + Level(a)' <= Burst + (now - from)
    <3>1. SumFrom(admitted[a], from)[now] + Level(a) <= Burst + (now - from)
      BY <2>7, <2>10 DEF TokensOf
    <3> QED
      BY <1>2, <2>4, <2>8, <2>10, <3>1
  <2>11. ASSUME NEW from \in Time, NEW to \in Time, from <= to
         PROVE  SumFrom(admitted'[a], from)[to] <= Burst + (to - from)
    <3>1. CASE from <= now /\ now <= to
      <4>1. SumFrom(admitted'[a], from)[to] = SumFrom(admitted'[a], from)[now]
        <5>1. SumFrom(admitted[a], from)[to] = SumFrom(admitted[a], from)[now]
          BY <1>2, <1>3, <2>7, <3>1, SumAfter DEF TokensOf
        <5> QED
          BY <1>2, <2>8, <3>1, <5>1
      <4>2. /\ SumFrom(admitted'[a], from)[now] \in Nat /\ from \in Nat /\ to \in Nat
            /\ Level(a)' \in Nat
        BY <1>2, <1>5, <2>4, <2>8
      <4>3. SumFrom(admitted'[a], from)[now] + Level(a)' <= Burst + (now - from)
        BY <2>10, <3>1
      <4> QED
        BY <1>2, <3>1, <4>1, <4>2, <4>3
    <3>2. CASE ~(from <= now /\ now <= to)
      BY <2>7, <2>8, <2>11, <3>2 DEF TokensOf
    <3> QED
      BY <3>1, <3>2
  <2>12. TokensOf(a)'
    BY <1>2, <2>9, <2>10, <2>11 DEF TokensOf
  <2> QED
    BY <2>6, <2>12 DEF Tokens
<1> QED
  BY <1>2, <1>4, <1>5

LEMMA TokensStep == Base /\ Tokens /\ [Next]_vars => Tokens'
<1> SUFFICES ASSUME Base, Tokens, [Next]_vars PROVE Tokens'
  OBVIOUS
<1>1. ASSUME UNCHANGED <<now, bucket, admitted>> PROVE Tokens'
  BY <1>1, TokensFrame DEF Level
<1>2. CASE UNCHANGED vars
  BY <1>1, <1>2 DEF vars, history
<1>3. CASE Tick \/ Sweep
  BY <1>3, TokensTick, TokensSweep
<1>4. ASSUME NEW a \in Addresses, Unban(a) PROVE Tokens'
  BY <1>1, <1>4 DEF Unban
<1>5. ASSUME NEW r \in Requests, NEW a \in Addresses, NEW k \in Kinds, Arrive(r, a, k)
      PROVE  Tokens'
  BY <1>1, <1>5 DEF Arrive, history
<1>6. ASSUME NEW r \in Requests, Answer(r) \/ Score(r) \/ SetBan(r) \/ ClearCount(r)
      PROVE  Tokens'
  BY <1>1, <1>6 DEF Answer, Score, SetBan, ClearCount, history
<1>7. ASSUME NEW r \in Requests, Allow(r) PROVE Tokens'
  BY <1>7, TokensAllow
<1> QED
  BY <1>2, <1>3, <1>4, <1>5, <1>6, <1>7 DEF Next

(* Evicting buckets gives no login away, in any stretch of time.           *)
THEOREM LoginsTheorem == Spec => []LoginsAreLimited
<1>1. Tokens => LoginsAreLimited
  BY DEF Tokens, TokensOf, LoginsAreLimited
<1> QED
  BY <1>1, BaseInit, BaseStep, TokensInit, TokensStep, PTL DEF Spec

=============================================================================

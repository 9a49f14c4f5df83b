---------------------------- MODULE RateLimitProofs ----------------------------
(***************************************************************************)
(* Proofs about the rate limiter, for every number of requests, addresses  *)
(* and hosts, every limit, window, resolution of the clock and length of   *)
(* the run, however many checks are in flight and however long they take.  *)
(*                                                                         *)
(* The charges of a key fall into successive buckets.  As long as every    *)
(* write of the key rested on a view that held, the invariant knows when   *)
(* the last bucket started, also after Redis dropped it: it holds at most  *)
(* Limit charges, the first of them at its start, the buckets before it    *)
(* left less than Limit charges within a window of its start, and whoever  *)
(* is about to write on a view that still holds either counts one more in  *)
(* that bucket or starts the next.                                         *)
(***************************************************************************)
EXTENDS RateLimit, FiniteSetTheorems, TLAPS

Limited(k) == Limit[LayerOf(k)]

(* What a check in flight knows.                                           *)
CheckOK(r) ==
  /\ phase[r] # "idle" => who[r] \in [ip : Ip, host : Host]
  /\ Checking(r) => now[r] <= clock
  /\ phase[r] = "put" =>
       /\ pending[r] \in [count : 1 .. Limit[LayerAt(r)], resetAt : Nat]
       /\ view[r] \in [charged : SUBSET charges[KeyAt(r)], sound : BOOLEAN]

ChecksOK == \A r \in Request : CheckOK(r)

(* Nobody is charged twice under a key, or for a time to come.             *)
ChargeOK(k, x) ==
  /\ x.at <= clock
  /\ phase[x.by] # "idle"
  /\ Checking(x.by) => \E i \in 1 .. layer[x.by] - 1 : LayerOf(k) = Layers[i]

ChargesOK ==
  \A k \in Key : IsFiniteSet(charges[k]) /\ \A x \in charges[k] : ChargeOK(k, x)

(* The charges c under k from s on, and between t and s.                   *)
Since(c, s) == {x \in c : s <= x.at}

Between(c, t, s) == {x \in c : t <= x.at /\ x.at < s}

(* r is about to write k, on a view that still holds.                      *)
Sees(r, k) == phase[r] = "put" /\ KeyAt(r) = k /\ Holds(r)

(* Then it counts one more in the bucket that started at s, or starts the  *)
(* next one.                                                               *)
WritesOn(r, k, s) ==
  /\ \A x \in charges[k] : x.at <= now[r]
  /\ \/ /\ charges[k] # {} /\ now[r] < s + Span(k)
        /\ pending[r].count = Cardinality(Since(charges[k], s)) + 1
        /\ pending[r].resetAt = s + Span(k)
     \/ /\ s + Span(k) <= now[r]
        /\ pending[r].count = 1
        /\ pending[r].resetAt = now[r] + Span(k)

(* The last bucket of k started at s.                                      *)
StartedAt(k, s) ==
  /\ charges[k] # {} => \E x \in charges[k] : x.at = s
  /\ \A x \in charges[k] : x.at < s + Span(k)
  /\ Cardinality(Since(charges[k], s)) <= Limited(k)
  /\ \A t \in Int : s - Span(k) < t => Cardinality(Between(charges[k], t, s)) < Limited(k)
  /\ store[k] # Nil =>
       /\ store[k].resetAt = s + Span(k)
       /\ store[k].count = Cardinality(Since(charges[k], s))
       /\ \/ store[k].resetAt + Slack * Second <= store[k].expiresAt
          \/ MaxTime < store[k].expiresAt
  /\ store[k] = Nil => s + Span(k) + Slack * Second <= clock
  /\ \A r \in Request : Sees(r, k) => WritesOn(r, k, s)

BucketsOK == \A k \in Key \ disturbed : \E s \in Int : StartedAt(k, s)

(* In no stretch as long as the window is the limit reached twice.         *)
PromiseOK ==
  \A k \in Key \ disturbed, t \in Int : Cardinality(Within(k, t)) <= 2 * Limited(k) - 1

(* As long as nobody else is charged, the bucket that refused a request is *)
(* the last one.                                                           *)
RetryOK(r) ==
  /\ retryAt[r].time \in Nat
  /\ retryAt[r].charged \subseteq charges[KeyAt(r)]
  /\ retryAt[r].charged = charges[KeyAt(r)] =>
       store[KeyAt(r)] = Nil \/ store[KeyAt(r)].resetAt <= retryAt[r].time

RetriesOK == \A r \in Request : phase[r] = "refused" => RetryOK(r)

IInv ==
  LimiterTypeOK /\ ChecksOK /\ ChargesOK /\ BucketsOK /\ PromiseOK /\ RetriesOK

-----------------------------------------------------------------------------
(* Lemmas about numbers, keys and buckets. *)

(* Rounding up to seconds never rounds down. *)
LEMMA RoundedUp ==
  ASSUME NEW n \in Nat, NEW d \in Nat \ {0}
  PROVE  /\ (n + d - 1) \div d \in Nat
         /\ n <= d * ((n + d - 1) \div d)
<1> DEFINE m == n + d - 1
<1>1. m \in Nat  OBVIOUS
<1> HIDE DEF m
<1>2. m \div d \in Int /\ m \div d >= 0 /\ m < d * (m \div d) + d  BY <1>1
<1>3. d * (m \div d) \in Int  BY <1>2
<1> QED  BY <1>2, <1>3 DEF m

LEMMA Product ==
  ASSUME NEW a \in Nat \ {0}, NEW b \in Nat \ {0}
  PROVE  a * b \in Nat \ {0}
OBVIOUS

LEMMA LayersDiffer ==
  /\ DOMAIN Layers = 1 .. 4 /\ Len(Layers) = 4
  /\ \A i \in 1 .. 4 : Layers[i] \in Layer
  /\ \A i, j \in 1 .. 4 : Layers[i] = Layers[j] => i = j
<1>1. Layers = <<"burst", "hour", "day", "target">>  BY DEF Layers
<1>2. DOMAIN Layers = 1 .. 4 /\ Len(Layers) = 4  BY <1>1
<1>3. \A i \in 1 .. 4 : Layers[i] \in Layer  BY <1>2 DEF Layer
<1>4. \A i \in 1 .. 4 : i = 1 \/ i = 2 \/ i = 3 \/ i = 4  OBVIOUS
<1>5. Layers[1] = "burst" /\ Layers[2] = "hour" /\ Layers[3] = "day" /\ Layers[4] = "target"
  BY <1>1
<1> QED  BY <1>2, <1>3, <1>4, <1>5

LEMMA LayerNumbers ==
  ASSUME NEW l \in Layer
  PROVE  /\ Limit[l] \in Nat \ {0} /\ Window[l] \in Nat \ {0}
         /\ Window[l] * Second \in Nat \ {0} /\ Slack * Second \in Nat
         /\ (Window[l] + Slack) * Second = Window[l] * Second + Slack * Second
<1>1. Limit[l] \in Nat \ {0} /\ Window[l] \in Nat \ {0} /\ Second \in Nat \ {0} /\ Slack \in Nat
  BY ConstantsAssumption
<1> QED  BY <1>1, Product

LEMMA KeyNumbers ==
  ASSUME NEW k \in Key
  PROVE  /\ LayerOf(k) \in Layer
         /\ Limited(k) \in Nat \ {0} /\ Span(k) \in Nat \ {0} /\ Slack * Second \in Nat
<1>1. \A i \in 1 .. 4 : Layers[i] \in Layer  BY LayersDiffer
<1>2. "target" \in Layer  BY <1>1 DEF Layers
<1>3. LayerOf(k) \in Layer  BY <1>2 DEF Key, LayerOf
<1> QED  BY <1>3, LayerNumbers DEF Limited, Span

(* The key of a check in flight. *)
LEMMA KeyFacts ==
  ASSUME LimiterTypeOK, ChecksOK, NEW r \in Request, phase[r] # "idle"
  PROVE  /\ KeyAt(r) \in Key /\ LayerOf(KeyAt(r)) = LayerAt(r)
         /\ LayerAt(r) \in Layer /\ layer[r] \in 1 .. 4
<1>1. layer[r] \in 1 .. 4 /\ LayerAt(r) \in Layer  BY LayersDiffer DEF LimiterTypeOK, LayerAt
<1>2. who[r] \in [ip : Ip, host : Host]  BY DEF ChecksOK, CheckOK
<1>3. who[r].ip \in Ip /\ who[r].host \in Host  BY <1>2
<1>4. KeyAt(r) = <<LayerAt(r), who[r].ip, IF LayerAt(r) = "target" THEN who[r].host ELSE Nil>>
  BY DEF KeyAt, KeyOf
<1>5. KeyAt(r) \in Key
  <2>1. CASE LayerAt(r) = "target"  BY <1>3, <1>4, <2>1 DEF Key
  <2>2. CASE LayerAt(r) # "target"  BY <1>1, <1>3, <1>4, <2>2 DEF Key
  <2> QED  BY <2>1, <2>2
<1> QED  BY <1>1, <1>4, <1>5 DEF LayerOf

(* What a check sees: the bucket in force at its `now', or a fresh one. *)
LEMMA SeenFacts ==
  ASSUME LimiterTypeOK, ChecksOK, NEW r \in Request, phase[r] # "idle"
  PROVE  /\ Seen(r) \in [count : Nat, resetAt : Nat]
         /\ now[r] < Seen(r).resetAt
         /\ \/ /\ store[KeyAt(r)] # Nil /\ now[r] < store[KeyAt(r)].resetAt
               /\ Seen(r).count = store[KeyAt(r)].count
               /\ Seen(r).resetAt = store[KeyAt(r)].resetAt
            \/ /\ store[KeyAt(r)] = Nil \/ store[KeyAt(r)].resetAt <= now[r]
               /\ Seen(r).count = 0
               /\ Seen(r).resetAt = now[r] + Span(KeyAt(r))
<1> DEFINE b == store[KeyAt(r)]
<1>1. KeyAt(r) \in Key /\ LayerOf(KeyAt(r)) = LayerAt(r) /\ LayerAt(r) \in Layer  BY KeyFacts
<1>2. b \in Bucket \union {Nil} /\ now[r] \in Nat  BY <1>1 DEF LimiterTypeOK, Time
<1>3. Window[LayerAt(r)] * Second \in Nat \ {0} /\ Span(KeyAt(r)) = Window[LayerAt(r)] * Second
  BY <1>1, LayerNumbers DEF Span
<1> HIDE DEF b
<1>4. CASE b = Nil \/ b.resetAt <= now[r]
  <2>1. Seen(r) = [count |-> 0, resetAt |-> now[r] + Window[LayerAt(r)] * Second]
    BY <1>4 DEF Seen, Current, Fresh, b
  <2> QED  BY <1>2, <1>3, <1>4, <2>1 DEF b
<1>5. CASE ~(b = Nil \/ b.resetAt <= now[r])
  <2>1. Seen(r) = [count |-> b.count, resetAt |-> b.resetAt]
    BY <1>5 DEF Seen, Current, b
  <2>2. b.count \in Nat /\ b.resetAt \in Nat  BY <1>2, <1>5 DEF Bucket
  <2> QED  BY <1>2, <1>5, <2>1, <2>2 DEF b
<1> QED  BY <1>4, <1>5

(* What a check is about to write. *)
LEMMA PendingFacts ==
  ASSUME ChecksOK, NEW r \in Request, phase[r] = "put"
  PROVE  /\ pending[r].count \in 1 .. Limit[LayerAt(r)] /\ pending[r].resetAt \in Nat
         /\ view[r].charged \subseteq charges[KeyAt(r)]
<1> DEFINE P == [count : 1 .. Limit[LayerAt(r)], resetAt : Nat]
           V == [charged : SUBSET charges[KeyAt(r)], sound : BOOLEAN]
<1>1. pending[r] \in P /\ view[r] \in V  BY Zenon DEF ChecksOK, CheckOK
<1> QED  BY <1>1

(* Until when a key is kept in Redis. *)
LEMMA ExpiryFacts ==
  ASSUME LimiterTypeOK, NEW l \in Layer
  PROVE  /\ ExpiryOf(l) \in Nat
         /\ \/ ExpiryOf(l) = clock + Window[l] * Second + Slack * Second
            \/ MaxTime < ExpiryOf(l)
<1> DEFINE e == clock + (Window[l] + Slack) * Second
<1>1. clock \in Nat /\ MaxTime \in Nat  BY ConstantsAssumption DEF LimiterTypeOK, Time
<1>2. e \in Nat /\ e = clock + Window[l] * Second + Slack * Second
  <2>1. /\ Window[l] * Second \in Nat \ {0} /\ Slack * Second \in Nat
        /\ (Window[l] + Slack) * Second = Window[l] * Second + Slack * Second
    BY LayerNumbers
  <2> QED  BY <1>1, <2>1
<1>3. ExpiryOf(l) = IF e <= MaxTime THEN e ELSE MaxTime + 1  BY DEF ExpiryOf
<1> HIDE DEF e
<1> QED  BY <1>1, <1>2, <1>3

-----------------------------------------------------------------------------
(* Types. *)

LEMMA StoreNumbers ==
  ASSUME LimiterTypeOK, NEW k \in Key, store[k] # Nil
  PROVE  /\ store[k].count \in 1 .. Limited(k)
         /\ store[k].resetAt \in Nat /\ store[k].expiresAt \in Nat
  BY DEF LimiterTypeOK, Bucket, Limited

LEMMA TypeStep ==
  ASSUME LimiterTypeOK, ChecksOK, [LimiterNext]_limiterVars
  PROVE  LimiterTypeOK'
<1>0. MaxTime \in Nat /\ clock \in Nat /\ clock \in Time /\ Second \in Nat \ {0}
  BY ConstantsAssumption DEF LimiterTypeOK, Time
<1>1. ASSUME NEW r \in Request, NEW ip \in Ip, NEW h \in Host, Start(r, ip, h)
      PROVE  LimiterTypeOK'
  BY <1>0, <1>1 DEF Start, LimiterTypeOK, history
<1>2. ASSUME NEW r \in Request, Refuse(r)
      PROVE  LimiterTypeOK'
  <2> DEFINE n == Seen(r).resetAt - now[r]
             k == KeyAt(r)
  <2>1. phase[r] = "get" /\ now[r] \in Nat /\ phase[r] # "idle"  BY <1>2 DEF Refuse, LimiterTypeOK, Time
  <2>2. n \in Nat /\ k \in Key  BY <2>1, SeenFacts, KeyFacts
  <2>3. retryAfterSec(Seen(r), now[r]) = (n + Second - 1) \div Second  BY DEF retryAfterSec
  <2> HIDE DEF n, k
  <2>4. retryAfterSec(Seen(r), now[r]) \in Nat  BY <1>0, <2>2, <2>3, RoundedUp
  <2>5. now[r] + Second * retryAfterSec(Seen(r), now[r]) \in Nat  BY <1>0, <2>1, <2>4
  <2>6. charges[k] \in SUBSET Charge  BY <2>2 DEF LimiterTypeOK
  <2>7. retryAt' \in [Request -> [time : Nat, charged : SUBSET Charge] \union {Nil}]
    BY <1>2, <2>5, <2>6 DEF Refuse, LimiterTypeOK, k
  <2> QED  BY <1>2, <2>7 DEF Refuse, LimiterTypeOK, history
<1>3. ASSUME NEW r \in Request, Count(r)
      PROVE  LimiterTypeOK'
  <2>1. phase[r] = "get" /\ phase[r] # "idle"  BY <1>3 DEF Count
  <2>2. Seen(r) \in [count : Nat, resetAt : Nat]  BY <2>1, SeenFacts
  <2>3. [Seen(r) EXCEPT !.count = @ + 1] \in [count : Nat, resetAt : Nat]  BY <2>2
  <2>4. pending' \in [Request -> [count : Nat, resetAt : Nat] \union {Nil}]
    BY <1>3, <2>3 DEF Count, LimiterTypeOK
  <2>5. view' \in [Request -> [charged : SUBSET Charge, sound : BOOLEAN] \union {Nil}]
    <3>1. charges[KeyAt(r)] \in SUBSET Charge  BY <2>1, KeyFacts DEF LimiterTypeOK
    <3>2. InTime(r) \in BOOLEAN  BY DEF InTime
    <3>3. [charged |-> charges[KeyAt(r)], sound |-> InTime(r)]
            \in [charged : SUBSET Charge, sound : BOOLEAN]
      BY <3>1, <3>2
    <3> QED  BY <1>3, <3>3 DEF Count, LimiterTypeOK
  <2> QED  BY <1>3, <2>4, <2>5 DEF Count, LimiterTypeOK
<1>4. ASSUME NEW r \in Request, Put(r)
      PROVE  LimiterTypeOK'
  <2> DEFINE k == KeyAt(r)
             b == [count |-> pending[r].count, resetAt |-> pending[r].resetAt,
                   expiresAt |-> ExpiryOf(LayerAt(r))]
             x == [by |-> r, at |-> now[r]]
  <2>1. phase[r] = "put" /\ phase[r] # "idle"  BY <1>4 DEF Put
  <2>2. k \in Key /\ LayerOf(k) = LayerAt(r) /\ LayerAt(r) \in Layer /\ layer[r] \in 1 .. 4
    BY <2>1, KeyFacts
  <2>3. pending[r].count \in 1 .. Limit[LayerAt(r)] /\ pending[r].resetAt \in Nat
    BY <2>1, PendingFacts
  <2>4. ExpiryOf(LayerAt(r)) \in Nat  BY <2>2, ExpiryFacts
  <2>5. Limit[LayerAt(r)] \in Nat  BY <2>2, LayerNumbers
  <2>6. b \in Bucket /\ b.count \in 1 .. Limit[LayerAt(r)]
    BY <1>0, <2>3, <2>4, <2>5 DEF Bucket
  <2>7. x \in Charge  BY DEF LimiterTypeOK, Charge
  <2>8. store' = [store EXCEPT ![k] = b] /\ charges' = [charges EXCEPT ![k] = @ \union {x}]
    BY <1>4 DEF Put
  <2> HIDE DEF k, b, x
  <2>9. store' \in [Key -> Bucket \union {Nil}]  BY <2>2, <2>6, <2>8 DEF LimiterTypeOK
  <2>10. \A j \in Key : store'[j] # Nil => store'[j].count \in 1 .. Limit[LayerOf(j)]
    <3> TAKE j \in Key
    <3>1. CASE j = k  BY <2>2, <2>6, <2>8, <3>1 DEF LimiterTypeOK
    <3>2. CASE j # k
      <4>1. store'[j] = store[j]  BY <2>8, <3>2 DEF LimiterTypeOK
      <4> QED  BY <4>1 DEF LimiterTypeOK
    <3> QED  BY <3>1, <3>2
  <2>11. charges' \in [Key -> SUBSET Charge]  BY <2>2, <2>7, <2>8 DEF LimiterTypeOK
  <2>12. layer' \in [Request -> DOMAIN Layers]
    <3>1. layer[r] # Len(Layers) => layer[r] + 1 \in DOMAIN Layers  BY <2>2, LayersDiffer
    <3> QED  BY <1>4, <3>1 DEF Put, LimiterTypeOK
  <2>13. phase' \in [Request -> {"idle", "get", "put", "admitted", "refused"}]
         /\ pending' \in [Request -> [count : Nat, resetAt : Nat] \union {Nil}]
         /\ UNCHANGED <<clock, who, now, retryAt>>
    BY <1>4 DEF Put, LimiterTypeOK
  <2>14. view' \in [Request -> [charged : SUBSET Charge, sound : BOOLEAN] \union {Nil}]
         /\ disturbed' \subseteq Key
    BY <1>4, <2>2 DEF Put, LimiterTypeOK, k
  <2> QED  BY <2>9, <2>10, <2>11, <2>12, <2>13, <2>14 DEF LimiterTypeOK
<1>6. CASE Tick
  <2>1. \A k \in Key : store'[k] \in {store[k], Nil}  BY <1>6 DEF Tick
  <2>2. store' \in [Key -> Bucket \union {Nil}]
    <3>1. store' = [k \in Key |-> store'[k]]  BY <1>6 DEF Tick
    <3>2. \A k \in Key : store'[k] \in Bucket \union {Nil}  BY <2>1 DEF LimiterTypeOK
    <3> QED  BY <3>1, <3>2
  <2>3. \A k \in Key : store'[k] # Nil => store'[k].count \in 1 .. Limit[LayerOf(k)]
    BY <2>1 DEF LimiterTypeOK
  <2>4. clock' \in Time  BY <1>0, <1>6 DEF Tick, Time
  <2> QED  BY <1>6, <2>2, <2>3, <2>4 DEF Tick, LimiterTypeOK, history
<1>7. CASE UNCHANGED limiterVars
  BY <1>7 DEF limiterVars, LimiterTypeOK, history
<1> QED  BY <1>1, <1>2, <1>3, <1>4, <1>6, <1>7 DEF LimiterNext, Proceed

-----------------------------------------------------------------------------
(* The checks in flight. *)

(* A check that a step does not concern: at most it adds to the charges.   *)
LEMMA SameCheck ==
  ASSUME NEW q \in Request, CheckOK(q), clock \in Nat, clock' \in Nat, now[q] \in Nat,
         phase'[q] = phase[q], who'[q] = who[q], now'[q] = now[q], layer'[q] = layer[q],
         pending'[q] = pending[q], view'[q] = view[q], clock <= clock',
         charges[KeyAt(q)] \subseteq charges'[KeyAt(q)]
  PROVE  CheckOK(q)'
<1>1. LayerAt(q)' = LayerAt(q) /\ KeyAt(q)' = KeyAt(q)  BY DEF LayerAt, KeyAt
<1>2. (phase[q] # "idle" => who[q] \in [ip : Ip, host : Host])'  BY DEF CheckOK
<1>3. (Checking(q) => now[q] <= clock)'  BY DEF CheckOK, Checking
<1>4. ASSUME phase[q] = "put"
      PROVE  /\ pending'[q] \in [count : 1 .. Limit[LayerAt(q)'], resetAt : Nat]
             /\ view'[q] \in [charged : SUBSET charges'[KeyAt(q)'], sound : BOOLEAN]
  <2>1. /\ pending[q] \in [count : 1 .. Limit[LayerAt(q)], resetAt : Nat]
        /\ view[q] \in [charged : SUBSET charges[KeyAt(q)], sound : BOOLEAN]
    BY <1>4, Zenon DEF CheckOK
  <2>2. view[q] \in [charged : SUBSET charges'[KeyAt(q)], sound : BOOLEAN]
    BY <2>1
  <2> QED  BY <1>1, <2>1, <2>2
<1> QED  BY <1>2, <1>3, <1>4, Zenon DEF CheckOK

LEMMA ChecksStep ==
  ASSUME LimiterTypeOK, ChecksOK, [LimiterNext]_limiterVars
  PROVE  ChecksOK'
<1>0. clock \in Nat /\ \A q \in Request : now[q] \in Nat  BY DEF LimiterTypeOK, Time
<1>1. ASSUME NEW r \in Request, NEW ip \in Ip, NEW h \in Host, Start(r, ip, h)
      PROVE  ChecksOK'
  <2>1. UNCHANGED <<clock, layer, pending, view, charges>>  BY <1>1 DEF Start, history
  <2>2. \A q \in Request \ {r} : phase'[q] = phase[q] /\ who'[q] = who[q] /\ now'[q] = now[q]
    BY <1>1 DEF Start, LimiterTypeOK
  <2>3. phase'[r] = "get" /\ who'[r] = [ip |-> ip, host |-> h] /\ now'[r] = clock
    BY <1>1 DEF Start, LimiterTypeOK
  <2>4. \A q \in Request \ {r} : CheckOK(q)'
    BY <1>0, <2>1, <2>2, SameCheck DEF ChecksOK
  <2>5. CheckOK(r)'  BY <1>0, <2>1, <2>3 DEF CheckOK
  <2> QED  BY <2>4, <2>5 DEF ChecksOK
<1>2. ASSUME NEW r \in Request, Refuse(r)
      PROVE  ChecksOK'
  <2>1. UNCHANGED <<clock, layer, who, now, pending, view, charges>>
    BY <1>2 DEF Refuse, history
  <2>2. phase[r] = "get" /\ phase'[r] = "refused"
        /\ \A q \in Request \ {r} : phase'[q] = phase[q]
    BY <1>2 DEF Refuse, LimiterTypeOK
  <2>3. \A q \in Request \ {r} : CheckOK(q)'
    BY <1>0, <2>1, <2>2, SameCheck DEF ChecksOK
  <2>4. CheckOK(r)'  BY <2>1, <2>2 DEF CheckOK, Checking, ChecksOK
  <2> QED  BY <2>3, <2>4 DEF ChecksOK
<1>3. ASSUME NEW r \in Request, Count(r)
      PROVE  ChecksOK'
  <2>1. /\ phase[r] = "get" /\ Seen(r).count < Limit[LayerAt(r)]
        /\ UNCHANGED <<clock, layer, who, now, charges>>
    BY <1>3 DEF Count
  <2>2. \A q \in Request \ {r} : phase'[q] = phase[q] /\ pending'[q] = pending[q]
                               /\ view'[q] = view[q]
    BY <1>3 DEF Count, LimiterTypeOK
  <2>3. /\ phase'[r] = "put" /\ pending'[r] = [Seen(r) EXCEPT !.count = @ + 1]
        /\ view'[r] = [charged |-> charges[KeyAt(r)], sound |-> InTime(r)]
    BY <1>3 DEF Count, LimiterTypeOK
  <2>4. \A q \in Request \ {r} : CheckOK(q)'
    BY <1>0, <2>1, <2>2, SameCheck DEF ChecksOK
  <2>5. CheckOK(r)'
    <3>1. Seen(r) \in [count : Nat, resetAt : Nat]  BY <2>1, SeenFacts
    <3>2. LayerAt(r)' = LayerAt(r) /\ KeyAt(r)' = KeyAt(r)  BY <2>1 DEF LayerAt, KeyAt
    <3>3. Limit[LayerAt(r)] \in Nat  BY <2>1, KeyFacts, LayerNumbers
    <3>4. pending'[r] \in [count : 1 .. Limit[LayerAt(r)], resetAt : Nat]
      BY <2>1, <2>3, <3>1, <3>3
    <3>5. InTime(r) \in BOOLEAN  BY DEF InTime
    <3>6. view'[r] \in [charged : SUBSET charges[KeyAt(r)], sound : BOOLEAN]
      BY <2>3, <3>5
    <3>7. who'[r] \in [ip : Ip, host : Host] /\ now'[r] <= clock'
      BY <2>1 DEF ChecksOK, CheckOK, Checking
    <3>8. charges' = charges  BY <2>1
    <3> QED  BY <3>2, <3>4, <3>6, <3>7, <3>8, Zenon DEF CheckOK
  <2> QED  BY <2>4, <2>5 DEF ChecksOK
<1>4. ASSUME NEW r \in Request, Put(r)
      PROVE  ChecksOK'
  <2>1. /\ phase[r] = "put" /\ UNCHANGED <<clock, who, now>>
        /\ phase'[r] \in {"get", "admitted"}
        /\ \A q \in Request \ {r} : /\ phase'[q] = phase[q] /\ layer'[q] = layer[q]
                                   /\ pending'[q] = pending[q] /\ view'[q] = view[q]
    BY <1>4 DEF Put, LimiterTypeOK
  <2>2. \A k : charges[k] \subseteq charges'[k]  BY <1>4 DEF Put, LimiterTypeOK
  <2>3. \A q \in Request \ {r} : CheckOK(q)'
    BY <1>0, <2>1, <2>2, SameCheck DEF ChecksOK
  <2>4. CheckOK(r)'  BY <2>1 DEF CheckOK, Checking, ChecksOK
  <2> QED  BY <2>3, <2>4 DEF ChecksOK
<1>5. CASE Tick \/ UNCHANGED limiterVars
  <2>1. /\ UNCHANGED <<phase, layer, who, now, pending, view, charges>>
        /\ clock' \in Nat /\ clock <= clock'
    BY <1>0, <1>5 DEF Tick, limiterVars, history
  <2>2. \A q \in Request : CheckOK(q)'  BY <1>0, <2>1, SameCheck DEF ChecksOK
  <2> QED  BY <2>2 DEF ChecksOK
<1> QED  BY <1>1, <1>2, <1>3, <1>4, <1>5 DEF LimiterNext, Proceed

-----------------------------------------------------------------------------
(* The charges. *)

(* What Put does to the key of r, and to no other. *)
LEMMA PutFacts ==
  ASSUME LimiterTypeOK, ChecksOK, ChargesOK, NEW r \in Request, Put(r),
         NEW k, k = KeyAt(r), NEW x, x = [by |-> r, at |-> now[r]]
  PROVE  /\ k \in Key /\ LayerOf(k) = LayerAt(r) /\ Checking(r)
         /\ x \in Charge /\ x.by = r /\ x.at = now[r] /\ x \notin charges[k]
         /\ now[r] \in Nat /\ clock \in Nat /\ now[r] <= clock
         /\ charges'[k] = charges[k] \union {x}
         /\ store'[k].count = pending[r].count /\ store'[k].resetAt = pending[r].resetAt
         /\ \/ store'[k].expiresAt = clock + Span(k) + Slack * Second
            \/ MaxTime < store'[k].expiresAt
         /\ store'[k] # Nil
         /\ \A j \in Key \ {k} : charges'[j] = charges[j] /\ store'[j] = store[j]
         /\ UNCHANGED <<clock, who, now, retryAt>>
         /\ phase'[r] \in {"get", "admitted"} /\ layer[r] \in 1 .. 4
         /\ phase'[r] = "get" => layer'[r] = layer[r] + 1
         /\ \A q \in Request \ {r} : /\ phase'[q] = phase[q] /\ layer'[q] = layer[q]
                                    /\ pending'[q] = pending[q] /\ view'[q] = view[q]
         /\ \A q \in Request : Checking(q)' => Checking(q)
         /\ disturbed' = IF Holds(r) THEN disturbed ELSE disturbed \union {k}
<1>1. phase[r] = "put" /\ Checking(r)  BY DEF Put, Checking
<1>2. k \in Key /\ LayerOf(k) = LayerAt(r) /\ LayerAt(r) \in Layer /\ layer[r] \in 1 .. 4
  BY <1>1, KeyFacts
<1>3. now[r] \in Nat /\ clock \in Nat /\ now[r] <= clock
  BY <1>1 DEF LimiterTypeOK, Time, ChecksOK, CheckOK
<1>4. x \in Charge /\ x.by = r /\ x.at = now[r]  BY DEF Charge, LimiterTypeOK
<1>5. x \notin charges[k]
  <2> SUFFICES ASSUME x \in charges[k] PROVE FALSE  OBVIOUS
  <2>1. PICK i \in 1 .. layer[r] - 1 : LayerOf(k) = Layers[i]
    BY <1>1, <1>2, <1>4 DEF ChargesOK, ChargeOK
  <2>2. i \in 1 .. 4 /\ i # layer[r]  BY <1>2, <2>1
  <2> QED  BY <1>2, <2>1, <2>2, LayersDiffer DEF LayerAt
<1> DEFINE e == ExpiryOf(LayerAt(r))
           b == [count |-> pending[r].count, resetAt |-> pending[r].resetAt, expiresAt |-> e]
<1>6. store' = [store EXCEPT ![k] = b] /\ charges' = [charges EXCEPT ![k] = @ \union {x}]
      /\ disturbed' = IF Holds(r) THEN disturbed ELSE disturbed \union {k}
  BY DEF Put
<1>7. e \in Nat /\ (e = clock + Span(k) + Slack * Second \/ MaxTime < e)
  BY <1>2, ExpiryFacts DEF Span
<1>8. b.count = pending[r].count /\ b.resetAt = pending[r].resetAt /\ b.expiresAt = e
  OBVIOUS
<1>9. b # Nil
  <2>1. pending[r].count \in Nat /\ pending[r].resetAt \in Nat
    BY <1>1, <1>2, PendingFacts, LayerNumbers
  <2>2. b \in [count : Nat, resetAt : Nat, expiresAt : Nat]  BY <1>7, <2>1
  <2> QED  BY <2>2, ConstantsAssumption
<1> HIDE DEF b, e
<1>10. store'[k] = b /\ charges'[k] = charges[k] \union {x}
       /\ \A j \in Key \ {k} : charges'[j] = charges[j] /\ store'[j] = store[j]
  BY <1>2, <1>6 DEF LimiterTypeOK
<1>11. /\ UNCHANGED <<clock, who, now, retryAt>>
       /\ phase'[r] \in {"get", "admitted"}
       /\ phase'[r] = "get" => layer'[r] = layer[r] + 1
       /\ \A q \in Request \ {r} : /\ phase'[q] = phase[q] /\ layer'[q] = layer[q]
                                  /\ pending'[q] = pending[q] /\ view'[q] = view[q]
  BY DEF Put, LimiterTypeOK
<1>12. \A q \in Request : Checking(q)' => Checking(q)  BY <1>1, <1>11 DEF Checking
<1> QED
  BY <1>1, <1>2, <1>3, <1>4, <1>5, <1>6, <1>7, <1>8, <1>9, <1>10, <1>11, <1>12

LEMMA ChargesStep ==
  ASSUME LimiterTypeOK, ChecksOK, ChargesOK, [LimiterNext]_limiterVars
  PROVE  ChargesOK'
<1>0. clock \in Nat  BY DEF LimiterTypeOK, Time
<1>1. ASSUME NEW k \in Key, NEW y \in charges[k]
      PROVE  y.by \in Request /\ y.at \in Nat
  BY <1>1 DEF LimiterTypeOK, Charge, Time
(* A step that charges nobody, and in which checks only end. *)
<1>2. ASSUME UNCHANGED <<charges, clock, layer>>,
             \A q \in Request : /\ Checking(q)' => Checking(q)
                                /\ phase'[q] = "idle" => phase[q] = "idle"
      PROVE  ChargesOK'
  <2>1. ASSUME NEW k \in Key, NEW y \in charges[k]  PROVE ChargeOK(k, y)'
    <3>1. y.by \in Request /\ ChargeOK(k, y)  BY <1>1, <2>1 DEF ChargesOK
    <3> QED  BY <1>2, <3>1 DEF ChargeOK
  <2> QED  BY <1>2, <2>1 DEF ChargesOK
<1>3. ASSUME NEW r \in Request, NEW ip \in Ip, NEW h \in Host, Start(r, ip, h)
      PROVE  ChargesOK'
  <2>1. /\ phase[r] = "idle" /\ UNCHANGED <<charges, clock, layer>>
        /\ \A q \in Request \ {r} : phase'[q] = phase[q]
    BY <1>3 DEF Start, LimiterTypeOK, history
  <2>2. ASSUME NEW k \in Key, NEW y \in charges[k]  PROVE ChargeOK(k, y)'
    <3>1. y.by \in Request /\ y.by # r /\ ChargeOK(k, y)
      BY <1>1, <2>1, <2>2 DEF ChargesOK, ChargeOK
    <3>2. (Checking(y.by) => \E i \in 1 .. layer[y.by] - 1 : LayerOf(k) = Layers[i])'
      BY <2>1, <3>1 DEF ChargeOK, Checking
    <3>3. (y.at <= clock /\ phase[y.by] # "idle")'  BY <2>1, <3>1 DEF ChargeOK
    <3> QED  BY <3>2, <3>3 DEF ChargeOK
  <2> QED  BY <2>1, <2>2 DEF ChargesOK
<1>4. ASSUME NEW r \in Request, Refuse(r) \/ Count(r)
      PROVE  ChargesOK'
  <2>1. UNCHANGED <<charges, clock, layer>>  BY <1>4 DEF Refuse, Count, history
  <2>2. \A q \in Request : /\ Checking(q)' => Checking(q)
                           /\ phase'[q] = "idle" => phase[q] = "idle"
    BY <1>4 DEF Refuse, Count, LimiterTypeOK, Checking
  <2> QED  BY <1>2, <2>1, <2>2
<1>5. ASSUME NEW r \in Request, Put(r)
      PROVE  ChargesOK'
  <2>0. PICK k, x : k = KeyAt(r) /\ x = [by |-> r, at |-> now[r]]  OBVIOUS
  <2>1. /\ k \in Key /\ LayerOf(k) = LayerAt(r) /\ Checking(r)
        /\ x \in Charge /\ x.by = r /\ x.at = now[r]
        /\ now[r] <= clock /\ now[r] \in Nat
        /\ charges'[k] = charges[k] \union {x}
        /\ \A j \in Key \ {k} : charges'[j] = charges[j]
        /\ UNCHANGED <<clock, who, now>>
        /\ phase'[r] \in {"get", "admitted"} /\ layer[r] \in 1 .. 4
        /\ phase'[r] = "get" => layer'[r] = layer[r] + 1
        /\ \A q \in Request \ {r} : phase'[q] = phase[q] /\ layer'[q] = layer[q]
        /\ \A q \in Request : Checking(q)' => Checking(q)
    BY <1>5, <2>0, PutFacts
  <2>2. ASSUME NEW j \in Key, NEW y \in charges[j]  PROVE ChargeOK(j, y)'
    <3>1. y.by \in Request /\ ChargeOK(j, y)  BY <1>1, <2>2 DEF ChargesOK
    <3>2. (y.at <= clock /\ phase[y.by] # "idle")'  BY <2>1, <3>1 DEF ChargeOK
    <3>3. (Checking(y.by) => \E i \in 1 .. layer[y.by] - 1 : LayerOf(j) = Layers[i])'
      <4>1. CASE y.by # r  BY <2>1, <3>1, <4>1 DEF ChargeOK, Checking
      <4>2. CASE y.by = r
        <5>1. PICK i \in 1 .. layer[r] - 1 : LayerOf(j) = Layers[i]
          BY <2>1, <3>1, <4>2 DEF ChargeOK
        <5>2. Checking(r)' => i \in 1 .. layer'[r] - 1  BY <2>1, <5>1 DEF Checking
        <5> QED  BY <4>2, <5>1, <5>2
      <4> QED  BY <4>1, <4>2
    <3> QED  BY <3>2, <3>3 DEF ChargeOK
  <2>3. ChargeOK(k, x)'
    <3>1. (Checking(r) => \E i \in 1 .. layer[r] - 1 : LayerOf(k) = Layers[i])'
      <4>1. ASSUME Checking(r)'  PROVE \E i \in 1 .. layer'[r] - 1 : LayerOf(k) = Layers[i]
        <5>1. layer'[r] = layer[r] + 1  BY <2>1, <4>1 DEF Checking
        <5>2. layer[r] \in 1 .. layer'[r] - 1  BY <2>1, <5>1
        <5> QED  BY <2>1, <5>2 DEF LayerAt
      <4> QED  BY <4>1
    <3>2. (x.at <= clock /\ phase[x.by] # "idle")'  BY <2>1
    <3>3. x.by = r  BY <2>1
    <3> QED  BY <3>1, <3>2, <3>3 DEF ChargeOK
  <2>4. IsFiniteSet(charges'[k])
    <3>1. IsFiniteSet(charges[k])  BY <2>1 DEF ChargesOK
    <3>2. IsFiniteSet(charges[k] \union {x})  BY ONLY <3>1, FS_AddElement
    <3>3. charges'[k] = charges[k] \union {x}  BY <2>1
    <3> QED  BY ONLY <3>2, <3>3
  <2>5. ASSUME NEW j \in Key  PROVE IsFiniteSet(charges'[j]) /\ \A y \in charges'[j] : ChargeOK(j, y)'
    <3>1. CASE j = k  BY <2>1, <2>2, <2>3, <2>4, <3>1
    <3>2. CASE j # k  BY <2>1, <2>2, <2>5, <3>2 DEF ChargesOK
    <3> QED  BY <3>1, <3>2
  <2> QED  BY <2>5 DEF ChargesOK
<1>6. CASE Tick
  <2>1. clock' = clock + 1 /\ UNCHANGED <<charges, phase, layer>>  BY <1>6 DEF Tick, history
  <2>2. ASSUME NEW k \in Key, NEW y \in charges[k]  PROVE ChargeOK(k, y)'
    <3>1. y.at \in Nat /\ ChargeOK(k, y)  BY <1>1, <2>2 DEF ChargesOK
    <3> QED  BY <1>0, <2>1, <3>1 DEF ChargeOK, Checking
  <2> QED  BY <2>1, <2>2 DEF ChargesOK
<1>7. CASE UNCHANGED limiterVars
  BY <1>2, <1>7 DEF limiterVars, history, Checking
<1> QED  BY <1>3, <1>4, <1>5, <1>6, <1>7 DEF LimiterNext, Proceed

-----------------------------------------------------------------------------
(* The buckets. *)

(* The sets that are counted are finite. *)
LEMMA Counted ==
  ASSUME NEW c, IsFiniteSet(c)
  PROVE  /\ \A t : IsFiniteSet(Since(c, t)) /\ Cardinality(Since(c, t)) \in Nat
         /\ \A t, u : IsFiniteSet(Between(c, t, u)) /\ Cardinality(Between(c, t, u)) \in Nat
<1>1. ASSUME NEW t PROVE IsFiniteSet(Since(c, t)) /\ Cardinality(Since(c, t)) \in Nat
  <2>1. Since(c, t) \in SUBSET c  BY DEF Since
  <2> QED  BY <2>1, FS_Subset, FS_CardinalityType
<1>2. ASSUME NEW t, NEW u
      PROVE  IsFiniteSet(Between(c, t, u)) /\ Cardinality(Between(c, t, u)) \in Nat
  <2>1. Between(c, t, u) \in SUBSET c  BY DEF Between
  <2> QED  BY <2>1, FS_Subset, FS_CardinalityType
<1> QED  BY <1>1, <1>2

(* A step that leaves the key alone leaves its last bucket where it was.   *)
LEMMA StartStays ==
  ASSUME NEW k \in Key, NEW s \in Int, StartedAt(k, s), clock \in Nat, clock' \in Nat,
         charges'[k] = charges[k], store'[k] = store[k], clock <= clock',
         \A q \in Request : Sees(q, k)' => WritesOn(q, k, s)'
  PROVE  StartedAt(k, s)'
<1>1. Span(k) \in Nat /\ Slack * Second \in Nat  BY KeyNumbers
<1>2. (store[k] = Nil => s + Span(k) + Slack * Second <= clock)'
  <2> SUFFICES ASSUME store'[k] = Nil
               PROVE  s + Span(k) + Slack * Second <= clock'
    BY DEF Span, LayerOf
  <2>1. s + Span(k) + Slack * Second <= clock  BY DEF StartedAt
  <2> QED  BY <1>1, <2>1
<1>3. Span(k)' = Span(k) /\ Limited(k)' = Limited(k)  BY DEF Span, Limited, LayerOf
<1>4. /\ (charges[k] # {} => \E x \in charges[k] : x.at = s)'
      /\ (\A x \in charges[k] : x.at < s + Span(k))'
      /\ (Cardinality(Since(charges[k], s)) <= Limited(k))'
      /\ (\A t \in Int : s - Span(k) < t => Cardinality(Between(charges[k], t, s)) < Limited(k))'
      /\ (store[k] # Nil =>
            /\ store[k].resetAt = s + Span(k)
            /\ store[k].count = Cardinality(Since(charges[k], s))
            /\ \/ store[k].resetAt + Slack * Second <= store[k].expiresAt
               \/ MaxTime < store[k].expiresAt)'
  BY <1>3 DEF StartedAt, Since, Between
<1> QED  BY <1>2, <1>4 DEF StartedAt

(* Who was about to write on a view that holds, and is still.              *)
LEMMA WritesStay ==
  ASSUME NEW k \in Key, NEW s \in Int, StartedAt(k, s), charges'[k] = charges[k],
         NEW q \in Request, Sees(q, k), now'[q] = now[q], pending'[q] = pending[q]
  PROVE  WritesOn(q, k, s)'
<1>1. WritesOn(q, k, s)  BY DEF StartedAt
<1>2. Span(k)' = Span(k)  BY DEF Span, LayerOf
<1> QED  BY <1>1, <1>2 DEF WritesOn, Since

(* Whoever reads a key in time and finds room counts one more in its last  *)
(* bucket, or starts the next.                                             *)
LEMMA CountWrites ==
  ASSUME LimiterTypeOK, ChecksOK, NEW r \in Request, Count(r), NEW k, k = KeyAt(r),
         NEW s \in Int, StartedAt(k, s), InTime(r)
  PROVE  WritesOn(r, k, s)'
<1>0. /\ phase[r] = "get" /\ Seen(r).count < Limit[LayerAt(r)]
      /\ UNCHANGED <<clock, store, layer, who, now, charges>>
      /\ pending'[r] = [Seen(r) EXCEPT !.count = @ + 1]
  BY DEF Count, LimiterTypeOK
<1>1. k \in Key /\ now[r] \in Nat /\ clock \in Nat
  BY <1>0, KeyFacts DEF LimiterTypeOK, Time
<1>2. Span(k) \in Nat \ {0} /\ Slack * Second \in Nat  BY <1>1, KeyNumbers
<1>3. /\ Seen(r) \in [count : Nat, resetAt : Nat]
      /\ \/ /\ store[k] # Nil /\ now[r] < store[k].resetAt
            /\ Seen(r).count = store[k].count /\ Seen(r).resetAt = store[k].resetAt
         \/ /\ store[k] = Nil \/ store[k].resetAt <= now[r]
            /\ Seen(r).count = 0 /\ Seen(r).resetAt = now[r] + Span(k)
  BY <1>0, SeenFacts
<1>4. pending'[r].count = Seen(r).count + 1 /\ pending'[r].resetAt = Seen(r).resetAt
  BY <1>0, <1>3
<1>5. clock <= now[r] + Slack * Second /\ \A x \in charges[k] : x.at <= now[r]
  BY DEF InTime
<1>6. Span(k)' = Span(k) /\ Since(charges[k], s)' = Since(charges[k], s)
  BY <1>0 DEF Span, LayerOf, Since
<1>7. CASE /\ store[k] # Nil /\ now[r] < store[k].resetAt
           /\ Seen(r).count = store[k].count /\ Seen(r).resetAt = store[k].resetAt
  <2>1. store[k].resetAt = s + Span(k) /\ store[k].count = Cardinality(Since(charges[k], s))
    BY <1>7 DEF StartedAt
  <2>2. store[k].count \in 1 .. Limited(k)  BY <1>1, <1>7, StoreNumbers
  <2>3. charges[k] # {}
    <3> SUFFICES ASSUME charges[k] = {} PROVE FALSE  OBVIOUS
    <3>1. Since(charges[k], s) = {}  BY DEF Since
    <3>2. Cardinality(Since(charges[k], s)) = 0  BY <3>1, FS_EmptySet
    <3> QED  BY <1>1, <2>1, <2>2, <3>2, KeyNumbers
  <2> QED  BY <1>0, <1>4, <1>5, <1>6, <1>7, <2>1, <2>3 DEF WritesOn
<1>8. CASE /\ store[k] = Nil \/ store[k].resetAt <= now[r]
           /\ Seen(r).count = 0 /\ Seen(r).resetAt = now[r] + Span(k)
  <2>1. s + Span(k) <= now[r]
    <3>1. CASE store[k] = Nil
      <4>1. s + Span(k) + Slack * Second <= clock  BY <3>1 DEF StartedAt
      <4> QED  BY <1>1, <1>2, <1>5, <4>1
    <3>2. CASE store[k] # Nil
      <4>1. store[k].resetAt = s + Span(k)  BY <3>2 DEF StartedAt
      <4> QED  BY <1>8, <3>2, <4>1
    <3> QED  BY <3>1, <3>2
  <2>2. pending'[r].count = 1 /\ pending'[r].resetAt = now[r] + Span(k)
    BY <1>4, <1>8
  <2> QED  BY <1>0, <1>5, <1>6, <2>1, <2>2 DEF WritesOn
<1> QED  BY <1>3, <1>7, <1>8

(* One more charge x of the bucket that started at s: it is the last, and  *)
(* counts one more.                                                        *)
LEMMA OneMore ==
  ASSUME NEW c, IsFiniteSet(c), NEW x, x \notin c, NEW s \in Int, x.at \in Int, s <= x.at
  PROVE  /\ Cardinality(Since(c \union {x}, s)) = Cardinality(Since(c, s)) + 1
         /\ \A t : Between(c \union {x}, t, s) = Between(c, t, s)
<1>1. Since(c \union {x}, s) = Since(c, s) \union {x}  BY DEF Since
<1>2. x \notin Since(c, s) /\ IsFiniteSet(Since(c, s))  BY Counted DEF Since
<1>3. \A t : Between(c \union {x}, t, s) = Between(c, t, s)  BY DEF Between
<1> QED  BY <1>1, <1>2, <1>3, FS_AddElement

(* After Put nobody holds a view of the key that still holds: the charge   *)
(* is news to all.                                                         *)
LEMMA NobodySees ==
  ASSUME LimiterTypeOK, ChecksOK, ChargesOK, NEW r \in Request, Put(r),
         NEW k, k = KeyAt(r), NEW q \in Request
  PROVE  ~Sees(q, k)'
<1>0. PICK x : x = [by |-> r, at |-> now[r]]  OBVIOUS
<1>1. /\ x \notin charges[k] /\ charges'[k] = charges[k] \union {x}
      /\ phase'[r] # "put" /\ UNCHANGED <<who>>
      /\ q # r => /\ phase'[q] = phase[q] /\ layer'[q] = layer[q] /\ view'[q] = view[q]
  BY <1>0, PutFacts
<1> SUFFICES ASSUME Sees(q, k)' PROVE FALSE  OBVIOUS
<1>2. q # r /\ phase[q] = "put"  BY <1>1 DEF Sees
<1>3. KeyAt(q)' = KeyAt(q) /\ KeyAt(q)' = k  BY <1>1, <1>2 DEF KeyAt, LayerAt, Sees
<1>4. view'[q].charged = charges'[k]  BY <1>3 DEF Sees, Holds
<1>5. view[q].charged \subseteq charges[k]  BY <1>2, <1>3, PendingFacts
<1>6. charges'[k] = view[q].charged  BY <1>1, <1>2, <1>4
<1>7. x \in charges'[k]  BY <1>1
<1> QED  BY <1>1, <1>5, <1>6, <1>7

(* After a Put on a view that held, the last bucket of the key is the one  *)
(* the check saw, or a new one that starts with the check.                 *)
LEMMA PutStarts ==
  ASSUME LimiterTypeOK, ChecksOK, ChargesOK, BucketsOK, NEW r \in Request, Put(r),
         NEW k, k = KeyAt(r), Holds(r), k \notin disturbed
  PROVE  \E s \in Int : s <= now[r] /\ StartedAt(k, s)'
<1>0. PICK x : x = [by |-> r, at |-> now[r]]  OBVIOUS
<1>11. phase[r] = "put"  BY DEF Put
<1>1. /\ k \in Key /\ LayerOf(k) = LayerAt(r) /\ Checking(r) /\ phase[r] = "put"
      /\ x.at = now[r] /\ x \notin charges[k]
      /\ now[r] \in Nat /\ clock \in Nat /\ now[r] <= clock
      /\ charges'[k] = charges[k] \union {x}
      /\ store'[k].count = pending[r].count /\ store'[k].resetAt = pending[r].resetAt
      /\ \/ store'[k].expiresAt = clock + Span(k) + Slack * Second
         \/ MaxTime < store'[k].expiresAt
      /\ store'[k] # Nil
  BY <1>0, <1>11, PutFacts
<1>2. pending[r].count \in 1 .. Limited(k)
  BY <1>1, PendingFacts DEF Limited
<1>3. Span(k) \in Nat \ {0} /\ Slack * Second \in Nat /\ Limited(k) \in Nat \ {0}
  BY <1>1, KeyNumbers
<1>4. PICK s \in Int : StartedAt(k, s)  BY <1>1 DEF BucketsOK
<1>5. WritesOn(r, k, s)  BY <1>1, <1>4 DEF StartedAt, Sees
<1>6. \A q \in Request : ~Sees(q, k)'  BY NobodySees
<1> DEFINE c == charges[k]
<1>7. IsFiniteSet(c) /\ \A y \in c : y.at \in Nat /\ y.at <= now[r]
  BY <1>1, <1>5 DEF ChargesOK, LimiterTypeOK, Charge, Time, WritesOn
<1>8. MaxTime \in Nat  BY ConstantsAssumption
<1>9. CASE /\ c # {} /\ now[r] < s + Span(k)
           /\ pending[r].count = Cardinality(Since(c, s)) + 1
           /\ pending[r].resetAt = s + Span(k)
  <2>1. PICK y \in c : y.at = s  BY <1>4, <1>9 DEF StartedAt
  <2>2. s <= now[r]  BY <1>7, <2>1
  <2>3. /\ Cardinality(Since(c \union {x}, s)) = Cardinality(Since(c, s)) + 1
        /\ \A t : Between(c \union {x}, t, s) = Between(c, t, s)
    <3>1. x \notin c /\ x.at \in Int /\ s <= x.at  BY <1>1, <2>2
    <3> HIDE DEF c
    <3>2. IsFiniteSet(c) /\ s \in Int  BY <1>4, <1>7
    <3>3. /\ Cardinality(Since(c \union {x}, s)) = Cardinality(Since(c, s)) + 1
          /\ \A t : Between(c \union {x}, t, s) = Between(c, t, s)
      BY ONLY <3>1, <3>2, OneMore
    <3> QED  BY <3>3
  <2>4. /\ (\E z \in charges[k] : z.at = s)'
        /\ (\A z \in charges[k] : z.at < s + Span(k))'
    <3>1. \A z \in c : z.at < s + Span(k)  BY <1>4 DEF StartedAt
    <3>2. x.at < s + Span(k)  BY <1>1, <1>9
    <3>3. Span(k)' = Span(k)  BY DEF Span, LayerOf
    <3> QED  BY <1>1, <2>1, <3>1, <3>2, <3>3
  <2>5. /\ (Cardinality(Since(charges[k], s)) <= Limited(k))'
        /\ (store[k].count = Cardinality(Since(charges[k], s)))'
    <3>1. Since(charges[k], s)' = Since(c \union {x}, s) /\ Limited(k)' = Limited(k)
      BY <1>1 DEF Since, Limited, LayerOf
    <3> QED  BY <1>1, <1>2, <1>3, <1>9, <2>3, <3>1
  <2>6. (\A t \in Int : s - Span(k) < t => Cardinality(Between(charges[k], t, s)) < Limited(k))'
    <3> SUFFICES ASSUME NEW t \in Int, s - Span(k) < t
                 PROVE  Cardinality(Between(charges'[k], t, s)) < Limited(k)
      BY DEF Between, Limited, Span, LayerOf
    <3>1. Cardinality(Between(c, t, s)) < Limited(k)  BY <1>4 DEF StartedAt
    <3>2. Between(charges'[k], t, s) = Between(c, t, s)  BY <1>1, <2>3
    <3> QED  BY <3>1, <3>2
  <2>7. (/\ store[k].resetAt = s + Span(k)
         /\ \/ store[k].resetAt + Slack * Second <= store[k].expiresAt
            \/ MaxTime < store[k].expiresAt)'
    <3>1. store'[k].resetAt = s + Span(k)  BY <1>1, <1>9
    <3>2. \/ store'[k].resetAt + Slack * Second <= store'[k].expiresAt
          \/ MaxTime < store'[k].expiresAt
      BY <1>1, <1>3, <2>2, <3>1
    <3>3. Span(k)' = Span(k)  BY DEF Span, LayerOf
    <3> QED  BY <3>1, <3>2, <3>3
  <2>8. StartedAt(k, s)'  BY <1>1, <1>6, <2>4, <2>5, <2>6, <2>7 DEF StartedAt
  <2> QED  BY <2>2, <2>8
<1>10. CASE /\ s + Span(k) <= now[r]
            /\ pending[r].count = 1
            /\ pending[r].resetAt = now[r] + Span(k)
  <2>0. PICK a \in Int : a = now[r]  BY <1>1
  <2>1. \A y \in c : y.at < s + Span(k) /\ y.at < a
    <3>1. \A y \in c : y.at < s + Span(k)  BY <1>4 DEF StartedAt
    <3> QED  BY <1>3, <1>7, <1>10, <2>0, <3>1
  <2>2. /\ Cardinality(Since(c \union {x}, a)) = 1
        /\ \A t : Between(c \union {x}, t, a) = Between(c, t, a)
    <3>1. Since(c, a) = {}  BY <1>7, <2>1 DEF Since
    <3>2. Cardinality(Since(c, a)) = 0  BY <3>1, FS_EmptySet
    <3>3. /\ Cardinality(Since(c \union {x}, a)) = Cardinality(Since(c, a)) + 1
          /\ \A t : Between(c \union {x}, t, a) = Between(c, t, a)
      <4>1. x \notin c /\ x.at \in Int /\ a <= x.at /\ IsFiniteSet(c) /\ a \in Int
        BY <1>1, <1>7, <2>0
      <4> HIDE DEF c
      <4> QED  BY ONLY <4>1, OneMore
    <3> QED  BY <3>2, <3>3
  <2>3. /\ (\E z \in charges[k] : z.at = a)'
        /\ (\A z \in charges[k] : z.at < a + Span(k))'
    <3>1. Span(k)' = Span(k)  BY DEF Span, LayerOf
    <3>2. \A z \in c \union {x} : z.at < a + Span(k)  BY <1>1, <1>3, <1>7, <2>0, <2>1
    <3> QED  BY <1>1, <2>0, <3>1, <3>2
  <2>4. /\ (Cardinality(Since(charges[k], a)) <= Limited(k))'
        /\ (store[k].count = Cardinality(Since(charges[k], a)))'
    <3>1. Since(charges[k], a)' = Since(c \union {x}, a) /\ Limited(k)' = Limited(k)
      BY <1>1 DEF Since, Limited, LayerOf
    <3> QED  BY <1>1, <1>3, <1>10, <2>2, <3>1
  <2>5. (\A t \in Int : a - Span(k) < t => Cardinality(Between(charges[k], t, a)) < Limited(k))'
    <3> SUFFICES ASSUME NEW t \in Int, a - Span(k) < t
                 PROVE  Cardinality(Between(charges'[k], t, a)) < Limited(k)
      BY DEF Between, Limited, Span, LayerOf
    <3>1. Between(charges'[k], t, a) = Between(c, t, a)  BY <1>1, <2>2
    <3>2. s < t  BY <1>3, <1>10, <2>0
    <3>3. CASE c = {}
      <4>1. Between(c, t, a) = {}  BY <3>3 DEF Between
      <4> QED  BY <1>3, <3>1, <4>1, FS_EmptySet
    <3>4. CASE c # {}
      <4>1. PICK y \in c : y.at = s  BY <1>4, <3>4 DEF StartedAt
      <4>2. y \in Since(c, s)  BY <4>1 DEF Since
      <4>3. IsFiniteSet(Since(c, s)) /\ Cardinality(Since(c, s)) \in Nat
            /\ Cardinality(Between(c, t, a)) \in Nat
        BY <1>7, Counted
      <4>4. /\ IsFiniteSet(Since(c, s) \ {y})
            /\ Cardinality(Since(c, s) \ {y}) = Cardinality(Since(c, s)) - 1
        BY <4>2, <4>3, FS_RemoveElement
      <4>5. Between(c, t, a) \in SUBSET (Since(c, s) \ {y})
        <5> SUFFICES ASSUME NEW z \in c, t <= z.at PROVE s <= z.at /\ z # y
          BY DEF Between, Since
        <5> QED  BY <1>7, <3>2, <4>1
      <4>6. Cardinality(Between(c, t, a)) <= Cardinality(Since(c, s) \ {y})
        BY <4>4, <4>5, FS_Subset
      <4>7. Cardinality(Since(c, s)) <= Limited(k)  BY <1>4 DEF StartedAt
      <4> QED  BY <1>3, <3>1, <4>3, <4>4, <4>6, <4>7
    <3> QED  BY <3>3, <3>4
  <2>6. (/\ store[k].resetAt = a + Span(k)
         /\ \/ store[k].resetAt + Slack * Second <= store[k].expiresAt
            \/ MaxTime < store[k].expiresAt)'
    <3>1. store'[k].resetAt = a + Span(k)  BY <1>1, <1>10, <2>0
    <3>2. \/ store'[k].resetAt + Slack * Second <= store'[k].expiresAt
          \/ MaxTime < store'[k].expiresAt
      BY <1>1, <1>3, <2>0, <3>1
    <3>3. Span(k)' = Span(k)  BY DEF Span, LayerOf
    <3> QED  BY <3>1, <3>2, <3>3
  <2>7. StartedAt(k, a)'  BY <1>1, <1>6, <2>3, <2>4, <2>5, <2>6 DEF StartedAt
  <2> QED  BY <2>0, <2>7, <1>1
<1> QED  BY <1>5, <1>9, <1>10 DEF WritesOn

LEMMA BucketsStep ==
  ASSUME LimiterTypeOK, ChecksOK, ChargesOK, BucketsOK, [LimiterNext]_limiterVars
  PROVE  BucketsOK'
<1>0. clock \in Nat  BY DEF LimiterTypeOK, Time
(* A step after which nobody else is about to write on a view that holds.  *)
<1>1. ASSUME UNCHANGED <<charges, store, clock, disturbed>>,
             \A q \in Request : \A k : Sees(q, k)' =>
                /\ Sees(q, k) /\ now'[q] = now[q] /\ pending'[q] = pending[q]
      PROVE  BucketsOK'
  <2> SUFFICES ASSUME NEW k \in Key \ disturbed PROVE \E s \in Int : StartedAt(k, s)'
    BY <1>1 DEF BucketsOK
  <2>1. PICK s \in Int : StartedAt(k, s)  BY DEF BucketsOK
  <2>2. \A q \in Request : Sees(q, k)' => WritesOn(q, k, s)'
    BY <1>1, <2>1, WritesStay
  <2>3. StartedAt(k, s)'  BY <1>0, <1>1, <2>1, <2>2, StartStays
  <2> QED  BY <2>3
<1>2. ASSUME NEW r \in Request, NEW ip \in Ip, NEW h \in Host, Start(r, ip, h)
      PROVE  BucketsOK'
  <2>1. UNCHANGED <<charges, store, clock, disturbed, layer, pending, view>>
    BY <1>2 DEF Start, history
  <2>2. phase'[r] = "get"  BY <1>2 DEF Start, LimiterTypeOK
  <2>3. \A q \in Request \ {r} : phase'[q] = phase[q] /\ now'[q] = now[q] /\ who'[q] = who[q]
    BY <1>2 DEF Start, LimiterTypeOK
  <2>4. ASSUME NEW q \in Request, NEW k, Sees(q, k)'
        PROVE  Sees(q, k) /\ now'[q] = now[q] /\ pending'[q] = pending[q]
    <3>1. q # r  BY <2>2, <2>4 DEF Sees
    <3>2. KeyAt(q)' = KeyAt(q)  BY <2>1, <2>3, <3>1 DEF KeyAt, LayerAt
    <3> QED  BY <2>1, <2>3, <2>4, <3>1, <3>2 DEF Sees, Holds
  <2> QED  BY <1>1, <2>1, <2>4
<1>3. ASSUME NEW r \in Request, Refuse(r)
      PROVE  BucketsOK'
  <2>1. UNCHANGED <<charges, store, clock, disturbed, layer, who, now, pending, view>>
    BY <1>3 DEF Refuse, history
  <2>2. phase'[r] = "refused" /\ \A q \in Request \ {r} : phase'[q] = phase[q]
    BY <1>3 DEF Refuse, LimiterTypeOK
  <2>3. ASSUME NEW q \in Request, NEW k, Sees(q, k)'
        PROVE  Sees(q, k) /\ now'[q] = now[q] /\ pending'[q] = pending[q]
    <3>1. q # r  BY <2>2, <2>3 DEF Sees
    <3>2. KeyAt(q)' = KeyAt(q)  BY <2>1 DEF KeyAt, LayerAt
    <3> QED  BY <2>1, <2>2, <2>3, <3>1, <3>2 DEF Sees, Holds
  <2> QED  BY <1>1, <2>1, <2>3
<1>4. ASSUME NEW r \in Request, Count(r)
      PROVE  BucketsOK'
  <2> SUFFICES ASSUME NEW k \in Key \ disturbed PROVE \E s \in Int : StartedAt(k, s)'
    BY <1>4 DEF BucketsOK, Count
  <2>1. PICK s \in Int : StartedAt(k, s)  BY DEF BucketsOK
  <2>2. UNCHANGED <<charges, store, clock, layer, who, now>>  BY <1>4 DEF Count
  <2>3. \A q \in Request \ {r} : /\ phase'[q] = phase[q] /\ pending'[q] = pending[q]
                               /\ view'[q] = view[q]
    BY <1>4 DEF Count, LimiterTypeOK
  <2>4. view'[r] = [charged |-> charges[KeyAt(r)], sound |-> InTime(r)]
    BY <1>4 DEF Count, LimiterTypeOK
  <2>5. ASSUME NEW q \in Request, Sees(q, k)'  PROVE WritesOn(q, k, s)'
    <3>1. KeyAt(q)' = KeyAt(q)  BY <2>2 DEF KeyAt, LayerAt
    <3>2. CASE q = r
      <4>1. view'[r].sound  BY <2>5, <3>2 DEF Sees, Holds
      <4>2. InTime(r)  BY <2>4, <4>1
      <4>3. k = KeyAt(r)  BY <2>5, <3>1, <3>2 DEF Sees
      <4> QED  BY <1>4, <2>1, <3>2, <4>2, <4>3, CountWrites
    <3>3. CASE q # r
      <4>1. Sees(q, k) /\ now'[q] = now[q] /\ pending'[q] = pending[q]
        BY <2>2, <2>3, <2>5, <3>1, <3>3 DEF Sees, Holds
      <4> QED  BY <2>1, <2>2, <4>1, WritesStay
    <3> QED  BY <3>2, <3>3
  <2>6. StartedAt(k, s)'  BY <1>0, <2>1, <2>2, <2>5, StartStays
  <2> QED  BY <2>6
<1>5. ASSUME NEW r \in Request, Put(r)
      PROVE  BucketsOK'
  <2> SUFFICES ASSUME NEW k \in Key \ disturbed' PROVE \E s \in Int : StartedAt(k, s)'
    BY DEF BucketsOK
  <2>0. PICK j, x : j = KeyAt(r) /\ x = [by |-> r, at |-> now[r]]  OBVIOUS
  <2>1. /\ \A i \in Key \ {j} : charges'[i] = charges[i] /\ store'[i] = store[i]
        /\ UNCHANGED <<clock, now, who>>
        /\ phase'[r] # "put"
        /\ \A q \in Request \ {r} : /\ phase'[q] = phase[q] /\ layer'[q] = layer[q]
                                   /\ pending'[q] = pending[q] /\ view'[q] = view[q]
        /\ disturbed' = IF Holds(r) THEN disturbed ELSE disturbed \union {j}
    BY <1>5, <2>0, PutFacts
  <2>2. k \notin disturbed  BY <2>1
  <2>3. CASE k = j
    <3>1. Holds(r)  BY <2>1, <2>3
    <3> QED  BY <1>5, <2>0, <2>2, <2>3, <3>1, PutStarts
  <2>4. CASE k # j
    <3>1. PICK s \in Int : StartedAt(k, s)  BY <2>2 DEF BucketsOK
    <3>2. charges'[k] = charges[k] /\ store'[k] = store[k]  BY <2>1, <2>4
    <3>3. ASSUME NEW q \in Request, Sees(q, k)'  PROVE WritesOn(q, k, s)'
      <4>1. q # r  BY <2>1, <3>3 DEF Sees
      <4>2. KeyAt(q)' = KeyAt(q) /\ KeyAt(q) = k
        BY <2>1, <3>3, <4>1 DEF KeyAt, LayerAt, Sees
      <4>3. Sees(q, k)  BY <2>1, <3>2, <3>3, <4>1, <4>2 DEF Sees, Holds
      <4> QED  BY <2>1, <3>1, <3>2, <4>1, <4>3, WritesStay
    <3>4. StartedAt(k, s)'  BY <1>0, <2>1, <3>1, <3>2, <3>3, StartStays
    <3> QED  BY <3>4
  <2> QED  BY <2>3, <2>4
<1>6. CASE Tick
  <2>1. /\ UNCHANGED <<charges, disturbed, phase, layer, who, now, pending, view>>
        /\ clock' \in Nat /\ clock <= clock' /\ clock' <= MaxTime /\ MaxTime \in Nat
    BY <1>0, <1>6, ConstantsAssumption DEF Tick, history
  <2> SUFFICES ASSUME NEW k \in Key \ disturbed PROVE \E s \in Int : StartedAt(k, s)'
    BY <2>1 DEF BucketsOK
  <2>2. PICK s \in Int : StartedAt(k, s)  BY DEF BucketsOK
  <2>3. \A q \in Request : Sees(q, k)' => WritesOn(q, k, s)'
    BY <2>1, <2>2, WritesStay DEF Sees, Holds, KeyAt, LayerAt
  <2>4. CASE store'[k] = store[k]
    <3>1. StartedAt(k, s)'  BY <1>0, <2>1, <2>2, <2>3, <2>4, StartStays
    <3> QED  BY <3>1
  <2>5. CASE store'[k] # store[k]
    <3>1. store'[k] = Nil /\ store[k] # Nil /\ store[k].expiresAt <= clock'
      BY <1>6, <2>5 DEF Tick
    <3>2. Span(k)' = Span(k) /\ Limited(k)' = Limited(k)  BY DEF Span, Limited, LayerOf
    <3>3. store[k].expiresAt \in Nat /\ store[k].resetAt \in Nat  BY <3>1, StoreNumbers
    <3>4. Span(k) \in Nat /\ Slack * Second \in Nat  BY KeyNumbers
    <3>5. (store[k] = Nil => s + Span(k) + Slack * Second <= clock)'
      <4>1. /\ store[k].resetAt = s + Span(k)
            /\ \/ store[k].resetAt + Slack * Second <= store[k].expiresAt
               \/ MaxTime < store[k].expiresAt
        BY <2>2, <3>1 DEF StartedAt
      <4>2. s + Span(k) + Slack * Second <= clock'  BY <2>1, <3>1, <3>3, <3>4, <4>1
      <4> QED  BY <3>2, <4>2
    <3>6. /\ (charges[k] # {} => \E x \in charges[k] : x.at = s)'
          /\ (\A x \in charges[k] : x.at < s + Span(k))'
          /\ (Cardinality(Since(charges[k], s)) <= Limited(k))'
          /\ (\A t \in Int : s - Span(k) < t => Cardinality(Between(charges[k], t, s)) < Limited(k))'
      BY <2>1, <2>2, <3>2 DEF StartedAt, Since, Between
    <3>7. StartedAt(k, s)'  BY <2>3, <3>1, <3>5, <3>6 DEF StartedAt
    <3> QED  BY <3>7
  <2> QED  BY <2>4, <2>5
<1>7. CASE UNCHANGED limiterVars
  BY <1>1, <1>7 DEF limiterVars, history, Sees, Holds, KeyAt, LayerAt
<1> QED  BY <1>2, <1>3, <1>4, <1>5, <1>6, <1>7 DEF LimiterNext, Proceed

(* A window of Span(k) that begins at t takes less than Limited(k) charges *)
(* from before the last bucket and at most Limited(k) from that bucket.    *)
LEMMA PromiseStep ==
  ASSUME LimiterTypeOK, ChecksOK, ChargesOK, BucketsOK, PromiseOK, [LimiterNext]_limiterVars
  PROVE  PromiseOK'
<1>1. ASSUME UNCHANGED <<charges, disturbed>>
      PROVE  PromiseOK'
  BY <1>1 DEF PromiseOK, Within, Limited, Span, LayerOf
<1>2. ASSUME NEW r \in Request, Put(r)
      PROVE  PromiseOK'
  <2> SUFFICES ASSUME NEW k \in Key \ disturbed', NEW t \in Int
               PROVE  Cardinality(Within(k, t)') <= 2 * Limited(k) - 1
    BY DEF PromiseOK, Limited, LayerOf
  <2>0. PICK j, x : j = KeyAt(r) /\ x = [by |-> r, at |-> now[r]]  OBVIOUS
  <2>6. disturbed' = IF Holds(r) THEN disturbed ELSE disturbed \union {j}
    BY <1>2, <2>0, PutFacts
  <2>7. k \notin disturbed /\ (k = j => Holds(r))  BY <2>6
  <2>1. /\ x.at = now[r] /\ now[r] \in Nat
        /\ charges'[j] = charges[j] \union {x}
        /\ \A i \in Key \ {j} : charges'[i] = charges[i]
    BY <1>2, <2>0, PutFacts
  <2>2. Span(k) \in Nat /\ Limited(k) \in Nat \ {0} /\ Within(k, t)' = Between(charges'[k], t, t + Span(k))
    BY KeyNumbers DEF Within, Between, Span, LayerOf
  <2>3. Cardinality(Between(charges[k], t, t + Span(k))) <= 2 * Limited(k) - 1
    BY <2>7 DEF PromiseOK, Within, Between
  <2>4. CASE k # j
    BY <2>1, <2>2, <2>3, <2>4
  <2>5. CASE k = j
    <3>1. PICK s \in Int : s <= now[r] /\ StartedAt(k, s)'
      BY <1>2, <2>0, <2>5, <2>7, PutStarts
    <3>2. IsFiniteSet(charges'[k]) /\ \A y \in charges'[k] : y.at \in Nat
      <4>1. IsFiniteSet(charges[k]) /\ \A y \in charges[k] : y.at \in Nat
        BY DEF ChargesOK, LimiterTypeOK, Charge, Time
      <4>2. IsFiniteSet(charges[k] \union {x})  BY <4>1, FS_AddElement
      <4> QED  BY <2>1, <2>5, <4>1, <4>2
    <3> DEFINE c == charges'[k]
    <3>3. CASE t + Span(k) <= s
      <4>1. Between(c, t, t + Span(k)) = Between(charges[k], t, t + Span(k))
        <5>1. ~(now[r] < t + Span(k))  BY <2>1, <2>2, <3>1, <3>3
        <5> QED  BY <2>1, <2>5, <5>1 DEF Between
      <4> QED  BY <2>2, <2>3, <4>1
    <3>4. CASE s < t + Span(k)
      <4>1. Cardinality(Since(c, s)) <= Limited(k)
            /\ Cardinality(Between(c, t, s)) < Limited(k)
        <5>1. s - Span(k) < t  BY <2>2, <3>4
        <5>2. (Cardinality(Since(charges[k], s)) <= Limited(k))'
              /\ (\A u \in Int : s - Span(k) < u => Cardinality(Between(charges[k], u, s)) < Limited(k))'
          BY <3>1 DEF StartedAt
        <5>3. Cardinality(Between(charges'[k], t, s)) < Limited(k)
          BY <5>1, <5>2 DEF Between, Limited, Span, LayerOf
        <5> QED  BY <5>2, <5>3 DEF Since, Limited, LayerOf
      <4> HIDE DEF c
      <4>2. /\ IsFiniteSet(Since(c, s)) /\ Cardinality(Since(c, s)) \in Nat
            /\ IsFiniteSet(Between(c, t, s)) /\ Cardinality(Between(c, t, s)) \in Nat
            /\ Cardinality(Between(c, t, t + Span(k))) \in Nat
        BY <3>2, Counted DEF c
      <4>3. /\ IsFiniteSet(Between(c, t, s) \union Since(c, s))
            /\ Cardinality(Between(c, t, s) \union Since(c, s)) <=
                 Cardinality(Between(c, t, s)) + Cardinality(Since(c, s))
        <5>1. /\ IsFiniteSet(Between(c, t, s) \union Since(c, s))
              /\ Cardinality(Between(c, t, s) \union Since(c, s)) =
                   Cardinality(Between(c, t, s)) + Cardinality(Since(c, s))
                     - Cardinality(Between(c, t, s) \intersect Since(c, s))
          BY <4>2, FS_Union
        <5>2. Cardinality(Between(c, t, s) \intersect Since(c, s)) \in Nat
          BY <4>2, FS_Intersection, FS_CardinalityType
        <5> QED  BY <4>2, <5>1, <5>2
      <4>4. Between(c, t, t + Span(k)) \in SUBSET (Between(c, t, s) \union Since(c, s))
        BY <3>2 DEF Between, Since, c
      <4>5. Cardinality(Between(c, t, t + Span(k))) <= Cardinality(Between(c, t, s) \union Since(c, s))
        BY <4>3, <4>4, FS_Subset
      <4>6. Cardinality(Between(c, t, s) \union Since(c, s)) \in Nat
        BY <4>3, FS_CardinalityType
      <4>7. Cardinality(Between(c, t, t + Span(k))) <= 2 * Limited(k) - 1
        BY <2>2, <4>1, <4>2, <4>3, <4>5, <4>6
      <4> QED  BY <2>2, <4>7 DEF c
    <3> QED  BY <2>2, <3>3, <3>4
  <2> QED  BY <2>4, <2>5
<1>3. ASSUME NEW r \in Request, NEW ip \in Ip, NEW h \in Host, Start(r, ip, h)
      PROVE  PromiseOK'
  BY <1>1, <1>3 DEF Start, history
<1>4. ASSUME NEW r \in Request, Refuse(r) \/ Count(r)
      PROVE  PromiseOK'
  BY <1>1, <1>4 DEF Refuse, Count, history
<1>5. CASE Tick \/ UNCHANGED limiterVars
  BY <1>1, <1>5 DEF Tick, limiterVars, history
<1> QED  BY <1>2, <1>3, <1>4, <1>5 DEF LimiterNext, Proceed

-----------------------------------------------------------------------------
(* The retry hints. *)

LEMMA RetriesStep ==
  ASSUME LimiterTypeOK, ChecksOK, ChargesOK, RetriesOK, [LimiterNext]_limiterVars
  PROVE  RetriesOK'
(* A step that concerns neither the request nor its key. *)
<1>1. ASSUME NEW q \in Request, phase'[q] = phase[q], layer'[q] = layer[q], who'[q] = who[q],
             retryAt'[q] = retryAt[q], charges'[KeyAt(q)] = charges[KeyAt(q)],
             store'[KeyAt(q)] \in {store[KeyAt(q)], Nil}
      PROVE  phase'[q] = "refused" => RetryOK(q)'
  <2>1. KeyAt(q)' = KeyAt(q)  BY <1>1 DEF KeyAt, LayerAt, KeyOf
  <2>2. phase[q] = "refused" => RetryOK(q)  BY <1>1 DEF RetriesOK
  <2> QED  BY <1>1, <2>1, <2>2 DEF RetryOK
<1>2. ASSUME NEW r \in Request, NEW ip \in Ip, NEW h \in Host, Start(r, ip, h)
      PROVE  RetriesOK'
  <2>1. /\ phase' = [phase EXCEPT ![r] = "get"] /\ who' = [who EXCEPT ![r] = [ip |-> ip, host |-> h]]
        /\ UNCHANGED <<store, layer, retryAt, charges>>
    BY <1>2 DEF Start, history
  <2>2. \A q \in Request \ {r} : phase'[q] = phase[q] /\ who'[q] = who[q]  BY <2>1 DEF LimiterTypeOK
  <2>3. phase'[r] # "refused"  BY <2>1 DEF LimiterTypeOK
  <2>4. \A q \in Request : phase'[q] = "refused" => RetryOK(q)'
    <3> TAKE q \in Request
    <3>1. CASE q = r  BY <2>3, <3>1
    <3>2. CASE q # r  BY <1>1, <2>1, <2>2, <3>2
    <3> QED  BY <3>1, <3>2
  <2> QED  BY <2>4 DEF RetriesOK
<1>3. ASSUME NEW r \in Request, Count(r)
      PROVE  RetriesOK'
  <2>1. phase' = [phase EXCEPT ![r] = "put"] /\ UNCHANGED <<store, layer, who, retryAt, charges>>
    BY <1>3 DEF Count
  <2>2. \A q \in Request : phase'[q] = "refused" => RetryOK(q)'
    <3> TAKE q \in Request
    <3>1. CASE q = r  BY <2>1, <3>1 DEF LimiterTypeOK
    <3>2. CASE q # r
      <4>1. phase'[q] = phase[q]  BY <2>1, <3>2 DEF LimiterTypeOK
      <4> QED  BY <1>1, <2>1, <4>1
    <3> QED  BY <3>1, <3>2
  <2> QED  BY <2>2 DEF RetriesOK
<1>4. ASSUME NEW r \in Request, Refuse(r)
      PROVE  RetriesOK'
  <2> DEFINE m == now[r] + Second * retryAfterSec(Seen(r), now[r])
  <2>1. /\ phase[r] = "get" /\ Seen(r).count >= Limit[LayerAt(r)]
        /\ phase' = [phase EXCEPT ![r] = "refused"]
        /\ retryAt' = [retryAt EXCEPT ![r] = [time |-> m, charged |-> charges[KeyAt(r)]]]
        /\ UNCHANGED <<store, layer, who, charges>>
    BY <1>4 DEF Refuse, history
  <2>2. \A q \in Request \ {r} : phase'[q] = phase[q] /\ retryAt'[q] = retryAt[q]  BY <2>1 DEF LimiterTypeOK
  <2>3. retryAt'[r] = [time |-> m, charged |-> charges[KeyAt(r)]]  BY <2>1 DEF LimiterTypeOK
  <2>4. store[KeyAt(r)].resetAt <= m /\ m \in Nat
    <3> DEFINE n == Seen(r).resetAt - now[r]
    <3>1. /\ Seen(r) \in [count : Nat, resetAt : Nat] /\ now[r] < Seen(r).resetAt
          /\ \/ Seen(r).resetAt = store[KeyAt(r)].resetAt
             \/ Seen(r).count = 0
      BY <2>1, SeenFacts
    <3>2. Limit[LayerAt(r)] \in Nat \ {0} /\ now[r] \in Nat
      BY <2>1, KeyFacts, LayerNumbers DEF LimiterTypeOK, Time
    <3>3. Seen(r).resetAt = store[KeyAt(r)].resetAt  BY <2>1, <3>1, <3>2
    <3>4. n \in Nat /\ Second \in Nat \ {0}  BY <3>1, <3>2, ConstantsAssumption
    <3>5. retryAfterSec(Seen(r), now[r]) = (n + Second - 1) \div Second  BY DEF retryAfterSec
    <3> HIDE DEF n
    <3>6. retryAfterSec(Seen(r), now[r]) \in Nat
          /\ n <= Second * retryAfterSec(Seen(r), now[r])
      BY <3>4, <3>5, RoundedUp
    <3>7. Second * retryAfterSec(Seen(r), now[r]) \in Nat  BY <3>4, <3>6
    <3>8. Seen(r).resetAt <= m  BY <3>1, <3>2, <3>6, <3>7 DEF n
    <3> QED  BY <3>2, <3>3, <3>7, <3>8 DEF m
  <2> HIDE DEF m
  <2>5. \A q \in Request : phase'[q] = "refused" => RetryOK(q)'
    <3> TAKE q \in Request
    <3>1. CASE q = r
      <4>1. KeyAt(r)' = KeyAt(r)  BY <2>1 DEF KeyAt, LayerAt
      <4> QED  BY <2>1, <2>3, <2>4, <3>1, <4>1 DEF RetryOK
    <3>2. CASE q # r  BY <1>1, <2>1, <2>2, <3>2
    <3> QED  BY <3>1, <3>2
  <2> QED  BY <2>5 DEF RetriesOK
<1>5. ASSUME NEW r \in Request, Put(r)
      PROVE  RetriesOK'
  <2>0. PICK k, x : k = KeyAt(r) /\ x = [by |-> r, at |-> now[r]]  OBVIOUS
  <2>1. /\ x \notin charges[k] /\ charges'[k] = charges[k] \union {x}
        /\ \A j \in Key \ {k} : charges'[j] = charges[j] /\ store'[j] = store[j]
        /\ UNCHANGED <<who, retryAt>>
        /\ phase'[r] \in {"get", "admitted"}
        /\ \A q \in Request \ {r} : phase'[q] = phase[q] /\ layer'[q] = layer[q]
    BY <1>5, <2>0, PutFacts
  <2>2. \A q \in Request : phase'[q] = "refused" => RetryOK(q)'
    <3> TAKE q \in Request
    <3>1. CASE q = r  BY <2>1, <3>1
    <3>2. CASE q # r /\ phase[q] = "refused"
      <4>1. KeyAt(q) \in Key  BY <3>2, KeyFacts
      <4>2. CASE KeyAt(q) # k
        <5>1. charges'[KeyAt(q)] = charges[KeyAt(q)] /\ store'[KeyAt(q)] = store[KeyAt(q)]
          BY <2>1, <4>1, <4>2
        <5> QED  BY <1>1, <2>1, <3>2, <5>1
      <4>3. CASE KeyAt(q) = k
        <5>1. KeyAt(q)' = k /\ retryAt'[q] = retryAt[q]
          BY <2>1, <3>2, <4>3 DEF KeyAt, LayerAt, KeyOf
        <5>2. retryAt[q].charged \subseteq charges[k] /\ retryAt[q].time \in Nat  BY <3>2, <4>3 DEF RetriesOK, RetryOK
        <5>3. retryAt[q].charged \subseteq charges'[k] /\ retryAt[q].charged # charges'[k]
          BY <2>1, <5>2
        <5> QED  BY <5>1, <5>2, <5>3 DEF RetryOK
      <4> QED  BY <4>2, <4>3
    <3>3. CASE q # r /\ phase[q] # "refused"  BY <2>1, <3>3
    <3> QED  BY <3>1, <3>2, <3>3
  <2> QED  BY <2>2 DEF RetriesOK
<1>6. CASE Tick
  <2>1. UNCHANGED <<phase, layer, who, retryAt, charges>>  BY <1>6 DEF Tick, history
  <2>2. \A j \in Key : store'[j] \in {store[j], Nil}  BY <1>6 DEF Tick
  <2>3. \A q \in Request : phase'[q] = "refused" => RetryOK(q)'
    <3> TAKE q \in Request
    <3>1. CASE phase[q] = "refused"
      <4>1. KeyAt(q) \in Key  BY <3>1, KeyFacts
      <4> QED  BY <1>1, <2>1, <2>2, <4>1
    <3>2. CASE phase[q] # "refused"  BY <2>1, <3>2
    <3> QED  BY <3>1, <3>2
  <2> QED  BY <2>3 DEF RetriesOK
<1>7. CASE UNCHANGED limiterVars
  <2>1. UNCHANGED <<phase, layer, who, retryAt, charges, store>>  BY <1>7 DEF limiterVars, history
  <2>2. \A q \in Request : phase'[q] = "refused" => RetryOK(q)'  BY <1>1, <2>1
  <2> QED  BY <2>2 DEF RetriesOK
<1> QED  BY <1>2, <1>3, <1>4, <1>5, <1>6, <1>7 DEF LimiterNext, Proceed

-----------------------------------------------------------------------------
(* The theorems. *)

LEMMA Initially == LimiterInit => IInv
<1> SUFFICES ASSUME LimiterInit PROVE IInv  OBVIOUS
<1>1. LimiterTypeOK
  <2>1. 0 \in Time  BY ConstantsAssumption DEF Time
  <2>2. 1 \in DOMAIN Layers  BY LayersDiffer
  <2> QED  BY <2>1, <2>2 DEF LimiterInit, LimiterTypeOK
<1>2. ChecksOK
  <2>1. \A r \in Request : phase[r] = "idle"  BY DEF LimiterInit
  <2> QED  BY <2>1 DEF ChecksOK, CheckOK, Checking
<1>3. ChargesOK  BY FS_EmptySet DEF LimiterInit, ChargesOK
<1>4. BucketsOK
  <2> SUFFICES ASSUME NEW k \in Key PROVE \E s \in Int : StartedAt(k, s)
    BY DEF BucketsOK
  <2>1. Span(k) \in Nat /\ Limited(k) \in Nat \ {0} /\ Slack * Second \in Nat  BY KeyNumbers
  <2>2. PICK s \in Int : s = -(Span(k) + Slack * Second)  BY <2>1
  <2>3. charges[k] = {} /\ store[k] = Nil /\ clock = 0  BY DEF LimiterInit
  <2>4. Since(charges[k], s) = {} /\ \A t : Between(charges[k], t, s) = {}
    BY <2>3 DEF Since, Between
  <2>5. Cardinality({}) = 0  BY FS_EmptySet
  <2>6. \A r \in Request : ~Sees(r, k)  BY DEF LimiterInit, Sees
  <2>7. s + Span(k) + Slack * Second <= clock  BY <2>1, <2>2, <2>3
  <2>8. Cardinality(Since(charges[k], s)) <= Limited(k)
        /\ \A t \in Int : Cardinality(Between(charges[k], t, s)) < Limited(k)
    BY <2>1, <2>4, <2>5
  <2>9. StartedAt(k, s)  BY <2>3, <2>6, <2>7, <2>8 DEF StartedAt
  <2> QED  BY <2>9
<1>5. PromiseOK
  <2> SUFFICES ASSUME NEW k \in Key, NEW t \in Int
               PROVE  Cardinality(Within(k, t)) <= 2 * Limited(k) - 1
    BY DEF PromiseOK
  <2>1. Within(k, t) = {}  BY DEF LimiterInit, Within
  <2>2. Limited(k) \in Nat \ {0}  BY KeyNumbers
  <2> QED  BY <2>1, <2>2, FS_EmptySet
<1>6. RetriesOK  BY DEF LimiterInit, RetriesOK
<1> QED  BY <1>1, <1>2, <1>3, <1>4, <1>5, <1>6 DEF IInv

(* The strengthened invariant holds, however many checks are in flight and *)
(* however long they take.                                                 *)
THEOREM Invariance == LimiterSpec => []IInv
<1>1. LimiterInit => IInv  BY Initially
<1>2. IInv /\ [LimiterNext]_limiterVars => IInv'
  BY TypeStep, ChecksStep, ChargesStep, BucketsStep, PromiseStep, RetriesStep DEF IInv
<1> QED  BY <1>1, <1>2, PTL DEF LimiterSpec

(* LessThanTwiceTheLimit: a key whose every write rested on a view that    *)
(* still held admits less than twice its limit in any stretch as long as   *)
(* its window.                                                             *)
THEOREM WindowsHold == LimiterSpec => []LessThanTwiceTheLimit
<1>1. IInv => LessThanTwiceTheLimit
  <2> SUFFICES ASSUME IInv, NEW k \in Key \ disturbed, NEW t \in Time
               PROVE  Cardinality(Within(k, t)) <= 2 * Limit[LayerOf(k)] - 1
    BY DEF LessThanTwiceTheLimit
  <2>1. t \in Int  BY DEF Time
  <2> QED  BY <2>1 DEF IInv, PromiseOK, Limited
<1> QED  BY <1>1, Invariance, PTL

(* BucketCountsItsCharges: the bucket of a key whose every write rested on *)
(* a view that still held counts exactly the requests charged since it was *)
(* started.                                                                *)
THEOREM BucketsCount == LimiterSpec => []BucketCountsItsCharges
<1>1. ASSUME IInv, NEW k \in Key \ disturbed
      PROVE  LET b == Current(store[k], LayerOf(k), clock)
             IN  b.count = Cardinality({x \in charges[k] : b.resetAt - Span(k) <= x.at})
  <2>0. /\ clock \in Nat /\ Span(k) \in Nat /\ Window[LayerOf(k)] * Second = Span(k)
        /\ \A x \in charges[k] : x.at \in Nat
    <3>1. clock \in Nat /\ charges[k] \in SUBSET Charge  BY <1>1 DEF IInv, LimiterTypeOK, Time
    <3>2. \A x \in Charge : x.at \in Nat  BY DEF Charge, Time
    <3>3. Span(k) \in Nat /\ Window[LayerOf(k)] * Second = Span(k)  BY KeyNumbers DEF Span
    <3> QED  BY <3>1, <3>2, <3>3
  <2>1. PICK s \in Int : StartedAt(k, s)  BY <1>1 DEF IInv, BucketsOK
  <2> DEFINE b == Current(store[k], LayerOf(k), clock)
             counted == {x \in charges[k] : b.resetAt - Span(k) <= x.at}
  <2>2. CASE store[k] = Nil \/ store[k].resetAt <= clock
    <3>1. b = [count |-> 0, resetAt |-> clock + Span(k)]
      BY <2>0, <2>2 DEF Current, Fresh
    <3>2. b.count = 0 /\ b.resetAt = clock + Span(k)  BY <3>1
    <3> HIDE DEF b
    <3>3. s + Span(k) <= clock
      <4>1. Slack * Second \in Nat  BY KeyNumbers
      <4> QED  BY <2>0, <2>1, <2>2, <4>1 DEF StartedAt
    <3>4. \A x \in charges[k] : x.at < s + Span(k)  BY <2>1 DEF StartedAt
    <3>5. b.resetAt - Span(k) = clock  BY <2>0, <3>2
    <3>6. counted = {}  BY <2>0, <3>3, <3>4, <3>5
    <3>7. b.count = Cardinality(counted)  BY <3>2, <3>6, FS_EmptySet
    <3> QED  BY <3>7 DEF b
  <2>3. CASE ~(store[k] = Nil \/ store[k].resetAt <= clock)
    <3>1. b = [count |-> store[k].count, resetAt |-> store[k].resetAt]
      BY <2>3 DEF Current
    <3>2. b.count = store[k].count /\ b.resetAt = store[k].resetAt  BY <3>1
    <3> HIDE DEF b
    <3>3. /\ store[k].resetAt = s + Span(k)
          /\ store[k].count = Cardinality(Since(charges[k], s))
      BY <2>1, <2>3 DEF StartedAt
    <3>4. b.resetAt - Span(k) = s  BY <2>0, <3>2, <3>3
    <3>5. counted = Since(charges[k], s)  BY <3>4 DEF Since
    <3>6. b.count = Cardinality(counted)  BY <3>2, <3>3, <3>5
    <3> QED  BY <3>6 DEF b
  <2> QED  BY <2>2, <2>3
<1>2. IInv => BucketCountsItsCharges  BY <1>1 DEF BucketCountsItsCharges
<1> QED  BY <1>2, Invariance, PTL

(* RetryAfterIsHonest: unless somebody else is charged meanwhile, the      *)
(* bucket that refused a request has room when it was told to come back.   *)
THEOREM HintsAreHonest == LimiterSpec => []RetryAfterIsHonest
<1>1. ASSUME IInv, NEW r \in Request, phase[r] = "refused", retryAt[r].time <= clock,
             retryAt[r].charged = charges[KeyAt(r)]
      PROVE  Current(store[KeyAt(r)], LayerAt(r), clock).count < Limit[LayerAt(r)]
  <2>1. KeyAt(r) \in Key /\ LayerAt(r) \in Layer  BY <1>1, KeyFacts DEF IInv
  <2>2. store[KeyAt(r)] = Nil \/ store[KeyAt(r)].resetAt <= retryAt[r].time
    BY <1>1 DEF IInv, RetriesOK, RetryOK
  <2>3. store[KeyAt(r)] # Nil => store[KeyAt(r)].resetAt \in Nat
    BY <1>1, <2>1, StoreNumbers DEF IInv
  <2>4. clock \in Nat /\ retryAt[r].time \in Int
    BY <1>1 DEF IInv, LimiterTypeOK, Time, RetriesOK, RetryOK
  <2>5. store[KeyAt(r)] = Nil \/ store[KeyAt(r)].resetAt <= clock  BY <1>1, <2>2, <2>3, <2>4
  <2>6. Current(store[KeyAt(r)], LayerAt(r), clock).count = 0  BY <2>5 DEF Current, Fresh
  <2> QED  BY <2>1, <2>6, LayerNumbers
<1>2. IInv => RetryAfterIsHonest  BY <1>1 DEF RetryAfterIsHonest
<1> QED  BY <1>2, Invariance, PTL
================================================================================

------------------------------- MODULE RateLimit -------------------------------
(***************************************************************************)
(* The rate limiter in front of POST /api/scan                             *)
(* (packages/scan-backend/src/rate-limit.ts).  A request passes four       *)
(* layers in order; each reads a bucket from Redis, decides, and writes    *)
(* the bucket back with a time to live.  Requests interleave between the   *)
(* read and the write: there is no lock and no atomic increment.           *)
(***************************************************************************)
EXTENDS Integers, FiniteSets, Sequences

CONSTANTS
  Request,      \* POST /api/scan requests
  Ip, Host,     \* hashed client addresses, target hosts
  Limit,        \* Limit[l] = requests a bucket of layer l admits
  Window,       \* Window[l] = seconds a bucket of layer l lasts
  Slack,        \* seconds a bucket is kept in Redis beyond its window
  Second,       \* clock ticks in a second
  MaxTime,      \* bound on the clock
  MaxOverlap,   \* bound on the checks in flight at a time
  Nil

Layers == <<"burst", "hour", "day", "target">>

Layer == {Layers[i] : i \in DOMAIN Layers}

Time == 0 .. MaxTime

ASSUME ConstantsAssumption ==
  /\ Limit \in [Layer -> Nat \ {0}]
  /\ Window \in [Layer -> Nat \ {0}]
  /\ Slack \in Nat
  /\ Second \in Nat \ {0}
  /\ MaxTime \in Nat
  /\ MaxOverlap \in Nat
  /\ Nil \notin Time
  /\ Nil \notin [count : Nat, resetAt : Nat, expiresAt : Nat]

VARIABLES
  clock,        \* Date.now()
  store,        \* Redis: the bucket under each key, or Nil
  phase,        \* where a request is: idle, get, put, admitted or refused
  layer,        \* the layer a request is at
  who,          \* its address and target host
  now,          \* `now', taken once when the check begins
  pending,      \* the bucket a request is about to write
  retryAt,      \* when a refused request was told to come back (and, as
                \* history, who had been charged under the key by then)
  charges,      \* history: under each key, who was charged and for when
  view,         \* history: who had been charged under its key when a request
                \* read the bucket it is about to overwrite, and whether the
                \* bucket it read was that of its `now'
  disturbed     \* history: the keys overwritten on a view that did not hold

history == <<charges, view, disturbed>>

limiterVars == <<clock, store, phase, layer, who, now, pending, retryAt, history>>

Key == {<<l, ip, Nil>> : l \in Layer \ {"target"}, ip \in Ip}
         \union {<<"target", ip, h>> : ip \in Ip, h \in Host}

KeyOf(l, w) == <<l, w.ip, IF l = "target" THEN w.host ELSE Nil>>

LayerOf(k) == k[1]

Charge == [by : Request, at : Time]

Bucket == [count : Nat, resetAt : Nat, expiresAt : Nat]

Fresh(l, t) == [count |-> 0, resetAt |-> t + Window[l] * Second]

(* Mutant: a bucket is in force at the end of its window still. *)
Current_Closed(b, l, t) ==
  IF b = Nil \/ b.resetAt < t THEN Fresh(l, t)
  ELSE [count |-> b.count, resetAt |-> b.resetAt]

(* The bucket `consume' decides on: the stored one unless it ran out.      *)
Current(b, l, t) ==
  IF b = Nil \/ b.resetAt <= t THEN Fresh(l, t)
  ELSE [count |-> b.count, resetAt |-> b.resetAt]

(* Mutant: rounded down. *)
retryAfterSec_Floor(b, t) == (b.resetAt - t) \div Second

retryAfterSec(b, t) == (b.resetAt - t + Second - 1) \div Second

--------------------------------------------------------------------------------
LimiterInit ==
  /\ clock = 0
  /\ store = [k \in Key |-> Nil]
  /\ phase = [r \in Request |-> "idle"]
  /\ layer = [r \in Request |-> 1]
  /\ who = [r \in Request |-> Nil]
  /\ now = [r \in Request |-> 0]
  /\ pending = [r \in Request |-> Nil]
  /\ retryAt = [r \in Request |-> Nil]
  /\ charges = [k \in Key |-> {}]
  /\ view = [r \in Request |-> Nil]
  /\ disturbed = {}

Checking(r) == phase[r] \in {"get", "put"}

(* checkScanRateLimit is called; `now' is fixed for all four layers.       *)
Start(r, ip, h) ==
  /\ phase[r] = "idle"
  /\ Cardinality({q \in Request : Checking(q)}) < MaxOverlap
  /\ phase' = [phase EXCEPT ![r] = "get"]
  /\ who' = [who EXCEPT ![r] = [ip |-> ip, host |-> h]]
  /\ now' = [now EXCEPT ![r] = clock]
  /\ UNCHANGED <<clock, store, layer, pending, retryAt, history>>

LayerAt(r) == Layers[layer[r]]

KeyAt(r) == KeyOf(LayerAt(r), who[r])

Seen(r) == Current(store[KeyAt(r)], LayerAt(r), now[r])

(* The bucket is full: the request is turned away and told when to retry.  *)
Refuse(r) ==
  /\ phase[r] = "get"
  /\ Seen(r).count >= Limit[LayerAt(r)]
  /\ phase' = [phase EXCEPT ![r] = "refused"]
  /\ retryAt' = [retryAt EXCEPT ![r] =
                   [time |-> now[r] + Second * retryAfterSec(Seen(r), now[r]),
                    charged |-> charges[KeyAt(r)]]]
  /\ UNCHANGED <<clock, store, layer, who, now, pending, history>>

(* The bucket r reads is the one in force at now[r]: Redis has not had the *)
(* time to drop it, and nobody who came later was charged before.          *)
InTime(r) ==
  /\ clock <= now[r] + Slack * Second
  /\ \A x \in charges[KeyAt(r)] : x.at <= now[r]

(* Mutant: every request starts the window of its bucket anew. *)
Count_Slides(r) ==
  /\ phase[r] = "get"
  /\ Seen(r).count < Limit[LayerAt(r)]
  /\ phase' = [phase EXCEPT ![r] = "put"]
  /\ pending' = [pending EXCEPT ![r] = [count |-> Seen(r).count + 1,
                                        resetAt |-> Fresh(LayerAt(r), now[r]).resetAt]]
  /\ view' = [view EXCEPT ![r] = [charged |-> charges[KeyAt(r)], sound |-> InTime(r)]]
  /\ UNCHANGED <<clock, store, layer, who, now, retryAt, charges, disturbed>>

(* The bucket has room: the request is counted in its own copy.            *)
Count(r) ==
  /\ phase[r] = "get"
  /\ Seen(r).count < Limit[LayerAt(r)]
  /\ phase' = [phase EXCEPT ![r] = "put"]
  /\ pending' = [pending EXCEPT ![r] = [Seen(r) EXCEPT !.count = @ + 1]]
  /\ view' = [view EXCEPT ![r] = [charged |-> charges[KeyAt(r)], sound |-> InTime(r)]]
  /\ UNCHANGED <<clock, store, layer, who, now, retryAt, charges, disturbed>>

(* The view of r holds: it was in time, and nobody was charged since.      *)
Holds(r) == view[r].sound /\ view[r].charged = charges[KeyAt(r)]

(* When Redis drops a key written now; beyond the bound on the clock it    *)
(* does not matter when.                                                   *)
ExpiryOf(l) ==
  LET e == clock + (Window[l] + Slack) * Second
  IN  IF e <= MaxTime THEN e ELSE MaxTime + 1

(* Mutant: a key lives as long as its window and no longer. *)
Put_NoMargin(r) ==
  /\ phase[r] = "put"
  /\ store' = [store EXCEPT ![KeyAt(r)] =
                 [count |-> pending[r].count, resetAt |-> pending[r].resetAt,
                  expiresAt |-> clock + Window[LayerAt(r)] * Second]]
  /\ charges' = [charges EXCEPT ![KeyAt(r)] = @ \union {[by |-> r, at |-> now[r]]}]
  /\ pending' = [pending EXCEPT ![r] = Nil]
  /\ view' = [view EXCEPT ![r] = Nil]
  /\ disturbed' = IF Holds(r) THEN disturbed ELSE disturbed \union {KeyAt(r)}
  /\ IF layer[r] = Len(Layers)
     THEN phase' = [phase EXCEPT ![r] = "admitted"] /\ UNCHANGED layer
     ELSE phase' = [phase EXCEPT ![r] = "get"] /\ layer' = [layer EXCEPT ![r] = @ + 1]
  /\ UNCHANGED <<clock, who, now, retryAt>>

(* The copy is written back, and the request goes on to the next layer.    *)
Put(r) ==
  /\ phase[r] = "put"
  /\ store' = [store EXCEPT ![KeyAt(r)] =
                 [count |-> pending[r].count, resetAt |-> pending[r].resetAt,
                  expiresAt |-> ExpiryOf(LayerAt(r))]]
  /\ charges' = [charges EXCEPT ![KeyAt(r)] = @ \union {[by |-> r, at |-> now[r]]}]
  /\ pending' = [pending EXCEPT ![r] = Nil]
  /\ view' = [view EXCEPT ![r] = Nil]
  /\ disturbed' = IF Holds(r) THEN disturbed ELSE disturbed \union {KeyAt(r)}
  /\ IF layer[r] = Len(Layers)
     THEN phase' = [phase EXCEPT ![r] = "admitted"] /\ UNCHANGED layer
     ELSE phase' = [phase EXCEPT ![r] = "get"] /\ layer' = [layer EXCEPT ![r] = @ + 1]
  /\ UNCHANGED <<clock, who, now, retryAt>>

(* Time passes; Redis drops the keys whose time to live has run out, and   *)
(* may take any time to answer.                                            *)
Tick ==
  /\ clock < MaxTime
  /\ clock' = clock + 1
  /\ store' = [k \in Key |-> IF store[k] # Nil /\ store[k].expiresAt <= clock'
                              THEN Nil ELSE store[k]]
  /\ UNCHANGED <<phase, layer, who, now, pending, retryAt, history>>

Proceed(r) == Refuse(r) \/ Count(r) \/ Put(r)

LimiterNext ==
  \/ \E r \in Request, ip \in Ip, h \in Host : Start(r, ip, h)
  \/ \E r \in Request : Proceed(r)
  \/ Tick

LimiterSpec == LimiterInit /\ [][LimiterNext]_limiterVars

--------------------------------------------------------------------------------
(* Every variable has its type; no bucket counts more than its limit.      *)
LimiterTypeOK ==
  /\ clock \in Time
  /\ store \in [Key -> Bucket \union {Nil}]
  /\ \A k \in Key : store[k] # Nil => store[k].count \in 1 .. Limit[LayerOf(k)]
  /\ phase \in [Request -> {"idle", "get", "put", "admitted", "refused"}]
  /\ layer \in [Request -> DOMAIN Layers]
  /\ who \in [Request -> [ip : Ip, host : Host] \union {Nil}]
  /\ now \in [Request -> Time]
  /\ pending \in [Request -> [count : Nat, resetAt : Nat] \union {Nil}]
  /\ retryAt \in [Request -> [time : Nat, charged : SUBSET Charge] \union {Nil}]
  /\ charges \in [Key -> SUBSET Charge]
  /\ view \in [Request -> [charged : SUBSET Charge, sound : BOOLEAN] \union {Nil}]
  /\ disturbed \subseteq Key

Span(k) == Window[LayerOf(k)] * Second

Within(k, t) == {x \in charges[k] : t <= x.at /\ x.at < t + Span(k)}

(* What the buckets do guarantee, however many checks are in flight: as    *)
(* long as every write of a key rested on a view that still held, any      *)
(* stretch as long as the window admits less than twice the limit.  A      *)
(* bucket holds its first request, so the next one starts a window later,  *)
(* and Redis keeps it long enough for a check that began before its end    *)
(* to see it (rate-limit.ts:49-61, the margin of 5 s in the time to live). *)
LessThanTwiceTheLimit ==
  \A k \in Key \ disturbed, t \in Time :
    Cardinality(Within(k, t)) <= 2 * Limit[LayerOf(k)] - 1

(* As long as every write rested on a view that still held, a bucket       *)
(* counts exactly the requests charged since it was started, also across   *)
(* lapsed and dropped buckets (rate-limit.ts:49-60).                       *)
BucketCountsItsCharges ==
  \A k \in Key \ disturbed :
    LET b == Current(store[k], LayerOf(k), clock)
    IN  b.count = Cardinality({x \in charges[k] : b.resetAt - Span(k) <= x.at})

(* The time a refused request was told holds, however checks overlap: if   *)
(* nobody was charged under the key since, the layer that refused it has   *)
(* room again by then, at the boundary too (rate-limit.ts:53 and 85).      *)
RetryAfterIsHonest ==
  \A r \in Request :
    /\ phase[r] = "refused"
    /\ retryAt[r].time <= clock
    /\ retryAt[r].charged = charges[KeyAt(r)]
    => Current(store[KeyAt(r)], LayerAt(r), clock).count < Limit[LayerAt(r)]

(* What the header promises of the first layer, a sliding window of 30 s,  *)
(* and what its test says: "second call within 30s burst window blocks".   *)
(* Two overlapping checks of an address both read the empty bucket, and    *)
(* both are admitted (rate-limit.ts:49-60).                                *)
BurstIsHeld ==
  \A k \in Key, t \in Time :
    LayerOf(k) = "burst" => Cardinality(Within(k, t)) <= Limit["burst"]
================================================================================

--------------------------- MODULE OrchestratorProofs --------------------------
(***************************************************************************)
(* Proofs about one scan, for every number of analyzers, domains, elements *)
(* and listeners, and whichever listeners throw, come and go.              *)
(*                                                                         *)
(* Two independent arguments.  What a listener heard is a prefix of the    *)
(* whole stream, and as long as the scan is in its try block everybody who *)
(* matters heard the prefix that pc and seq determine; a throw leaves it   *)
(* shorter for some, but then the scan only emits one scan_error more.     *)
(* Disposal and findings follow pc alone.                                  *)
(***************************************************************************)
EXTENDS Orchestrator, SequenceTheorems, TLAPS

Event == ScanEvent(2 * Elements)

OrderOK == order \in Seq(Hearing) /\ IsInjective(order)

(* What can be said of the variables one by one. *)
Typed ==
  /\ emitter \in {"given", "own", "null"}
  /\ elementIter \in BOOLEAN
  /\ emitter = "null" => ~elementIter
  /\ OrderOK
  /\ heard \in [Hearing -> Seq(Event)]
  /\ seq \in Nat
  /\ running \subseteq Analyzer
  /\ findings \in [Domain -> [by : Analyzer \union {Nobody}, ok : BOOLEAN]]
  /\ attentive \subseteq Listener

Trying == {"started", "scanning", "verdict", "analyze", "analyzing", "complete", "detach"}

Disposing == {"dispose", "disposeFailed", "returned", "threw"}

(* pc, and what it says of elementIter and seq. *)
Progress ==
  /\ pc \in {"init", "catch"} \union Trying \union Disposing
  /\ pc \in {"started", "scanning", "verdict", "complete"} => elementIter
  /\ pc \in {"init", "started"} => seq = 0
  /\ pc = "scanning" => \E k \in Nat : seq = 2 * k /\ seq < 2 * Elements
  /\ pc = "verdict" => \E k \in Nat : seq = 2 * k + 1 /\ seq < 2 * Elements
  /\ pc \in {"analyze", "analyzing", "complete", "detach", "dispose", "returned"} /\ elementIter
       => seq = 2 * Elements
  /\ seq <= 2 * Elements

(* Once disposal has begun, an analyzer is disposed of or still to be.     *)
DisposalOK ==
  /\ disposed \in BOOLEAN /\ (disposed <=> pc \in Disposing)
  /\ disposing \subseteq Analyzer
  /\ disposing # {} => pc \in {"dispose", "disposeFailed"}
  /\ disposals = [a \in Analyzer |-> IF disposed /\ a \notin disposing THEN 1 ELSE 0]

(* Who listens: those attentive, and the replay between Begin and disposal. *)
ListeningOK ==
  /\ attentive \subseteq ToSet(order)
  /\ pc \in {"init"} \union Disposing => Replay \notin ToSet(order)
  /\ pc \in Trying \union {"catch"} /\ emitter # "null" => Replay \in ToSet(order)
  /\ emitter = "null" => order = <<>>

SettledOK ==
  /\ running # {} => pc = "analyzing"
  /\ \A d \in Domain, a \in Analyzer :
       /\ pc \in {"analyzing", "complete", "detach", "dispose", "returned"}
       /\ {b \in Analyzer : DomainOf[b] = d} = {a}
       /\ a \notin running
       => findings[d].by = a

-----------------------------------------------------------------------------
(* The stream a scan promises, and its prefixes. *)

EventAt(i) ==
  IF i = 1 THEN Started
  ELSE IF i <= 2 * Elements + 1 THEN Element(i - 2) ELSE Complete

Prefix(st, n) ==
  /\ Len(st) = n
  /\ n <= 2 * Elements + 2
  /\ \A i \in 1 .. n : st[i] = EventAt(i)

(* How much of it has been emitted when the scan is at pc. *)
Emitted ==
  IF ~elementIter \/ pc \in {"init", "started"} THEN 0
  ELSE IF pc \in {"detach", "dispose", "returned"} THEN 2 * Elements + 2 ELSE seq + 1

(* The locked order, up to a failure that comes last. *)
InOrder(st) ==
  LET body == IF st # <<>> /\ Last(st) = Failure THEN Front(st) ELSE st
  IN  Locked(body) /\ Failure \notin ToSet(body)

Attention == attentive \union {Replay}

HeardOK ==
  /\ pc \in {"init", "started"} => \A l \in Hearing : heard[l] = <<>>
  /\ pc \in Trying => \A l \in Attention : Prefix(heard[l], Emitted)
  /\ pc \in {"dispose", "returned"} => Prefix(heard[Replay], Emitted)
  /\ pc = "catch" => \A l \in Attention : \E n \in Nat : Prefix(heard[l], n)
  /\ \A l \in Attention : InOrder(heard[l])

IInv == Typed /\ Progress /\ DisposalOK /\ ListeningOK /\ SettledOK /\ HeardOK

-----------------------------------------------------------------------------
(* Lemmas about events, prefixes and the set of listeners. *)

(* The four kinds of event are distinct. *)
LEMMA EventsDiffer ==
  /\ Started # Complete /\ Started # Failure /\ Complete # Failure
  /\ \A n : Element(n) # Started /\ Element(n) # Complete /\ Element(n) # Failure
  /\ \A n : Element(n).kind = "element_scan" /\ Element(n).seq = n
  /\ Started.kind # "element_scan" /\ Complete.kind # "element_scan" /\ Failure.kind # "element_scan"
<1>1. Started.kind = "scan_started" /\ Complete.kind = "scan_complete" /\ Failure.kind = "scan_error"
  BY DEF Started, Complete, Failure
<1>2. \A n : Element(n).kind = "element_scan" /\ Element(n).seq = n
  BY DEF Element
<1> QED  BY <1>1, <1>2

(* The events of the whole stream, and that it is in the locked order. *)
LEMMA StreamEvents ==
  ASSUME NEW i \in 1 .. 2 * Elements + 2
  PROVE  /\ EventAt(i) \in Event
         /\ EventAt(i) # Failure
         /\ EventAt(i) = Started <=> i = 1
         /\ EventAt(i) = Complete <=> i = 2 * Elements + 2
         /\ EventAt(i).kind = "element_scan" => EventAt(i).seq = i - 2
<1>1. Elements \in Nat  BY ConstantsAssumption
<1>2. CASE i = 1
  BY <1>1, <1>2, EventsDiffer DEF EventAt, Event, ScanEvent
<1>3. CASE i # 1 /\ i <= 2 * Elements + 1
  <2>1. i - 2 \in 0 .. 2 * Elements  BY <1>1, <1>3
  <2>2. EventAt(i) = Element(i - 2)  BY <1>3 DEF EventAt
  <2>3. Element(i - 2) \in Event  BY <2>1 DEF Event, ScanEvent
  <2> QED  BY <1>1, <1>3, <2>2, <2>3, EventsDiffer
<1>4. CASE i = 2 * Elements + 2
  BY <1>1, <1>4, EventsDiffer DEF EventAt, Event, ScanEvent
<1> QED  BY <1>1, <1>2, <1>3, <1>4

(* A prefix of the stream is in the locked order and free of failures. *)
LEMMA PrefixIsLocked ==
  ASSUME NEW st \in Seq(Event), NEW n \in Nat, Prefix(st, n)
  PROVE  Locked(st) /\ Failure \notin ToSet(st)
<1>1. Elements \in Nat  BY ConstantsAssumption
<1>2. DOMAIN st = 1 .. n /\ Len(st) = n  BY LenProperties DEF Prefix
<1>3. \A i \in 1 .. n : i \in 1 .. 2 * Elements + 2 /\ st[i] = EventAt(i)
  BY <1>1 DEF Prefix
<1>4. Failure \notin ToSet(st)  BY <1>2, <1>3, StreamEvents DEF ToSet
<1>5. ASSUME NEW i \in 1 .. n
      PROVE  /\ st[i] = Started <=> i = 1
             /\ st[i] \in Terminal => i = n
             /\ st[i].kind = "element_scan" => st[i].seq = i - 2
  <2>1. st[i] \in Terminal => i = 2 * Elements + 2
    BY <1>3, <1>5, StreamEvents DEF Terminal
  <2>2. i = 2 * Elements + 2 => i = n  BY <1>1, <1>5 DEF Prefix
  <2> QED  BY <1>3, <1>5, <2>1, <2>2, StreamEvents
<1> QED  BY <1>2, <1>4, <1>5 DEF Locked

(* So is a prefix with a failure after it. *)
LEMMA PrefixInOrder ==
  ASSUME NEW st \in Seq(Event), NEW n \in Nat, Prefix(st, n)
  PROVE  InOrder(st) /\ InOrder(Append(st, Failure))
<1>1. Locked(st) /\ Failure \notin ToSet(st)  BY PrefixIsLocked
<1>2. st # <<>> => Last(st) \in ToSet(st)
  <2>1. st # <<>> => Len(st) \in DOMAIN st  BY EmptySeq, LenProperties
  <2> QED  BY <2>1 DEF Last, ToSet
<1>3. InOrder(st)  BY <1>1, <1>2 DEF InOrder
<1>4. Failure \in Event  BY DEF Event, ScanEvent
<1> DEFINE ft == Append(st, Failure)
<1>5. ft \in Seq(Event) /\ ft # <<>> /\ Len(ft) = Len(st) + 1 /\ ft[Len(st) + 1] = Failure
      /\ \A i \in 1 .. Len(st) : ft[i] = st[i]
  BY <1>4, AppendProperties
<1>6. Last(ft) = Failure  BY <1>5 DEF Last
<1>7. Front(ft) = st
  <2>1. Len(st) \in Nat  BY LenProperties
  <2>2. Front(ft) = SubSeq(ft, 1, Len(st))  BY <1>5, <2>1 DEF Front
  <2>3. \A i \in 1 .. Len(st) : ft[i] \in Event  BY <1>5, ElementOfSeq
  <2>4. /\ SubSeq(ft, 1, Len(st)) \in Seq(Event)
        /\ Len(SubSeq(ft, 1, Len(st))) = IF 1 <= Len(st) THEN Len(st) - 1 + 1 ELSE 0
        /\ \A i \in 1 .. Len(st) - 1 + 1 : SubSeq(ft, 1, Len(st))[i] = ft[1 + i - 1]
    BY <2>1, <2>3, SubSeqProperties
  <2>5. Len(SubSeq(ft, 1, Len(st))) = Len(st)  BY <2>1, <2>4
  <2>6. \A i \in 1 .. Len(st) : SubSeq(ft, 1, Len(st))[i] = st[i]  BY <1>5, <2>1, <2>4
  <2>7. SubSeq(ft, 1, Len(st)) = st  BY <2>4, <2>5, <2>6, SeqEqual
  <2> QED  BY <2>2, <2>7
<1>8. InOrder(ft)  BY <1>1, <1>5, <1>6, <1>7 DEF InOrder
<1> QED  BY <1>3, <1>8

(* A slice of a sequence. *)
LEMMA Slice ==
  ASSUME NEW S, NEW s \in Seq(S), NEW m \in 1 .. Len(s) + 1, NEW n \in m - 1 .. Len(s)
  PROVE  /\ SubSeq(s, m, n) \in Seq(S)
         /\ Len(SubSeq(s, m, n)) = n - m + 1
         /\ \A i \in 1 .. n - m + 1 : SubSeq(s, m, n)[i] = s[m + i - 1]
<1>1. Len(s) \in Nat  BY LenProperties
<1>2. m \in Int /\ n \in Int /\ \A i \in m .. n : s[i] \in S  BY <1>1, ElementOfSeq
<1>3. /\ SubSeq(s, m, n) \in Seq(S)
      /\ Len(SubSeq(s, m, n)) = IF m <= n THEN n - m + 1 ELSE 0
      /\ \A i \in 1 .. n - m + 1 : SubSeq(s, m, n)[i] = s[m + i - 1]
  BY <1>2, SubSeqProperties
<1>4. m > n => n - m + 1 = 0  BY <1>1
<1> QED  BY <1>2, <1>3, <1>4

(* Adding a listener that is not there and deleting one keep the list a    *)
(* sequence without duplicates.                                            *)
LEMMA Addition ==
  ASSUME OrderOK, NEW l \in Hearing, l \notin ToSet(order)
  PROVE  /\ Append(order, l) \in Seq(Hearing)
         /\ IsInjective(Append(order, l))
         /\ ToSet(Append(order, l)) = ToSet(order) \union {l}
<1> DEFINE o == Append(order, l)
<1>1. o \in Seq(Hearing) /\ Len(o) = Len(order) + 1 /\ o[Len(order) + 1] = l
      /\ \A i \in 1 .. Len(order) : o[i] = order[i]
  BY AppendProperties DEF OrderOK
<1>2. Len(order) \in Nat /\ DOMAIN order = 1 .. Len(order)  BY LenProperties DEF OrderOK
<1>3. DOMAIN o = 1 .. Len(order) + 1  BY <1>1, LenProperties
<1>4. ToSet(o) = ToSet(order) \union {l}  BY <1>1, <1>2, <1>3 DEF ToSet
<1>5. IsInjective(o)  BY <1>1, <1>2, <1>3 DEF OrderOK, IsInjective, ToSet
<1> QED  BY <1>1, <1>4, <1>5

LEMMA Deletion ==
  ASSUME OrderOK, NEW l
  PROVE  /\ Without(l) \in Seq(Hearing)
         /\ IsInjective(Without(l))
         /\ ToSet(Without(l)) = ToSet(order) \ {l}
<1>1. Len(order) \in Nat /\ DOMAIN order = 1 .. Len(order)  BY LenProperties DEF OrderOK
<1>2. CASE l \notin ToSet(order)
  BY <1>2 DEF Without, OrderOK
<1>3. CASE l \in ToSet(order)
  <2> DEFINE k == CHOOSE j \in DOMAIN order : order[j] = l
             a == SubSeq(order, 1, k - 1)
             b == SubSeq(order, k + 1, Len(order))
             n == Len(order)
  <2>1. \E j \in DOMAIN order : order[j] = l  BY <1>3 DEF ToSet
  <2>2. k \in 1 .. n /\ order[k] = l  BY <1>1, <2>1
  <2> HIDE DEF k
  <2>3. \A i \in 1 .. n : order[i] \in Hearing  BY ElementOfSeq DEF OrderOK
  <2>4. a \in Seq(Hearing) /\ Len(a) = k - 1 /\ \A i \in 1 .. k - 1 : a[i] = order[i]
    <3>1. \A i \in 1 .. k - 1 : order[i] \in Hearing  BY <1>1, <2>2, <2>3
    <3> QED  BY <1>1, <2>2, <3>1, SubSeqProperties
  <2>5. b \in Seq(Hearing) /\ Len(b) = n - k /\ \A i \in 1 .. n - k : b[i] = order[k + i]
    <3>1. k + 1 \in 1 .. n + 1 /\ n \in (k + 1) - 1 .. n /\ n - (k + 1) + 1 = n - k
          /\ order \in Seq(Hearing)
      BY <1>1, <2>2 DEF OrderOK
    <3>2. /\ SubSeq(order, k + 1, n) \in Seq(Hearing)
          /\ Len(SubSeq(order, k + 1, n)) = n - k
          /\ \A i \in 1 .. n - k : SubSeq(order, k + 1, n)[i] = order[k + 1 + i - 1]
      BY <3>1, Slice
    <3>3. b = SubSeq(order, k + 1, n)  OBVIOUS
    <3> HIDE DEF b
    <3>4. b \in Seq(Hearing) /\ Len(b) = n - k  BY <3>2, <3>3
    <3>5. ASSUME NEW i \in 1 .. n - k  PROVE b[i] = order[k + i]
      <4>1. k + 1 + i - 1 = k + i  BY <1>1, <2>2, <3>5
      <4>2. b[i] = order[k + 1 + i - 1]  BY <3>2, <3>3, <3>5
      <4> QED  BY <4>1, <4>2
    <3> QED  BY <3>4, <3>5
  <2> DEFINE w == a \o b
  <2>6. Without(l) = w  BY <1>3 DEF Without, RemoveAt, k
  <2> HIDE DEF a, b
  <2>7. /\ w \in Seq(Hearing) /\ Len(w) = n - 1
        /\ \A i \in 1 .. n - 1 : w[i] = IF i < k THEN order[i] ELSE order[i + 1]
    <3>1. /\ w \in Seq(Hearing) /\ Len(w) = Len(a) + Len(b)
          /\ \A i \in 1 .. Len(a) + Len(b) : w[i] = IF i <= Len(a) THEN a[i] ELSE b[i - Len(a)]
      BY <2>4, <2>5, ConcatProperties
    <3> HIDE DEF w
    <3>2. Len(w) = n - 1  BY <1>1, <2>2, <2>4, <2>5, <3>1
    <3>3. ASSUME NEW i \in 1 .. n - 1
          PROVE  w[i] = IF i < k THEN order[i] ELSE order[i + 1]
      <4>1. CASE i < k  BY <1>1, <2>2, <2>4, <2>5, <3>1, <3>3, <4>1
      <4>2. CASE i >= k
        <5>1. i - (k - 1) \in 1 .. n - k /\ k + (i - (k - 1)) = i + 1  BY <1>1, <2>2, <3>3, <4>2
        <5>2. w[i] = b[i - (k - 1)]
          <6>1. i \in 1 .. Len(a) + Len(b) /\ ~(i <= Len(a)) /\ Len(a) = k - 1
            BY ONLY <1>1, <2>2, <2>4, <2>5, <3>3, <4>2
          <6> QED  BY ONLY <3>1, <6>1
        <5> QED  BY <2>5, <4>2, <5>1, <5>2, <2>2, <3>3
      <4> QED  BY <2>2, <3>3, <4>1, <4>2
    <3> QED  BY <3>1, <3>2, <3>3
  <2> HIDE DEF w
  <2>8. DOMAIN w = 1 .. n - 1  BY <2>7, LenProperties
  <2>9. IsInjective(w)
    <3>1. \A i, j \in 1 .. n : order[i] = order[j] => i = j  BY <1>1 DEF IsInjective, OrderOK
    <3>2. ASSUME NEW i \in 1 .. n - 1, NEW j \in 1 .. n - 1, w[i] = w[j]  PROVE i = j
      <4>1. i \in 1 .. n /\ i + 1 \in 1 .. n /\ j \in 1 .. n /\ j + 1 \in 1 .. n  BY <1>1
      <4> QED  BY <2>2, <2>7, <3>1, <3>2, <4>1
    <3> QED  BY <2>8, <3>2 DEF IsInjective
  <2>10. \A i \in 1 .. n : order[i] = l => i = k  BY <1>1, <2>2 DEF IsInjective, OrderOK
  <2>11. ToSet(w) \subseteq ToSet(order) \ {l}
    <3>1. \A i \in 1 .. n - 1 : w[i] \in ToSet(order) /\ w[i] # l
      BY <1>1, <2>2, <2>7, <2>10 DEF ToSet
    <3> QED  BY <2>8, <3>1 DEF ToSet
  <2>12. ASSUME NEW i \in 1 .. n, order[i] # l  PROVE order[i] \in ToSet(w)
    <3>1. CASE i < k  BY <1>1, <2>2, <2>7, <2>8, <2>12, <3>1 DEF ToSet
    <3>2. CASE i > k
      <4>1. i - 1 \in 1 .. n - 1 /\ w[i - 1] = order[i]  BY <1>1, <2>2, <2>7, <3>2
      <4> QED  BY <2>8, <4>1 DEF ToSet
    <3> QED  BY <1>1, <2>2, <2>12, <3>1, <3>2
  <2>13. ToSet(w) = ToSet(order) \ {l}  BY <1>1, <2>11, <2>12 DEF ToSet
  <2> QED  BY <2>6, <2>7, <2>9, <2>13
<1> QED  BY <1>2, <1>3

-----------------------------------------------------------------------------
(* What one emission does to what was heard. *)

LEMMA Hears ==
  ASSUME heard \in [Hearing -> Seq(Event)], NEW e \in Event, NEW ls
  PROVE  /\ HeardBy(e, ls) \in [Hearing -> Seq(Event)]
         /\ \A l \in Hearing : HeardBy(e, ls)[l] = IF l \in ls THEN Append(heard[l], e) ELSE heard[l]
<1>1. ASSUME NEW l \in Hearing
      PROVE  (IF l \in ls THEN Append(heard[l], e) ELSE heard[l]) \in Seq(Event)
  <2>1. heard[l] \in Seq(Event)  OBVIOUS
  <2> QED  BY <2>1, AppendProperties
<1> QED  BY <1>1 DEF HeardBy

(* Whether it ends in a throw or not, an emission of e leaves every        *)
(* listener with what it had, or with that and e.                          *)
LEMMA Emission ==
  ASSUME heard \in [Hearing -> Seq(Event)], NEW e \in Event,
         EmitOk(e) \/ EmitThrows(e)
  PROVE  /\ heard' \in [Hearing -> Seq(Event)]
         /\ \A l \in Hearing : heard'[l] \in {heard[l], Append(heard[l], e)}
         /\ EmitOk(e) => \A l \in Hearing \intersect ToSet(order) : heard'[l] = Append(heard[l], e)
<1>1. PICK ls : heard' = HeardBy(e, ls)
  BY DEF EmitOk, EmitThrows
<1>2. /\ heard' \in [Hearing -> Seq(Event)]
      /\ \A l \in Hearing : heard'[l] \in {heard[l], Append(heard[l], e)}
  <2>1. /\ HeardBy(e, ls) \in [Hearing -> Seq(Event)]
        /\ \A l \in Hearing : HeardBy(e, ls)[l] = IF l \in ls THEN Append(heard[l], e) ELSE heard[l]
    BY Hears
  <2>2. \A l \in Hearing : HeardBy(e, ls)[l] \in {heard[l], Append(heard[l], e)}  BY <2>1
  <2> QED  BY <1>1, <2>1, <2>2
<1>3. ASSUME EmitOk(e), NEW l \in Hearing \intersect ToSet(order)
      PROVE  heard'[l] = Append(heard[l], e)
  <2>1. heard' = HeardBy(e, ToSet(order))  BY <1>3 DEF EmitOk
  <2> QED  BY <1>3, <2>1, Hears
<1> QED  BY <1>2, <1>3

(* A prefix and the next event of the stream make a longer prefix. *)
LEMMA LongerPrefix ==
  ASSUME NEW st \in Seq(Event), NEW n \in Nat, Prefix(st, n), n < 2 * Elements + 2,
         NEW e \in Event, e = EventAt(n + 1)
  PROVE  Prefix(Append(st, e), n + 1)
<1>1. Elements \in Nat  BY ConstantsAssumption
<1>2. Len(Append(st, e)) = n + 1 /\ Append(st, e)[n + 1] = e
      /\ \A i \in 1 .. n : Append(st, e)[i] = st[i]
  BY AppendProperties DEF Prefix
<1>3. \A i \in 1 .. n + 1 : i = n + 1 \/ i \in 1 .. n  OBVIOUS
<1> QED  BY <1>1, <1>2, <1>3 DEF Prefix

(* An emission in the try block: either all who matter hear the next event *)
(* of the stream, or the scan goes to its catch block and each has heard   *)
(* some prefix.                                                            *)
LEMMA TryEmission ==
  ASSUME Typed, NEW n \in Nat, n < 2 * Elements + 2,
         Attention \subseteq Hearing \intersect ToSet(order),
         \A l \in Attention : Prefix(heard[l], n),
         NEW e \in Event, e = EventAt(n + 1), NEW after, EmitThen(e, after)
  PROVE  /\ heard' \in [Hearing -> Seq(Event)]
         /\ \A l \in Attention : InOrder(heard'[l])
         /\ \/ pc' = after /\ \A l \in Attention : Prefix(heard'[l], n + 1)
            \/ pc' = "catch" /\ \A l \in Attention : \E m \in Nat : Prefix(heard'[l], m)
<1>1. heard \in [Hearing -> Seq(Event)]  BY DEF Typed
<1>2. EmitOk(e) \/ EmitThrows(e)  BY DEF EmitThen
<1>3. /\ heard' \in [Hearing -> Seq(Event)]
      /\ \A l \in Hearing : heard'[l] \in {heard[l], Append(heard[l], e)}
      /\ EmitOk(e) => \A l \in Hearing \intersect ToSet(order) : heard'[l] = Append(heard[l], e)
  BY <1>1, <1>2, Emission
<1>4. \A l \in Attention : Prefix(Append(heard[l], e), n + 1)
  <2> TAKE l \in Attention
  <2>1. heard[l] \in Seq(Event) /\ Prefix(heard[l], n)  BY <1>1
  <2> QED  BY <2>1, LongerPrefix
<1>5. \A l \in Attention : \E m \in Nat : Prefix(heard'[l], m)
  <2> TAKE l \in Attention
  <2>1. CASE heard'[l] = heard[l]  BY <2>1
  <2>2. CASE heard'[l] = Append(heard[l], e)
    <3>1. n + 1 \in Nat  OBVIOUS
    <3> QED  BY <1>4, <2>2, <3>1
  <2> QED  BY <1>3, <2>1, <2>2
<1>6. \A l \in Attention : InOrder(heard'[l])
  <2> TAKE l \in Attention
  <2>1. heard'[l] \in Seq(Event)  BY <1>3
  <2>2. PICK m \in Nat : Prefix(heard'[l], m)  BY <1>5
  <2> QED  BY <2>1, <2>2, PrefixInOrder
<1>7. EmitOk(e) => \A l \in Attention : Prefix(heard'[l], n + 1)
  BY <1>3, <1>4
<1> QED  BY <1>3, <1>5, <1>6, <1>7 DEF EmitThen

-----------------------------------------------------------------------------
(* The parts of the invariant, step by step. *)

LEMMA TypedStep ==
  ASSUME Typed, Progress, ListeningOK, [Next]_vars
  PROVE  Typed'
<1>0. Elements \in Nat /\ DomainOf \in [Analyzer -> Domain]  BY ConstantsAssumption
<1>1. ASSUME NEW e \in Event, EmitOk(e) \/ EmitThrows(e)
      PROVE  heard' \in [Hearing -> Seq(Event)]
  BY <1>1, Emission DEF Typed
<1>2. ASSUME NEW e \in Event, NEW after, EmitThen(e, after)
      PROVE  heard' \in [Hearing -> Seq(Event)]
  BY <1>1, <1>2 DEF EmitThen
<1>3. CASE Begin
  <2>1. Replay \in Hearing /\ Replay \notin ToSet(order)  BY <1>3 DEF Hearing, Begin, ListeningOK
  <2>2. OrderOK'  BY <1>3, <2>1, Addition DEF Begin, Typed, OrderOK
  <2> QED  BY <1>3, <2>2 DEF Begin, Typed, setup, analysis, disposal
<1>4. CASE EmitStarted
  <2>1. heard' \in [Hearing -> Seq(Event)]
    BY <1>2, <1>4 DEF EmitStarted, Event, ScanEvent
  <2> QED  BY <1>4, <2>1 DEF EmitStarted, Typed, OrderOK, setup, analysis, disposal
<1>5. CASE EmitScanning \/ EmitVerdict
  <2>1. seq \in 0 .. 2 * Elements  BY <1>0 DEF Typed, Progress
  <2>2. Element(seq) \in Event  BY <2>1 DEF Event, ScanEvent
  <2>3. heard' \in [Hearing -> Seq(Event)]
    BY <1>2, <1>5, <2>2 DEF EmitScanning, EmitVerdict
  <2>4. seq' \in Nat  BY <1>5, <2>1 DEF EmitScanning, EmitVerdict
  <2> QED  BY <1>5, <2>3, <2>4 DEF EmitScanning, EmitVerdict, Typed, OrderOK, setup, analysis, disposal
<1>6. CASE EmitComplete
  <2>1. heard' \in [Hearing -> Seq(Event)]
    BY <1>2, <1>6 DEF EmitComplete, Event, ScanEvent
  <2> QED  BY <1>6, <2>1 DEF EmitComplete, Typed, OrderOK, setup, analysis, disposal
<1>7. CASE StartAnalyzers \/ Report \/ Finish
  BY <1>7 DEF StartAnalyzers, Report, Finish, Typed, OrderOK, setup, events, analysis, disposal
<1>8. ASSUME NEW a \in Analyzer, NEW ok \in BOOLEAN, AnalyzerSettles(a, ok)
      PROVE  Typed'
  <2>1. DomainOf[a] \in Domain /\ [by |-> a, ok |-> ok] \in [by : Analyzer \union {Nobody}, ok : BOOLEAN]
    BY <1>0
  <2>2. findings' \in [Domain -> [by : Analyzer \union {Nobody}, ok : BOOLEAN]]
    BY <1>8, <2>1 DEF AnalyzerSettles, Typed
  <2> QED  BY <1>8, <2>2 DEF AnalyzerSettles, Typed, OrderOK, setup, events, disposal
<1>9. CASE Detach
  <2>1. OrderOK'  BY <1>9, Deletion DEF Detach, Typed, OrderOK
  <2> QED  BY <1>9, <2>1 DEF Detach, Typed, setup, analysis
<1>10. CASE CatchError
  <2>1. OrderOK'  BY <1>10, Deletion DEF CatchError, Typed, OrderOK
  <2>2. heard' \in [Hearing -> Seq(Event)]
    BY <1>1, <1>10 DEF CatchError, Event, ScanEvent
  <2> QED  BY <1>10, <2>1, <2>2 DEF CatchError, Typed, setup, analysis
<1>11. ASSUME NEW a \in Analyzer, Dispose(a)
       PROVE  Typed'
  BY <1>11 DEF Dispose, Typed, OrderOK, setup, events, analysis
<1>12. ASSUME NEW l \in Listener, Listen(l)
       PROVE  Typed'
  <2>1. l \in Hearing  BY DEF Hearing
  <2>2. OrderOK'  BY <1>12, <2>1, Addition DEF Listen, Typed, OrderOK
  <2> QED  BY <1>12, <2>2 DEF Listen, Typed, setup, analysis, disposal
<1>13. ASSUME NEW l \in Listener, Unlisten(l)
       PROVE  Typed'
  <2>1. OrderOK'  BY <1>13, Deletion DEF Unlisten, Typed, OrderOK
  <2> QED  BY <1>13, <2>1 DEF Unlisten, Typed, setup, analysis, disposal
<1>14. CASE UNCHANGED vars
  BY <1>14 DEF vars, Typed, OrderOK
<1> QED
  BY <1>3, <1>4, <1>5, <1>6, <1>7, <1>8, <1>9, <1>10, <1>11, <1>12, <1>13, <1>14 DEF Next, Proceed

LEMMA ProgressStep ==
  ASSUME Typed, Progress, [Next]_vars
  PROVE  Progress'
<1>0. Elements \in Nat /\ seq \in Nat /\ elementIter \in BOOLEAN  BY ConstantsAssumption DEF Typed
<1>1. CASE Begin
  BY <1>0, <1>1 DEF Begin, Progress, Trying, Disposing, setup
<1>2. CASE EmitStarted
  <2>1. pc' \in {"analyze", "scanning", "catch"} /\ (pc' = "analyze" => Elements = 0)
        /\ (pc' = "scanning" => Elements # 0)
        /\ UNCHANGED <<seq, elementIter>> /\ elementIter /\ seq = 0
    BY <1>2 DEF EmitStarted, EmitThen, setup, Progress
  <2>2. pc' = "scanning" => 0 \in Nat /\ seq' = 2 * 0 /\ seq' < 2 * Elements  BY <1>0, <2>1
  <2>3. pc' = "scanning" => \E k \in Nat : seq' = 2 * k /\ seq' < 2 * Elements  BY <2>2
  <2> QED  BY <1>0, <2>1, <2>3 DEF Progress, Trying, Disposing
<1>3. CASE EmitScanning
  <2>1. pc' \in {"verdict", "catch"} /\ seq' = seq + 1 /\ elementIter' = elementIter /\ elementIter
    BY <1>3 DEF EmitScanning, EmitThen, setup, Progress
  <2>2. PICK k \in Nat : seq = 2 * k /\ seq < 2 * Elements  BY <1>3 DEF EmitScanning, Progress
  <2>3. seq' = 2 * k + 1 /\ seq' < 2 * Elements  BY <1>0, <2>1, <2>2
  <2> QED  BY <1>0, <2>1, <2>3 DEF Progress, Trying, Disposing
<1>4. CASE EmitVerdict
  <2>1. /\ pc' \in {"scanning", "analyze", "catch"} /\ seq' = seq + 1
        /\ elementIter' = elementIter /\ elementIter
        /\ pc' = "scanning" => seq + 1 < 2 * Elements
        /\ pc' = "analyze" => ~(seq + 1 < 2 * Elements)
    BY <1>4 DEF EmitVerdict, EmitThen, setup, Progress
  <2>2. PICK k \in Nat : seq = 2 * k + 1 /\ seq < 2 * Elements  BY <1>4 DEF EmitVerdict, Progress
  <2>3. k + 1 \in Nat /\ seq' = 2 * (k + 1) /\ seq' <= 2 * Elements  BY <1>0, <2>1, <2>2
  <2>4. pc' = "scanning" => \E j \in Nat : seq' = 2 * j /\ seq' < 2 * Elements
    BY <2>1, <2>3
  <2>5. pc' = "analyze" => seq' = 2 * Elements  BY <1>0, <2>1, <2>3
  <2> QED  BY <1>0, <2>1, <2>3, <2>4, <2>5 DEF Progress, Trying, Disposing
<1>5. CASE EmitComplete
  BY <1>0, <1>5 DEF EmitComplete, EmitThen, setup, Progress, Trying, Disposing
<1>6. CASE StartAnalyzers \/ Report \/ Finish
  BY <1>0, <1>6 DEF StartAnalyzers, Report, Finish, setup, Progress, Trying, Disposing
<1>7. CASE Detach \/ CatchError
  BY <1>0, <1>7 DEF Detach, CatchError, setup, Progress, Trying, Disposing
<1>8. CASE UNCHANGED <<pc, seq, elementIter>>
  BY <1>8 DEF Progress
<1>9. ASSUME NEW a \in Analyzer, NEW ok \in BOOLEAN, AnalyzerSettles(a, ok) \/ Dispose(a)
      PROVE  Progress'
  BY <1>8, <1>9 DEF AnalyzerSettles, Dispose, setup
<1>10. ASSUME NEW l \in Listener, Listen(l) \/ Unlisten(l)
       PROVE  Progress'
  BY <1>8, <1>10 DEF Listen, Unlisten, setup
<1> QED
  BY <1>1, <1>2, <1>3, <1>4, <1>5, <1>6, <1>7, <1>8, <1>9, <1>10 DEF Next, Proceed, vars

LEMMA DisposalStep ==
  ASSUME Progress, DisposalOK, [Next]_vars
  PROVE  DisposalOK'
<1>1. CASE Begin \/ EmitStarted \/ EmitScanning \/ EmitVerdict \/ EmitComplete
  <2>1. UNCHANGED disposal /\ pc \notin Disposing /\ pc' \notin Disposing
    BY <1>1 DEF Begin, EmitStarted, EmitScanning, EmitVerdict, EmitComplete, EmitThen, Disposing
  <2> QED  BY <2>1 DEF DisposalOK, disposal, Disposing
<1>2. CASE StartAnalyzers \/ Report
  <2>1. UNCHANGED disposal /\ pc \notin Disposing /\ pc' \notin Disposing
    BY <1>2 DEF StartAnalyzers, Report, Disposing
  <2> QED  BY <2>1 DEF DisposalOK, disposal, Disposing
<1>3. CASE Detach \/ CatchError
  <2>1. disposed = FALSE
    <3>1. pc \in {"detach", "catch"}  BY <1>3 DEF Detach, CatchError
    <3>2. pc \notin Disposing  BY <3>1 DEF Disposing
    <3> QED  BY <3>2 DEF DisposalOK
  <2>2. disposals = [a \in Analyzer |-> 0]  BY <2>1 DEF DisposalOK
  <2>3. disposed' = TRUE /\ disposing' = Analyzer /\ disposals' = disposals
        /\ pc' \in {"dispose", "disposeFailed"}
    BY <1>3, <2>1 DEF Detach, CatchError, EnsureDisposed
  <2> QED  BY <2>2, <2>3 DEF DisposalOK, Disposing
<1>4. ASSUME NEW a \in Analyzer, Dispose(a)
      PROVE  DisposalOK'
  <2>1. /\ a \in disposing /\ disposing' = disposing \ {a}
        /\ disposals' = [disposals EXCEPT ![a] = @ + 1] /\ UNCHANGED <<pc, disposed>>
    BY <1>4 DEF Dispose
  <2>2. disposed = TRUE /\ disposals[a] = 0
    BY <2>1 DEF DisposalOK, Disposing
  <2>3. disposals' = [b \in Analyzer |-> IF disposed /\ b \notin disposing' THEN 1 ELSE 0]
    BY <2>1, <2>2 DEF DisposalOK
  <2> QED  BY <2>1, <2>3 DEF DisposalOK, Disposing
<1>5. CASE Finish
  <2>1. pc \in Disposing /\ pc' \in {"returned", "threw"} /\ disposing = {} /\ UNCHANGED disposal
    BY <1>5 DEF Finish, Disposing
  <2> QED  BY <2>1 DEF DisposalOK, disposal, Disposing
<1>6. CASE UNCHANGED <<pc, disposal>>
  BY <1>6 DEF DisposalOK, disposal
<1>7. ASSUME NEW a \in Analyzer, NEW ok \in BOOLEAN, AnalyzerSettles(a, ok)
      PROVE  DisposalOK'
  BY <1>6, <1>7 DEF AnalyzerSettles
<1>8. ASSUME NEW l \in Listener, Listen(l) \/ Unlisten(l)
      PROVE  DisposalOK'
  BY <1>6, <1>8 DEF Listen, Unlisten
<1> QED
  BY <1>1, <1>2, <1>3, <1>4, <1>5, <1>6, <1>7, <1>8 DEF Next, Proceed, vars, disposal

LEMMA ListeningStep ==
  ASSUME Typed, Progress, ListeningOK, [Next]_vars
  PROVE  ListeningOK'
<1>0. Replay \in Hearing /\ Replay \notin Listener /\ OrderOK /\ attentive \subseteq Listener
  BY ConstantsAssumption DEF Hearing, Typed
<1>1. CASE Begin
  <2>1. Replay \notin ToSet(order)  BY <1>1 DEF Begin, ListeningOK
  <2>2. emitter # "null" => ToSet(order') = ToSet(order) \union {Replay}
    BY <1>0, <1>1, <2>1, Addition DEF Begin
  <2>3. emitter = "null" => order' = order  BY <1>1 DEF Begin
  <2> QED  BY <1>1, <2>2, <2>3 DEF Begin, ListeningOK, Trying, Disposing, setup
<1>2. CASE EmitStarted \/ EmitScanning \/ EmitVerdict \/ EmitComplete
  <2>1. pc \in Trying /\ pc' \in Trying \union {"catch"} /\ UNCHANGED <<emitter, order, attentive>>
    BY <1>2 DEF EmitStarted, EmitScanning, EmitVerdict, EmitComplete, EmitThen, Trying, setup
  <2> QED  BY <2>1 DEF ListeningOK, Trying, Disposing
<1>3. CASE StartAnalyzers \/ Report
  <2>1. pc \in Trying /\ pc' \in Trying \union {"catch"} /\ UNCHANGED <<emitter, order, attentive>>
    BY <1>3 DEF StartAnalyzers, Report, Trying, setup, events
  <2> QED  BY <2>1 DEF ListeningOK, Trying, Disposing
<1>4. CASE Detach \/ CatchError
  <2>1. order' = Without(Replay) /\ pc' \in Disposing /\ UNCHANGED <<emitter, attentive>>
    BY <1>4 DEF Detach, CatchError, Disposing, setup
  <2>2. ToSet(order') = ToSet(order) \ {Replay}  BY <1>0, <2>1, Deletion
  <2>3. order = <<>> => order' = <<>>  BY <2>1 DEF Without, ToSet
  <2> QED  BY <1>0, <2>1, <2>2, <2>3 DEF ListeningOK, Trying, Disposing
<1>5. CASE Finish
  <2>1. pc \in Disposing /\ pc' \in Disposing /\ UNCHANGED <<emitter, order, attentive>>
    BY <1>5 DEF Finish, Disposing, setup, events
  <2> QED  BY <2>1 DEF ListeningOK, Trying, Disposing
<1>6. CASE UNCHANGED <<pc, emitter, order, attentive>>
  BY <1>6 DEF ListeningOK
<1>7. ASSUME NEW a \in Analyzer, NEW ok \in BOOLEAN, AnalyzerSettles(a, ok) \/ Dispose(a)
      PROVE  ListeningOK'
  BY <1>6, <1>7 DEF AnalyzerSettles, Dispose, setup, events
<1>8. ASSUME NEW l \in Listener, Listen(l)
      PROVE  ListeningOK'
  <2>1. l \in Hearing /\ l # Replay  BY <1>0 DEF Hearing
  <2>2. ToSet(order') = ToSet(order) \union {l}  BY <1>0, <1>8, <2>1, Addition DEF Listen
  <2>3. emitter = "given" /\ UNCHANGED <<pc, emitter>> /\ attentive' \subseteq attentive \union {l}
    BY <1>8 DEF Listen, setup
  <2> QED  BY <2>1, <2>2, <2>3 DEF ListeningOK
<1>9. ASSUME NEW l \in Listener, Unlisten(l)
      PROVE  ListeningOK'
  <2>1. order' = Without(l) /\ attentive' = attentive \ {l} /\ UNCHANGED <<pc, emitter>> /\ l # Replay
    BY <1>0, <1>9 DEF Unlisten, setup
  <2>2. ToSet(order') = ToSet(order) \ {l}  BY <1>0, <2>1, Deletion
  <2>3. order = <<>> => order' = <<>>  BY <2>1 DEF Without, ToSet
  <2> QED  BY <2>1, <2>2, <2>3 DEF ListeningOK
<1> QED
  BY <1>1, <1>2, <1>3, <1>4, <1>5, <1>6, <1>7, <1>8, <1>9 DEF Next, Proceed, vars

LEMMA SettledStep ==
  ASSUME Typed, Progress, SettledOK, [Next]_vars
  PROVE  SettledOK'
<1>0. DomainOf \in [Analyzer -> Domain]  BY ConstantsAssumption
<1>1. CASE Begin \/ EmitStarted \/ EmitScanning \/ EmitVerdict
  <2>1. UNCHANGED running /\ pc # "analyzing"
        /\ pc' \notin {"analyzing", "complete", "detach", "dispose", "returned"}
    BY <1>1 DEF Begin, EmitStarted, EmitScanning, EmitVerdict, EmitThen, analysis
  <2> QED  BY <2>1 DEF SettledOK
<1>2. CASE StartAnalyzers
  BY <1>2 DEF StartAnalyzers, SettledOK
<1>3. CASE Report \/ EmitComplete \/ Detach \/ Finish
  <2>1. /\ running = {} /\ UNCHANGED <<running, findings>>
        /\ pc \in {"analyzing", "complete", "detach", "dispose", "returned"}
           \/ pc' \notin {"analyzing", "complete", "detach", "dispose", "returned"}
    BY <1>3 DEF Report, EmitComplete, Detach, Finish, EmitThen, analysis, SettledOK
  <2> QED  BY <2>1 DEF SettledOK
<1>4. CASE CatchError
  <2>1. running = {} /\ UNCHANGED running /\ pc' = "disposeFailed"
    BY <1>4 DEF CatchError, analysis, SettledOK
  <2> QED  BY <2>1 DEF SettledOK
<1>5. ASSUME NEW b \in Analyzer, NEW ok \in BOOLEAN, AnalyzerSettles(b, ok)
      PROVE  SettledOK'
  <2>1. /\ b \in running /\ running' = running \ {b} /\ pc' = pc /\ pc = "analyzing"
        /\ findings' = [findings EXCEPT ![DomainOf[b]] = [by |-> b, ok |-> ok]]
    BY <1>5 DEF AnalyzerSettles, SettledOK
  <2>2. ASSUME NEW d \in Domain, NEW a \in Analyzer,
               {c \in Analyzer : DomainOf[c] = d} = {a}, a \notin running'
        PROVE  findings'[d].by = a
    <3>1. CASE a = b
      <4>1. DomainOf[b] = d  BY <2>2, <3>1
      <4> QED  BY <1>0, <2>1, <3>1, <4>1 DEF Typed
    <3>2. CASE a # b
      <4>1. DomainOf[b] # d  BY <1>5, <2>2, <3>2
      <4>2. findings'[d] = findings[d]  BY <1>0, <2>1, <4>1 DEF Typed
      <4>3. a \notin running  BY <2>1, <2>2, <3>2
      <4> QED  BY <2>1, <2>2, <4>2, <4>3 DEF SettledOK
    <3> QED  BY <3>1, <3>2
  <2> QED  BY <2>1, <2>2 DEF SettledOK
<1>6. CASE UNCHANGED <<pc, running, findings>>
  BY <1>6 DEF SettledOK
<1>7. ASSUME NEW a \in Analyzer, Dispose(a)
      PROVE  SettledOK'
  BY <1>6, <1>7 DEF Dispose, analysis
<1>8. ASSUME NEW l \in Listener, Listen(l) \/ Unlisten(l)
      PROVE  SettledOK'
  BY <1>6, <1>8 DEF Listen, Unlisten, analysis
<1> QED
  BY <1>1, <1>2, <1>3, <1>4, <1>5, <1>6, <1>7, <1>8 DEF Next, Proceed, vars

(* Nothing heard is an empty prefix. *)
LEMMA Silence ==
  Prefix(<<>>, 0) /\ InOrder(<<>>)
<1>1. Elements \in Nat  BY ConstantsAssumption
<1>2. <<>> \in Seq(Event) /\ Len(<<>>) = 0  BY EmptySeq
<1>3. Prefix(<<>>, 0)  BY <1>1, <1>2 DEF Prefix
<1> QED  BY <1>2, <1>3, PrefixInOrder

LEMMA HeardStep ==
  ASSUME Typed, Progress, ListeningOK, HeardOK, [Next]_vars
  PROVE  HeardOK'
<1>0. /\ Elements \in Nat /\ seq \in Nat /\ elementIter \in BOOLEAN
      /\ heard \in [Hearing -> Seq(Event)]
      /\ Attention \subseteq Hearing /\ Replay \in Hearing /\ Replay \in Attention
  BY ConstantsAssumption DEF Typed, Attention, Hearing
<1>1. pc \in Trying /\ elementIter => Attention \subseteq Hearing \intersect ToSet(order)
  BY <1>0 DEF Typed, ListeningOK, Attention
(* An emission in the try block that finds n events of the stream heard. *)
<1>2. ASSUME pc \in Trying, elementIter, Emitted < 2 * Elements + 2, Emitted \in Nat,
             NEW e \in Event, e = EventAt(Emitted + 1), NEW after, EmitThen(e, after),
             after \in Trying \ {"started"},
             UNCHANGED attentive, pc' = after => Emitted' = Emitted + 1
      PROVE  HeardOK'
  <2>1. \A l \in Attention : Prefix(heard[l], Emitted)  BY <1>2 DEF HeardOK
  <2>2. /\ \A l \in Attention : InOrder(heard'[l])
        /\ \/ pc' = after /\ \A l \in Attention : Prefix(heard'[l], Emitted + 1)
           \/ pc' = "catch" /\ \A l \in Attention : \E m \in Nat : Prefix(heard'[l], m)
    <3> DEFINE n == Emitted
    <3>1. n \in Nat /\ n < 2 * Elements + 2 /\ \A l \in Attention : Prefix(heard[l], n)
          /\ e = EventAt(n + 1)
      BY <1>2, <2>1
    <3> HIDE DEF n
    <3>2. /\ \A l \in Attention : InOrder(heard'[l])
          /\ \/ pc' = after /\ \A l \in Attention : Prefix(heard'[l], n + 1)
             \/ pc' = "catch" /\ \A l \in Attention : \E m \in Nat : Prefix(heard'[l], m)
      BY <1>1, <1>2, <3>1, TryEmission
    <3> QED  BY <3>2 DEF n
  <2>3. Attention' = Attention  BY <1>2 DEF Attention
  <2>4. CASE pc' = after
    BY <1>2, <2>2, <2>3, <2>4 DEF HeardOK, Trying
  <2>5. CASE pc' = "catch"
    <3>1. pc' \notin Trying  BY <2>5 DEF Trying
    <3>2. \A l \in Attention : \E m \in Nat : Prefix(heard'[l], m)
      BY <1>2, <2>2, <2>5 DEF Trying
    <3> QED  BY <2>2, <2>3, <2>5, <3>1, <3>2 DEF HeardOK
  <2> QED  BY <2>2, <2>4, <2>5
<1>3. CASE EmitStarted
  <2>1. /\ pc = "started" /\ elementIter /\ UNCHANGED <<elementIter, attentive, seq>> /\ seq = 0
        /\ EmitThen(Started, IF Elements = 0 THEN "analyze" ELSE "scanning")
    BY <1>3 DEF EmitStarted, setup, Progress
  <2>2. Emitted = 0 /\ Started = EventAt(Emitted + 1) /\ Started \in Event
    BY <2>1 DEF Emitted, EventAt, Event, ScanEvent
  <2>3. pc' \in {"analyze", "scanning"} => Emitted' = Emitted + 1
    BY <2>1, <2>2 DEF Emitted
  <2> DEFINE after == IF Elements = 0 THEN "analyze" ELSE "scanning"
  <2>4. after \in {"analyze", "scanning"} /\ after \in Trying \ {"started"} /\ pc \in Trying
    BY <2>1 DEF Trying
  <2>5. EmitThen(Started, after)  BY <2>1
  <2> HIDE DEF after
  <2> QED  BY <1>0, <1>2, <2>1, <2>2, <2>3, <2>4, <2>5
<1>4. CASE EmitScanning
  <2>1. /\ pc = "scanning" /\ elementIter /\ UNCHANGED <<elementIter, attentive>> /\ seq' = seq + 1
        /\ EmitThen(Element(seq), "verdict") /\ seq < 2 * Elements
    BY <1>4 DEF EmitScanning, setup, Progress
  <2>2. Emitted = seq + 1 /\ Element(seq) = EventAt(Emitted + 1)
    BY <1>0, <2>1 DEF Emitted, EventAt
  <2>3. Element(seq) \in Event
    <3>1. seq \in 0 .. 2 * Elements  BY <1>0, <2>1
    <3> QED  BY <3>1 DEF Event, ScanEvent
  <2>4. pc' = "verdict" => Emitted' = Emitted + 1  BY <2>1, <2>2 DEF Emitted
  <2>5. "verdict" \in Trying \ {"started"} /\ pc \in Trying  BY <2>1 DEF Trying
  <2>6. Emitted < 2 * Elements + 2 /\ Emitted \in Nat  BY <1>0, <2>1, <2>2
  <2> QED  BY <1>2, <2>1, <2>2, <2>3, <2>4, <2>5, <2>6
<1>5. CASE EmitVerdict
  <2> DEFINE after == IF seq + 1 < 2 * Elements THEN "scanning" ELSE "analyze"
  <2>1. /\ pc = "verdict" /\ elementIter /\ UNCHANGED <<elementIter, attentive>> /\ seq' = seq + 1
        /\ EmitThen(Element(seq), after) /\ seq < 2 * Elements
    BY <1>5 DEF EmitVerdict, setup, Progress
  <2>2. Emitted = seq + 1 /\ Element(seq) = EventAt(Emitted + 1)
    BY <1>0, <2>1 DEF Emitted, EventAt
  <2>3. Element(seq) \in Event
    <3>1. seq \in 0 .. 2 * Elements  BY <1>0, <2>1
    <3> QED  BY <3>1 DEF Event, ScanEvent
  <2>4. after \in {"scanning", "analyze"} /\ after \in Trying \ {"started"} /\ pc \in Trying
    BY <2>1 DEF Trying
  <2> HIDE DEF after
  <2>5. pc' = after => Emitted' = Emitted + 1  BY <2>1, <2>2, <2>4 DEF Emitted
  <2>6. Emitted < 2 * Elements + 2 /\ Emitted \in Nat  BY <1>0, <2>1, <2>2
  <2> QED  BY <1>2, <2>1, <2>2, <2>3, <2>4, <2>5, <2>6
<1>6. CASE EmitComplete
  <2>1. /\ pc = "complete" /\ elementIter /\ UNCHANGED <<elementIter, attentive, seq>>
        /\ EmitThen(Complete, "detach") /\ seq = 2 * Elements
    BY <1>6 DEF EmitComplete, setup, Progress
  <2>2. Emitted = seq + 1 /\ Complete = EventAt(Emitted + 1) /\ Complete \in Event
    BY <1>0, <2>1 DEF Emitted, EventAt, Event, ScanEvent
  <2>3. pc' = "detach" => Emitted' = Emitted + 1  BY <1>0, <2>1, <2>2 DEF Emitted
  <2>4. "detach" \in Trying \ {"started"} /\ pc \in Trying  BY <2>1 DEF Trying
  <2>5. Emitted < 2 * Elements + 2 /\ Emitted \in Nat  BY <1>0, <2>1, <2>2
  <2> QED  BY <1>2, <2>1, <2>2, <2>3, <2>4, <2>5
<1>7. CASE Begin
  <2>1. /\ UNCHANGED <<heard, attentive, elementIter, seq>> /\ pc = "init"
        /\ pc' = IF elementIter THEN "started" ELSE "analyze"
    BY <1>7 DEF Begin, setup
  <2>2. \A l \in Hearing : heard[l] = <<>>  BY <2>1 DEF HeardOK
  <2>3. Emitted' = 0  BY <2>1 DEF Emitted
  <2>4. pc' \in {"started", "analyze"} /\ Attention' = Attention  BY <2>1 DEF Attention
  <2> QED  BY <1>0, <2>1, <2>2, <2>3, <2>4, Silence DEF HeardOK
<1>8. CASE CatchError
  <2>1. /\ pc = "catch" /\ pc' = "disposeFailed" /\ UNCHANGED attentive
        /\ EmitOk(Failure) \/ EmitThrows(Failure)
    BY <1>8 DEF CatchError
  <2>2. \A l \in Hearing : heard'[l] \in {heard[l], Append(heard[l], Failure)}
    BY <1>0, <2>1, Emission DEF Event, ScanEvent
  <2>3. \A l \in Attention : InOrder(heard'[l])
    <3> TAKE l \in Attention
    <3>1. heard[l] \in Seq(Event)  BY <1>0
    <3>2. PICK n \in Nat : Prefix(heard[l], n)  BY <2>1 DEF HeardOK
    <3>3. InOrder(heard[l]) /\ InOrder(Append(heard[l], Failure))  BY <3>1, <3>2, PrefixInOrder
    <3> QED  BY <1>0, <2>2, <3>3
  <2>4. Attention' = Attention  BY <2>1 DEF Attention
  <2> QED  BY <2>1, <2>3, <2>4 DEF HeardOK, Trying
<1>9. CASE StartAnalyzers
  <2>1. pc = "analyze" /\ pc' = "analyzing" /\ UNCHANGED <<elementIter, seq, heard, attentive>>
    BY <1>9 DEF StartAnalyzers, setup, events
  <2>2. Emitted' = Emitted /\ Attention' = Attention  BY <2>1 DEF Emitted, Attention
  <2> QED  BY <2>1, <2>2 DEF HeardOK, Trying
<1>10. CASE Report
  <2>1. /\ pc = "analyzing" /\ UNCHANGED <<elementIter, seq, heard, attentive>>
        /\ pc' \in {IF elementIter THEN "complete" ELSE "detach", "catch"}
    BY <1>10 DEF Report, setup, events
  <2>2. Attention' = Attention /\ \A l \in Attention : Prefix(heard[l], Emitted)
    BY <2>1 DEF Attention, HeardOK, Trying
  <2>3. CASE pc' = "catch"
    <3>1. Emitted \in Nat  BY <1>0, <2>1 DEF Emitted
    <3> QED  BY <2>1, <2>2, <2>3, <3>1 DEF HeardOK, Trying
  <2>4. CASE pc' # "catch"
    <3>1. Emitted' = Emitted  BY <2>1, <2>4 DEF Emitted
    <3>2. pc' \in {"complete", "detach"}  BY <2>1, <2>4
    <3> QED  BY <2>1, <2>2, <3>1, <3>2 DEF HeardOK
  <2> QED  BY <2>3, <2>4
<1>11. CASE Detach
  <2>1. pc = "detach" /\ pc' = "dispose" /\ UNCHANGED <<elementIter, seq, heard, attentive>>
    BY <1>11 DEF Detach, setup
  <2>2. Emitted' = Emitted /\ Attention' = Attention  BY <2>1 DEF Emitted, Attention
  <2> QED  BY <1>0, <2>1, <2>2 DEF HeardOK, Trying
<1>12. CASE Finish
  <2>1. /\ \/ pc = "dispose" /\ pc' = "returned"
           \/ pc = "disposeFailed" /\ pc' = "threw"
        /\ UNCHANGED <<elementIter, seq, heard, attentive>>
    BY <1>12 DEF Finish, setup, events
  <2>2. pc = "dispose" => Emitted' = Emitted  BY <2>1 DEF Emitted
  <2>3. Attention' = Attention  BY <2>1 DEF Attention
  <2> QED  BY <2>1, <2>2, <2>3 DEF HeardOK, Trying
<1>13. CASE UNCHANGED <<pc, elementIter, seq, heard, attentive>>
  <2>1. Emitted' = Emitted /\ Attention' = Attention  BY <1>13 DEF Emitted, Attention
  <2> QED  BY <1>13, <2>1 DEF HeardOK
<1>14. ASSUME NEW a \in Analyzer, NEW ok \in BOOLEAN, AnalyzerSettles(a, ok) \/ Dispose(a)
       PROVE  HeardOK'
  BY <1>13, <1>14 DEF AnalyzerSettles, Dispose, setup, events
<1>15. ASSUME NEW l \in Listener, Listen(l) \/ Unlisten(l)
       PROVE  HeardOK'
  <2>1. UNCHANGED <<pc, elementIter, seq, heard>>  BY <1>15 DEF Listen, Unlisten, setup
  <2>2. Emitted' = Emitted  BY <2>1 DEF Emitted
  <2>3. \/ attentive' \subseteq attentive
        \/ pc = "init" /\ attentive' \subseteq attentive \union {l}
    BY <1>15 DEF Listen, Unlisten
  <2>4. \/ Attention' \subseteq Attention
        \/ pc = "init" /\ Attention' \subseteq Hearing
    BY <1>0, <2>3 DEF Attention, Hearing
  <2>5. CASE pc = "init"
    <3>1. Attention' \subseteq Hearing  BY <1>0, <2>4
    <3>2. \A k \in Hearing : heard'[k] = <<>>  BY <2>1, <2>5 DEF HeardOK
    <3>3. \A k \in Attention' : InOrder(heard'[k])  BY <3>1, <3>2, Silence
    <3> QED  BY <2>1, <2>5, <3>2, <3>3 DEF HeardOK, Trying
  <2>6. CASE Attention' \subseteq Attention
    BY <2>1, <2>2, <2>6 DEF HeardOK
  <2> QED  BY <2>4, <2>5, <2>6
<1> QED
  BY <1>3, <1>4, <1>5, <1>6, <1>7, <1>8, <1>9, <1>10, <1>11, <1>12, <1>13, <1>14, <1>15
     DEF Next, Proceed, vars

-----------------------------------------------------------------------------
(* The theorems. *)

LEMMA Initially == Init => IInv
<1> SUFFICES ASSUME Init PROVE IInv  OBVIOUS
<1>0. Elements \in Nat  BY ConstantsAssumption
<1>1. order = <<>> /\ ToSet(order) = {} /\ OrderOK
  <2>1. order = <<>> /\ order \in Seq(Hearing) /\ DOMAIN order = {}  BY EmptySeq DEF Init
  <2> QED  BY <2>1 DEF OrderOK, IsInjective, ToSet
<1>2. <<>> \in Seq(Event)  BY EmptySeq
<1>3. Typed
  <2>1. heard \in [Hearing -> Seq(Event)]  BY <1>2 DEF Init
  <2>2. NoFindings \in [by : Analyzer \union {Nobody}, ok : BOOLEAN]  BY DEF NoFindings
  <2> QED  BY <1>1, <2>1, <2>2 DEF Init, Typed
<1>4. Progress  BY <1>0 DEF Init, Progress, Trying, Disposing
<1>5. DisposalOK  BY DEF Init, DisposalOK, Disposing
<1>6. ListeningOK  BY <1>1 DEF Init, ListeningOK, Trying, Disposing
<1>7. SettledOK  BY DEF Init, SettledOK
<1>8. HeardOK
  <2>1. \A l \in Hearing : heard[l] = <<>>  BY DEF Init
  <2>2. Attention \subseteq Hearing  BY DEF Init, Attention, Hearing
  <2>3. \A l \in Attention : InOrder(heard[l])  BY <2>1, <2>2, Silence
  <2> QED  BY <2>1, <2>3 DEF Init, HeardOK, Trying
<1> QED  BY <1>3, <1>4, <1>5, <1>6, <1>7, <1>8 DEF IInv

(* The invariant is inductive, whatever the listeners and the analyzers do. *)
THEOREM Invariance == Spec => []IInv
<1>1. Init => IInv  BY Initially
<1>2. IInv /\ [Next]_vars => IInv'
  BY TypedStep, ProgressStep, DisposalStep, ListeningStep, SettledStep, HeardStep DEF IInv
<1> QED  BY <1>1, <1>2, PTL DEF Spec

(* Every variable has its type. *)
THEOREM TypeCorrect == Spec => []TypeOK
<1>1. ASSUME IInv PROVE TypeOK
  <2>1. Elements \in Nat  BY ConstantsAssumption
  <2>2. ToSet(order) \subseteq Hearing /\ IsInjective(order)
    <3>1. order \in Seq(Hearing) /\ IsInjective(order)  BY <1>1 DEF IInv, Typed, OrderOK
    <3> QED  BY <3>1, LenProperties, ElementOfSeq DEF ToSet
  <2>3. ASSUME NEW l \in Hearing PROVE ToSet(heard[l]) \subseteq Event
    <3>1. heard[l] \in Seq(Event)  BY <1>1 DEF IInv, Typed
    <3> QED  BY <3>1, LenProperties, ElementOfSeq DEF ToSet
  <2>4. pc \in {"init", "started", "scanning", "verdict", "analyze", "analyzing", "complete",
                 "detach", "catch", "dispose", "disposeFailed", "returned", "threw"}
    BY <1>1 DEF IInv, Progress, Trying, Disposing
  <2>5. seq \in 0 .. 2 * Elements  BY <1>1, <2>1 DEF IInv, Typed, Progress
  <2>6. disposed \in BOOLEAN /\ disposing \subseteq Analyzer /\ disposals \in [Analyzer -> 0 .. 1]
    BY <1>1 DEF IInv, DisposalOK
  <2> QED  BY <1>1, <2>2, <2>3, <2>4, <2>5, <2>6 DEF IInv, Typed, TypeOK, Event
<1> QED  BY <1>1, Invariance, PTL

(* HeardInOrder: who listens from the start, and the replay, hear the      *)
(* events in the locked order without gaps, up to one scan_error.          *)
THEOREM ListenersHearInOrder == Spec => []HeardInOrder
<1>1. IInv => HeardInOrder
  BY DEF IInv, HeardOK, HeardInOrder, InOrder, Attention
<1> QED  BY <1>1, Invariance, PTL

(* ReturnedReplayIsWhole: a scan that returns a result returns the whole   *)
(* stream with it, for every number of elements.                           *)
THEOREM ReplayIsWhole == Spec => []ReturnedReplayIsWhole
<1>1. ASSUME IInv, pc = "returned", elementIter
      PROVE  heard[Replay] = <<Started>> \o [i \in 1 .. 2 * Elements |-> Element(i - 1)] \o <<Complete>>
  <2>0. Elements \in Nat  BY ConstantsAssumption
  <2>1. heard[Replay] \in Seq(Event)  BY <1>1 DEF IInv, Typed, Hearing
  <2>2. Prefix(heard[Replay], 2 * Elements + 2)
    BY <1>1 DEF IInv, HeardOK, Emitted
  <2> DEFINE n == 2 * Elements
             mid == [i \in 1 .. n |-> Element(i - 1)]
             one == <<Started>> \o mid
             all == one \o <<Complete>>
  <2>3. mid \in Seq(Event) /\ Len(mid) = n /\ \A i \in 1 .. n : mid[i] = Element(i - 1)
    <3>1. \A i \in 1 .. n : i - 1 \in 0 .. 2 * Elements /\ Element(i - 1) \in Event
      BY <2>0 DEF Event, ScanEvent
    <3>2. n \in Nat  BY <2>0
    <3> QED  BY <3>1, <3>2
  <2>4. <<Started>> \in Seq(Event) /\ <<Complete>> \in Seq(Event)
        /\ Len(<<Started>>) = 1 /\ Len(<<Complete>>) = 1
    BY DEF Event, ScanEvent
  <2> HIDE DEF mid
  <2>5. one \in Seq(Event) /\ Len(one) = 1 + n
        /\ \A i \in 1 .. 1 + n : one[i] = IF i <= 1 THEN <<Started>>[i] ELSE mid[i - 1]
    BY <2>3, <2>4, ConcatProperties
  <2>6. \A i \in 1 .. 1 + n : one[i] = EventAt(i)
    <3> TAKE i \in 1 .. 1 + n
    <3>1. CASE i = 1  BY <2>5, <3>1 DEF EventAt
    <3>2. CASE i # 1
      <4>1. i - 1 \in 1 .. n /\ i <= 2 * Elements + 1 /\ i - 1 - 1 = i - 2  BY <2>0, <3>2
      <4> QED  BY <2>3, <2>5, <3>2, <4>1 DEF EventAt
    <3> QED  BY <3>1, <3>2
  <2> HIDE DEF one
  <2>7. all \in Seq(Event) /\ Len(all) = n + 2
        /\ \A i \in 1 .. n + 2 : all[i] = IF i <= 1 + n THEN one[i] ELSE <<Complete>>[i - (1 + n)]
    <3>1. all \in Seq(Event) /\ Len(all) = 1 + n + 1
          /\ \A i \in 1 .. 1 + n + 1 : all[i] = IF i <= 1 + n THEN one[i] ELSE <<Complete>>[i - (1 + n)]
      BY <2>4, <2>5, ConcatProperties
    <3>2. 1 + n + 1 = n + 2  BY <2>0
    <3> QED  BY <3>1, <3>2
  <2> HIDE DEF all
  <2>8. \A i \in 1 .. n + 2 : all[i] = EventAt(i)
    <3> TAKE i \in 1 .. n + 2
    <3>1. CASE i <= 1 + n
      <4>1. i \in 1 .. 1 + n  BY <2>0, <3>1
      <4> QED  BY <2>6, <2>7, <3>1, <4>1
    <3>2. CASE ~(i <= 1 + n)
      <4>1. i - (1 + n) = 1 /\ i # 1 /\ ~(i <= 2 * Elements + 1)  BY <2>0, <3>2
      <4> QED  BY <2>7, <3>2, <4>1 DEF EventAt
    <3> QED  BY <3>1, <3>2
  <2>9. heard[Replay] = all
    <3>1. Len(heard[Replay]) = n + 2 /\ \A i \in 1 .. n + 2 : heard[Replay][i] = EventAt(i)
      BY <2>2 DEF Prefix
    <3> QED  BY <2>1, <2>7, <2>8, <3>1, SeqEqual
  <2> QED  BY <2>9 DEF all, one, mid
<1>2. IInv => ReturnedReplayIsWhole  BY <1>1 DEF ReturnedReplayIsWhole
<1> QED  BY <1>2, Invariance, PTL

(* DisposedExactlyOnce: when the scan has ended, every analyzer has been   *)
(* disposed of exactly once, whether it returned or threw.                 *)
THEOREM EachDisposedOnce == Spec => []DisposedExactlyOnce
<1>1. ASSUME IInv, Ended
      PROVE  (\A a \in Analyzer : disposals[a] = 1) /\ Replay \notin ToSet(order)
  <2>1. pc \in Disposing /\ pc \in {"returned", "threw"}  BY <1>1 DEF Ended, Disposing
  <2>2. disposed /\ disposing = {}  BY <1>1, <2>1 DEF IInv, DisposalOK
  <2>3. \A a \in Analyzer : disposals[a] = 1  BY <1>1, <2>2 DEF IInv, DisposalOK
  <2>4. Replay \notin ToSet(order)  BY <1>1, <2>1 DEF IInv, ListeningOK
  <2> QED  BY <2>3, <2>4
<1>2. IInv => DisposedExactlyOnce  BY <1>1 DEF DisposedExactlyOnce
<1> QED  BY <1>2, Invariance, PTL

(* FailureIsIsolated: an analyzer alone in its domain has its findings in  *)
(* the report, whatever the others do.                                     *)
THEOREM FailuresAreIsolated == Spec => []FailureIsIsolated
<1>1. IInv => FailureIsIsolated
  BY DEF IInv, SettledOK, FailureIsIsolated
<1> QED  BY <1>1, Invariance, PTL
================================================================================

---------------------------- MODULE HaesLedgerProofs ---------------------------
(***************************************************************************)
(* Proofs about HaesLedger, for every set of calls, keys and inputs and    *)
(* every bound on the clock.  One inductive invariant carries them all:    *)
(* entries are sealed (hashed and signed) from the moment they are built,  *)
(* stored ones are linked, in time order and of distinct identifiers, and  *)
(* each stored entry was returned by the call that appended it.  At the    *)
(* end, proofs about MerkleAnchor, for every set of entries and every list *)
(* of leaves.                                                              *)
(***************************************************************************)
EXTENDS HaesLedger, MerkleAnchor, SequenceTheorems, WellFoundedInduction, TLAPS

(* An entry is sealed: its hash is the hash of its contents and its        *)
(* signature verifies under a key a verifier knows.                        *)
Sealed(e) ==
  /\ e.entry_hash = computeEntryHash(e)
  /\ e.signature = [key |-> e.payload.signing_key_id, hash |-> e.entry_hash]
  /\ e.payload.signing_key_id \in Known

HashAt(n) == IF n = 0 THEN GENESIS_PREV_HASH ELSE entries[n].entry_hash

Linked ==
  \A i \in 1 .. Len(entries) : Sealed(entries[i]) /\ entries[i].prev_hash = HashAt(i - 1)

BuiltSealed ==
  \A c \in Call : pc[c] \in {"built", "done"} => Sealed(built[c])

InTimeOrder ==
  \A i, j \in 1 .. Len(entries) : i < j => entries[i].timestamp <= entries[j].timestamp

TailWasRead ==
  \A c \in Call :
    /\ seen[c] <= Len(entries)
    /\ pc[c] # "idle" => prev[c] = HashAt(seen[c])
    /\ pc[c] = "built" => built[c].prev_hash = prev[c]

StoredByACall ==
  \A i \in 1 .. Len(entries) :
    \E c \in Call : pc[c] = "done" /\ entries[i] = built[c]

AckedInLog ==
  \A c \in Call : pc[c] = "done" =>
    \E i \in 1 .. Len(entries) : entries[i] = built[c]

(* The inductive invariant.                                                *)
IInv ==
  /\ TypeOK
  /\ Linked
  /\ BuiltSealed
  /\ OneEntryPerId
  /\ InTimeOrder
  /\ TailWasRead
  /\ StoredByACall
  /\ AckedInLog

--------------------------------------------------------------------------------
(***************************************************************************)
(* Lemmas on the operators                                                 *)
(***************************************************************************)

(* A sequence is the function of its elements.                             *)
LEMMA SequenceIsFunction ==
  ASSUME NEW S, NEW s \in Seq(S), NEW n \in Nat, Len(s) = n
  PROVE  s = [i \in 1 .. n |-> s[i]]
<1>1. DOMAIN s = 1 .. n /\ s = [i \in DOMAIN s |-> s[i]]
  OBVIOUS
<1> QED  BY <1>1, Zenon

(* What buildEntry returns is an entry, sealed under the client's key.     *)
LEMMA AttestedIsSealed ==
  ASSUME NEW id \in EntryId, NEW ts \in Time, NEW payload \in Payload,
         NEW p \in Hash, NEW key \in Known, payload.signing_key_id = key
  PROVE  /\ Attested(id, ts, payload, p, key) \in Entry
         /\ Sealed(Attested(id, ts, payload, p, key))
         /\ Attested(id, ts, payload, p, key).prev_hash = p
         /\ Attested(id, ts, payload, p, key).entry_id = id
         /\ Attested(id, ts, payload, p, key).timestamp = ts
<1> DEFINE con == [entry_id |-> id, timestamp |-> ts, payload |-> payload]
           e == Attested(id, ts, payload, p, key)
<1>1. con \in Content
  BY DEF Content
<1>2. Append(p, con) \in Hash
  BY <1>1 DEF Hash
<1>3. e = [entry_id |-> id, timestamp |-> ts, payload |-> payload,
           prev_hash |-> p, entry_hash |-> Append(p, con),
           signature |-> [key |-> key, hash |-> Append(p, con)]]
  BY DEF Attested, computeEntryHash, ContentOf, signEntryHash
<1>4. key \in Key
  BY ConstantsAssumption
<1>5. e \in Entry
  BY <1>2, <1>3, <1>4 DEF Entry
<1>6. Sealed(e)
  <2> HIDE DEF e
  <2>1. /\ e.entry_id = id /\ e.timestamp = ts /\ e.payload = payload
        /\ e.prev_hash = p /\ e.entry_hash = Append(p, con)
        /\ e.signature = [key |-> key, hash |-> Append(p, con)]
    BY <1>3
  <2>2. computeEntryHash(e) = Append(p, con)
    BY <2>1, Zenon DEF computeEntryHash, ContentOf
  <2> QED  BY <2>1, <2>2, Zenon DEF Sealed
<1> QED  BY <1>3, <1>5, <1>6

(* Appending to a sequence leaves what was there and adds one at the end.  *)
LEMMA Appended ==
  ASSUME NEW S, NEW s \in Seq(S), NEW x \in S
  PROVE  /\ Append(s, x) \in Seq(S)
         /\ Len(Append(s, x)) = Len(s) + 1
         /\ DOMAIN Append(s, x) = 1 .. Len(s) + 1
         /\ DOMAIN s = 1 .. Len(s)
         /\ Len(s) \in Nat
         /\ \A i \in 1 .. Len(s) : Append(s, x)[i] = s[i]
         /\ Append(s, x)[Len(s) + 1] = x
  OBVIOUS

(* What a client reads as the tail is the hash of the last stored entry.    *)
LEMMA LastHashIsHashAt ==
  ASSUME TypeOK
  PROVE  /\ LastHash(entries) = HashAt(Len(entries))
         /\ LastHash(entries) \in Hash
<1>1. entries \in Seq(Entry)
  BY DEF TypeOK
<1>2. CASE entries = <<>>
  BY <1>2 DEF LastHash, HashAt, GENESIS_PREV_HASH, Hash
<1>3. CASE entries # <<>>
  <2>1. Len(entries) \in Nat /\ Len(entries) # 0 /\ entries[Len(entries)] \in Entry
    BY <1>1, <1>3
  <2> QED  BY <1>3, <2>1 DEF LastHash, HashAt, Entry
<1> QED  BY <1>2, <1>3

--------------------------------------------------------------------------------
(***************************************************************************)
(* The inductive invariant                                                 *)
(***************************************************************************)

(* The inductive invariant holds initially.                                 *)
LEMMA InitIInv == Init => IInv
<1> SUFFICES ASSUME Init PROVE IInv
  OBVIOUS
<1>1. /\ entries = <<>> /\ Len(entries) = 0 /\ DOMAIN entries = {}
      /\ \A c \in Call : pc[c] = "idle" /\ seen[c] = 0
  BY DEF Init
<1>2. TypeOK
  <2>1. clock \in Time
    BY ConstantsAssumption DEF Init, Time
  <2>2. prev \in [Call -> Hash]
    BY DEF Init, GENESIS_PREV_HASH, Hash
  <2> QED  BY <2>1, <2>2, <1>1 DEF Init, TypeOK
<1>3. Linked /\ StoredByACall /\ AckedInLog /\ BuiltSealed /\ TailWasRead
  BY <1>1 DEF Linked, StoredByACall, AckedInLog, BuiltSealed, TailWasRead
<1>4. OneEntryPerId /\ InTimeOrder
  BY <1>1 DEF OneEntryPerId, InTimeOrder
<1> QED  BY <1>2, <1>3, <1>4 DEF IInv

(* The steps that leave the chain alone: what remains is said of the calls.*)
LEMMA ChainUntouched ==
  ASSUME IInv, entries' = entries
  PROVE  Linked' /\ OneEntryPerId' /\ InTimeOrder'
BY DEF IInv, Linked, HashAt, OneEntryPerId, InTimeOrder, Sealed, computeEntryHash, ContentOf

(* Reading the tail preserves the invariant: `prev' is what was read.       *)
LEMMA ReadTailStep ==
  ASSUME IInv, NEW c \in Call, NEW in \in Inputs, ReadTail(c, in)
  PROVE  IInv'
<1> USE DEF ReadTail
<1>1. TypeOK'
  BY LastHashIsHashAt, InputsAssumption DEF IInv, TypeOK
<1>2. BuiltSealed'
  BY DEF IInv, TypeOK, BuiltSealed, Sealed, computeEntryHash, ContentOf
<1>3. TailWasRead'
  <2>1. Len(entries) \in Nat
    BY DEF IInv, TypeOK
  <2> QED  BY <2>1, LastHashIsHashAt DEF IInv, TypeOK, TailWasRead, HashAt
<1>4. StoredByACall' /\ AckedInLog'
  BY DEF IInv, TypeOK, StoredByACall, AckedInLog
<1> QED  BY <1>1, <1>2, <1>3, <1>4, ChainUntouched DEF IInv

(* A refused key preserves the invariant.                                   *)
LEMMA RefuseKeyStep ==
  ASSUME IInv, NEW c \in Call, RefuseKey(c)
  PROVE  IInv'
<1> USE DEF RefuseKey
<1>1. TypeOK'
  BY DEF IInv, TypeOK
<1>2. BuiltSealed'
  BY DEF IInv, TypeOK, BuiltSealed, Sealed, computeEntryHash, ContentOf
<1>3. TailWasRead'
  BY DEF IInv, TypeOK, TailWasRead, HashAt
<1>4. StoredByACall' /\ AckedInLog'
  BY DEF IInv, TypeOK, StoredByACall, AckedInLog
<1> QED  BY <1>1, <1>2, <1>3, <1>4, ChainUntouched DEF IInv

(* What a call builds from its input, as BuildEntry names it.              *)
TimeFor(c) == IF input[c].timestamp = None THEN clock ELSE input[c].timestamp
IdFor(c, r) ==
  IF input[c].entry_id = None THEN ulid(TimeFor(c), r) ELSE input[c].entry_id

(* Building an entry preserves the invariant: what is built is sealed.      *)
LEMMA BuildEntryStep ==
  ASSUME IInv, NEW c \in Call, NEW r \in Random, BuildEntry(c, r)
  PROVE  IInv'
<1> DEFINE e == Attested(IdFor(c, r), TimeFor(c), input[c].payload, prev[c], KeyOf[c])
<1>1. /\ pc[c] = "read" /\ pc' = [pc EXCEPT ![c] = "built"]
      /\ input[c].payload.signing_key_id = KeyOf[c]
      /\ built' = [built EXCEPT ![c] = e]
      /\ UNCHANGED <<clock, entries, input, prev, seen>>
  BY Zenon DEF BuildEntry, IdFor, TimeFor
<1>2. input[c] \in AppendInput
  BY <1>1 DEF IInv, TypeOK
<1>3. /\ TimeFor(c) \in Time /\ input[c].payload \in Payload
      /\ IdFor(c, r) \in EntryId
  BY <1>2 DEF IInv, TypeOK, AppendInput, TimeFor, IdFor, ulid, EntryId
<1>4. prev[c] \in Hash /\ KeyOf[c] \in Known
  BY ConstantsAssumption DEF IInv, TypeOK
<1>5. e \in Entry /\ Sealed(e) /\ e.prev_hash = prev[c]
  BY <1>1, <1>3, <1>4, AttestedIsSealed
<1> HIDE DEF e
<1>6. TypeOK'
  BY <1>1, <1>5 DEF IInv, TypeOK
<1>7. BuiltSealed'
  <2> SUFFICES ASSUME NEW d \in Call, pc'[d] \in {"built", "done"}
               PROVE  Sealed(built'[d])
    BY DEF BuiltSealed, Sealed, computeEntryHash, ContentOf
  <2>1. CASE d = c
    BY <2>1, <1>1, <1>5 DEF IInv, TypeOK
  <2>2. CASE d # c
    BY <2>2, <1>1 DEF IInv, TypeOK, BuiltSealed
  <2> QED  BY <2>1, <2>2
<1>8. TailWasRead'
  BY <1>1, <1>5 DEF IInv, TypeOK, TailWasRead, HashAt
<1>9. StoredByACall' /\ AckedInLog'
  BY <1>1 DEF IInv, TypeOK, StoredByACall, AckedInLog
<1> QED  BY <1>1, <1>6, <1>7, <1>8, <1>9, ChainUntouched DEF IInv

(* Returning the entry stored first preserves the invariant.                *)
LEMMA StoreExistingStep ==
  ASSUME IInv, NEW c \in Call, StoreExisting(c)
  PROVE  IInv'
<1>0. DOMAIN entries = 1 .. Len(entries)
  BY DEF IInv, TypeOK
<1>1. PICK i \in 1 .. Len(entries) : built' = [built EXCEPT ![c] = entries[i]]
  BY <1>0, Zenon DEF StoreExisting, Holding
<1>2. /\ pc[c] = "built" /\ pc' = [pc EXCEPT ![c] = "done"]
      /\ UNCHANGED <<clock, entries, input, prev, seen>>
  BY DEF StoreExisting
<1>3. entries[i] \in Entry /\ Sealed(entries[i])
  BY <1>1 DEF IInv, TypeOK, Linked
<1>4. TypeOK'
  BY <1>1, <1>2, <1>3 DEF IInv, TypeOK
<1>5. BuiltSealed'
  <2> SUFFICES ASSUME NEW d \in Call, pc'[d] \in {"built", "done"}
               PROVE  Sealed(built'[d])
    BY DEF BuiltSealed, Sealed, computeEntryHash, ContentOf
  <2>1. CASE d = c
    BY <2>1, <1>1, <1>2, <1>3 DEF IInv, TypeOK
  <2>2. CASE d # c
    BY <2>2, <1>1, <1>2 DEF IInv, TypeOK, BuiltSealed
  <2> QED  BY <2>1, <2>2
<1>6. TailWasRead'
  BY <1>1, <1>2 DEF IInv, TypeOK, TailWasRead, HashAt
<1>7. StoredByACall'
  BY <1>1, <1>2 DEF IInv, TypeOK, StoredByACall
<1>8. AckedInLog'
  BY <1>1, <1>2 DEF IInv, TypeOK, AckedInLog
<1> QED  BY <1>2, <1>4, <1>5, <1>6, <1>7, <1>8, ChainUntouched DEF IInv

(* A rejected entry preserves the invariant.                                *)
LEMMA StoreRejectedStep ==
  ASSUME IInv, NEW c \in Call, StoreRejected(c)
  PROVE  IInv'
<1>1. /\ pc[c] = "built" /\ pc' = [pc EXCEPT ![c] = "failed"]
      /\ UNCHANGED <<clock, entries, input, prev, built, seen>>
  BY DEF StoreRejected
<1>2. TypeOK'
  BY <1>1 DEF IInv, TypeOK
<1>3. BuiltSealed'
  BY <1>1 DEF IInv, TypeOK, BuiltSealed, Sealed, computeEntryHash, ContentOf
<1>4. TailWasRead'
  BY <1>1 DEF IInv, TypeOK, TailWasRead, HashAt
<1>5. StoredByACall' /\ AckedInLog'
  BY <1>1 DEF IInv, TypeOK, StoredByACall, AckedInLog
<1> QED  BY <1>1, <1>2, <1>3, <1>4, <1>5, ChainUntouched DEF IInv

(* Storing an entry preserves the invariant: it links to the tail, is not   *)
(* earlier, and no stored entry has its identifier.                         *)
LEMMA StoreAppendedStep ==
  ASSUME IInv, NEW c \in Call, StoreAppended(c)
  PROVE  IInv'
<1> DEFINE e == built[c]
           n == Len(entries)
<1>1. /\ pc[c] = "built" /\ pc' = [pc EXCEPT ![c] = "done"]
      /\ Holding(entries, e.entry_id) = {}
      /\ e.prev_hash = LastHash(entries)
      /\ MonotonicWith(entries, e)
      /\ entries' = Append(entries, e)
      /\ UNCHANGED <<clock, input, prev, built, seen>>
  BY DEF StoreAppended
<1>2. entries \in Seq(Entry) /\ e \in Entry /\ Sealed(e)
  BY <1>1 DEF IInv, TypeOK, BuiltSealed
<1>3. /\ entries' \in Seq(Entry) /\ n \in Nat /\ Len(entries') = n + 1
      /\ DOMAIN entries = 1 .. n /\ DOMAIN entries' = 1 .. n + 1
      /\ \A i \in 1 .. n : entries'[i] = entries[i]
      /\ entries'[n + 1] = e
  BY <1>1, <1>2, Appended
<1> HIDE DEF e, n
<1>4. TypeOK'
  <2>1. pc' \in [Call -> {"idle", "read", "built", "done", "failed"}]
        /\ \A d \in Call : pc[d] = "idle" <=> pc'[d] = "idle"
    BY <1>1 DEF IInv, TypeOK
  <2>2. \A d \in Call : pc'[d] \in {"built", "done"} => built'[d] \in Entry
    BY <1>1 DEF IInv, TypeOK
  <2> QED  BY <1>1, <1>3, <2>1, <2>2 DEF IInv, TypeOK
<1>5. e.prev_hash = HashAt(n)
  BY <1>1, LastHashIsHashAt DEF IInv, n
<1>6. Linked'
  <2> SUFFICES ASSUME NEW i \in 1 .. n + 1
               PROVE  Sealed(entries'[i]) /\ entries'[i].prev_hash = HashAt(i - 1)'
    BY <1>3 DEF Linked, Sealed, computeEntryHash, ContentOf
  <2>1. HashAt(i - 1)' = HashAt(i - 1)
    <3>1. i - 1 = 0 \/ i - 1 \in 1 .. n
      BY <1>3
    <3> QED  BY <1>3, <3>1 DEF HashAt
  <2>2. CASE i \in 1 .. n
    BY <1>3, <2>1, <2>2 DEF IInv, Linked, n
  <2>3. CASE i = n + 1
    <3>1. i - 1 = n
      BY <1>3, <2>3
    <3> QED  BY <1>2, <1>3, <1>5, <2>1, <2>3, <3>1
  <2> QED  BY <1>3, <2>2, <2>3
<1>7. BuiltSealed'
  BY <1>1 DEF IInv, TypeOK, BuiltSealed, Sealed, computeEntryHash, ContentOf
<1>8. OneEntryPerId'
  <2>1. \A i \in 1 .. n : entries[i].entry_id # e.entry_id
    BY <1>1, <1>3 DEF Holding
  <2>2. \A i, j \in 1 .. n : entries[i].entry_id = entries[j].entry_id => i = j
    BY <1>3 DEF IInv, OneEntryPerId
  <2>3. SUFFICES ASSUME NEW i \in 1 .. n + 1, NEW j \in 1 .. n + 1,
                        entries'[i].entry_id = entries'[j].entry_id
                 PROVE  i = j
    BY <1>3, Zenon DEF OneEntryPerId
  <2>4. (i \in 1 .. n \/ i = n + 1) /\ (j \in 1 .. n \/ j = n + 1)
    BY <1>3
  <2> QED  BY <1>3, <2>1, <2>2, <2>3, <2>4, Zenon
<1>9. InTimeOrder'
  <2>1. \A i \in 1 .. n : entries[i].timestamp <= e.timestamp
    <3> SUFFICES ASSUME NEW i \in 1 .. n PROVE entries[i].timestamp <= e.timestamp
      OBVIOUS
    <3>1. n # 0 /\ entries # <<>> /\ n \in 1 .. n
      BY <1>2, <1>3 DEF n
    <3>2. entries[n].timestamp <= e.timestamp
      BY <1>1, <3>1 DEF MonotonicWith, n
    <3>3. i = n \/ entries[i].timestamp <= entries[n].timestamp
      <4>1. i = n \/ i < n
        BY <1>3
      <4>2. \A j, k \in 1 .. n : j < k => entries[j].timestamp <= entries[k].timestamp
        BY Zenon DEF IInv, InTimeOrder, n
      <4> QED  BY <3>1, <4>1, <4>2, Zenon
    <3>4. entries[i].timestamp \in Nat /\ entries[n].timestamp \in Nat /\ e.timestamp \in Nat
      <4>1. \A x \in Entry : x.timestamp \in Nat
        BY ConstantsAssumption DEF Entry, Time
      <4>2. entries[i] \in Entry /\ entries[n] \in Entry
        BY <1>2, <1>3, <3>1
      <4> QED  BY <1>2, <4>1, <4>2
    <3> QED  BY <3>2, <3>3, <3>4
  <2>2. SUFFICES ASSUME NEW i \in 1 .. n + 1, NEW j \in 1 .. n + 1, i < j
                 PROVE  entries'[i].timestamp <= entries'[j].timestamp
    BY <1>3 DEF InTimeOrder
  <2>3. i \in 1 .. n /\ (j \in 1 .. n \/ j = n + 1)
    BY <1>3, <2>2
  <2>4. CASE j \in 1 .. n
    BY <1>3, <2>2, <2>3, <2>4 DEF IInv, InTimeOrder, n
  <2>5. CASE j = n + 1
    BY <1>3, <2>1, <2>3, <2>5
  <2> QED  BY <2>3, <2>4, <2>5
<1>10. TailWasRead'
  <2> SUFFICES ASSUME NEW d \in Call
               PROVE  /\ seen'[d] <= Len(entries')
                      /\ pc'[d] # "idle" => prev'[d] = HashAt(seen[d])'
                      /\ pc'[d] = "built" => built'[d].prev_hash = prev'[d]
    BY <1>1 DEF TailWasRead
  <2>1. seen[d] \in Nat /\ seen[d] <= n
    BY DEF IInv, TypeOK, TailWasRead, n
  <2>2. HashAt(seen[d])' = HashAt(seen[d])
    <3>1. seen[d] = 0 \/ seen[d] \in 1 .. n
      BY <1>3, <2>1
    <3> QED  BY <1>1, <1>3, <3>1 DEF HashAt
  <2> QED  BY <1>1, <1>3, <2>1, <2>2 DEF IInv, TypeOK, TailWasRead
<1>11. StoredByACall'
  <2> SUFFICES ASSUME NEW i \in 1 .. n + 1
               PROVE  \E d \in Call : pc'[d] = "done" /\ entries'[i] = built'[d]
    BY <1>3 DEF StoredByACall
  <2>1. CASE i \in 1 .. n
    BY <1>1, <1>3, <2>1 DEF IInv, TypeOK, StoredByACall, n
  <2>2. CASE i = n + 1
    BY <1>1, <1>3, <2>2 DEF IInv, TypeOK, e
  <2> QED  BY <1>3, <2>1, <2>2
<1>12. AckedInLog'
  <2> SUFFICES ASSUME NEW d \in Call, pc'[d] = "done"
               PROVE  \E i \in 1 .. n + 1 : entries'[i] = built'[d]
    BY <1>3 DEF AckedInLog
  <2>1. CASE d = c
    <3>1. n + 1 \in 1 .. n + 1
      BY <1>3
    <3> QED  BY <1>1, <1>3, <2>1, <3>1, Zenon DEF e
  <2>2. CASE d # c
    <3>1. PICK i \in 1 .. n : entries[i] = built[d]
      BY <1>1, <2>2 DEF IInv, TypeOK, AckedInLog, n
    <3>2. i \in 1 .. n + 1
      BY <1>3
    <3> QED  BY <1>1, <1>3, <3>1, <3>2
  <2> QED  BY <2>1, <2>2
<1> QED
  BY <1>4, <1>6, <1>7, <1>8, <1>9, <1>10, <1>11, <1>12 DEF IInv

(* The clock and stuttering steps preserve the invariant.                   *)
LEMMA OtherStep ==
  ASSUME IInv, Tick \/ UNCHANGED vars
  PROVE  IInv'
<1>1. /\ UNCHANGED <<entries, pc, input, prev, built, seen>>
      /\ clock' \in Time
  BY ConstantsAssumption DEF Tick, vars, IInv, TypeOK, Time
<1>2. TypeOK'
  BY <1>1 DEF IInv, TypeOK
<1>3. BuiltSealed'
  BY <1>1 DEF IInv, BuiltSealed, Sealed, computeEntryHash, ContentOf
<1>4. TailWasRead' /\ StoredByACall' /\ AckedInLog'
  BY <1>1 DEF IInv, TailWasRead, StoredByACall, AckedInLog, HashAt
<1> QED  BY <1>1, <1>2, <1>3, <1>4, ChainUntouched DEF IInv

(* The invariant is inductive, so it holds in every reachable state.       *)
THEOREM Invariance == Spec => []IInv
<1>1. IInv /\ [Next]_vars => IInv'
  <2> SUFFICES ASSUME IInv, [Next]_vars PROVE IInv'
    OBVIOUS
  <2>1. ASSUME NEW c \in Call, NEW in \in Inputs, ReadTail(c, in) PROVE IInv'
    BY <2>1, ReadTailStep
  <2>2. ASSUME NEW c \in Call, Proceed(c) PROVE IInv'
    BY <2>2, RefuseKeyStep, BuildEntryStep, StoreExistingStep, StoreRejectedStep,
       StoreAppendedStep DEF Proceed
  <2>3. CASE Tick \/ UNCHANGED vars
    BY <2>3, OtherStep
  <2> QED  BY <2>1, <2>2, <2>3 DEF Next
<1> QED  BY <1>1, InitIInv, PTL DEF Spec

--------------------------------------------------------------------------------
(***************************************************************************)
(* What the invariant is for                                               *)
(***************************************************************************)

(* Types are preserved for every set of calls, keys and inputs.            *)
THEOREM TypeCorrect == Spec => []TypeOK
<1>1. IInv => TypeOK
  BY DEF IInv
<1> QED  BY <1>1, Invariance, PTL

(* Whatever the interleaving of the clients, what storage holds passes     *)
(* verifyChain.                                                            *)
THEOREM ChainAlwaysVerifies == Spec => []ChainVerifies
<1>1. IInv => ChainVerifies
  <2> SUFFICES ASSUME IInv, NEW i \in DOMAIN entries
               PROVE  /\ entries[i].payload.signing_key_id \in Known
                      /\ verifyEntry(entries[i], IF i = 1 THEN GENESIS_PREV_HASH
                                                         ELSE entries[i - 1].entry_hash)
    BY DEF ChainVerifies, verifyChain
  <2>1. i \in 1 .. Len(entries)
    BY DEF IInv, TypeOK
  <2>2. Sealed(entries[i]) /\ entries[i].prev_hash = HashAt(i - 1)
    BY <2>1 DEF IInv, Linked
  <2>3. i - 1 = 0 <=> i = 1
    BY <2>1
  <2> QED  BY <2>2, <2>3 DEF Sealed, HashAt, verifyEntry
<1> QED  BY <1>1, Invariance, PTL

(* No identifier is ever stored twice.                                     *)
THEOREM IdsAreUnique == Spec => []OneEntryPerId
<1>1. IInv => OneEntryPerId
  BY DEF IInv
<1> QED  BY <1>1, Invariance, PTL

(* No step touches an entry that is already stored.                        *)
THEOREM NothingIsRewritten == Spec => AppendOnly
<1>1. IInv /\ [Next]_vars => [GrowsAtEnd]_entries
  <2> SUFFICES ASSUME IInv, [Next]_vars, entries' # entries PROVE GrowsAtEnd
    OBVIOUS
  <2>1. PICK c \in Call : StoreAppended(c)
    BY DEF Next, Proceed, vars, ReadTail, RefuseKey, BuildEntry, StoreExisting,
           StoreRejected, Tick
  <2>2. entries \in Seq(Entry) /\ built[c] \in Entry /\ entries' = Append(entries, built[c])
    BY <2>1 DEF IInv, TypeOK, StoreAppended
  <2> QED  BY <2>2 DEF GrowsAtEnd
<1> QED  BY <1>1, Invariance, PTL DEF AppendOnly, Spec

(* Once a later day has an entry, the leaves of a day are final.           *)
THEOREM DaysAreSealed == Spec => DaySealedByLaterEntry
<1>1. IInv /\ [Next]_vars => [ClosedDaysStay]_entries
  <2> SUFFICES ASSUME IInv, [Next]_vars, entries' # entries,
                      NEW d \in 0 .. (MaxTime \div DayLength), Closed(d)
               PROVE  Day(d)' = Day(d)
    BY DEF ClosedDaysStay
  <2> DEFINE n == Len(entries)
             from == d * DayLength
             to == (d + 1) * DayLength
  <2>1. PICK c \in Call : StoreAppended(c)
    BY DEF Next, Proceed, vars, ReadTail, RefuseKey, BuildEntry, StoreExisting,
           StoreRejected, Tick
  <2>2. entries \in Seq(Entry) /\ built[c] \in Entry /\ entries' = Append(entries, built[c])
    BY <2>1 DEF IInv, TypeOK, StoreAppended
  <2>3. /\ n \in Nat /\ DOMAIN entries = 1 .. n /\ DOMAIN entries' = 1 .. n + 1
        /\ \A i \in 1 .. n : entries'[i] = entries[i]
        /\ entries'[n + 1] = built[c]
    BY <2>2, Appended
  <2>4. \A x \in Entry : x.timestamp \in Nat
    BY ConstantsAssumption DEF Entry, Time
  <2>5. from \in Int /\ to \in Int
    BY ConstantsAssumption
  <2> HIDE DEF n, from, to
  <2>6. ~ (built[c].timestamp < to)
    <3>1. PICK i \in 1 .. n : to <= entries[i].timestamp
      BY <2>3 DEF to, Closed
    <3>2. n \in 1 .. n /\ entries # <<>>
      <4>1. n \in 1 .. n
        BY <2>3, <3>1
      <4> QED  BY <2>3, <4>1
    <3>3. entries[n].timestamp <= built[c].timestamp
      BY <2>1, <3>2 DEF StoreAppended, MonotonicWith, n
    <3>4. i = n \/ entries[i].timestamp <= entries[n].timestamp
      <4>1. i = n \/ i < n
        BY <2>3
      <4>2. \A j, k \in 1 .. n : j < k => entries[j].timestamp <= entries[k].timestamp
        BY Zenon DEF IInv, InTimeOrder, n
      <4> QED  BY <3>2, <4>1, <4>2, Zenon
    <3>5. entries[i].timestamp \in Nat /\ entries[n].timestamp \in Nat /\ built[c].timestamp \in Nat
      <4>1. entries[i] \in Entry /\ entries[n] \in Entry
        BY <2>2, <2>3, <3>2
      <4> QED  BY <2>2, <2>4, <4>1
    <3> QED  BY <2>5, <3>1, <3>3, <3>4, <3>5
  <2>7. Day(d) = {i \in 1 .. n : from <= entries[i].timestamp /\ entries[i].timestamp < to}
    BY <2>3 DEF Day, getEntriesInRange, from, to
  <2>8. Day(d)' = {i \in 1 .. n + 1 : from <= entries'[i].timestamp /\ entries'[i].timestamp < to}
    BY <2>3 DEF Day, getEntriesInRange, from, to
  <2>9. \A i : i \in 1 .. n + 1 <=> (i \in 1 .. n \/ i = n + 1)
    BY <2>3
  <2> QED  BY <2>3, <2>6, <2>7, <2>8, <2>9
<1> QED  BY <1>1, Invariance, PTL DEF DaySealedByLaterEntry, Spec

(* A client whose append is refused for its link was overtaken by another. *)
THEOREM LosersLostARace == Spec => RejectedOnlyWhenOvertaken
<1>1. IInv /\ [Next]_vars => [LosersWereOvertaken]_pc
  <2> SUFFICES ASSUME IInv, [Next]_vars, NEW c \in Call,
                      pc[c] = "built", pc'[c] = "failed", MonotonicWith(entries, built[c])
               PROVE  Overtaken(c)
    BY DEF LosersWereOvertaken
  <2> DEFINE n == Len(entries)
  <2>1. StoreRejected(c)
    <3>1. PICK d \in Call : Proceed(d)
      BY DEF IInv, TypeOK, Next, vars, Tick, ReadTail
    <3>2. pc' = [pc EXCEPT ![d] = pc'[d]] /\ pc' # pc
      BY <3>1 DEF IInv, TypeOK, Proceed, RefuseKey, BuildEntry, StoreExisting,
                  StoreRejected, StoreAppended
    <3>3. d = c
      BY <3>2 DEF IInv, TypeOK
    <3> QED  BY <3>1, <3>3 DEF IInv, TypeOK, Proceed, RefuseKey, BuildEntry,
                              StoreExisting, StoreRejected, StoreAppended
  <2>2. HashAt(seen[c]) # HashAt(n)
    BY <2>1, LastHashIsHashAt DEF StoreRejected, IInv, TailWasRead
  <2>3. seen[c] \in Nat /\ seen[c] <= n /\ n \in Nat
    BY DEF IInv, TypeOK, TailWasRead
  <2>4. n \in seen[c] + 1 .. n /\ n \in 1 .. n
    BY <2>2, <2>3
  <2>5. PICK d \in Call : pc[d] = "done" /\ entries[n] = built[d]
    BY <2>4 DEF IInv, StoredByACall
  <2> QED  BY <2>4, <2>5 DEF Overtaken
<1> QED  BY <1>1, Invariance, PTL DEF RejectedOnlyWhenOvertaken, Spec

--------------------------------------------------------------------------------
(***************************************************************************)
(* What a caller is told.  The invariant needs to know whose an identifier *)
(* is: one that a client drew itself is met in another call's entry only   *)
(* if some caller asked for it by name, since it was new when drawn.       *)
(***************************************************************************)

Asked(id) == \E d \in Call : pc[d] # "idle" /\ input[d].entry_id = id

Bears(c) == input[c].entry_id # None => built[c].entry_id = input[c].entry_id

BuiltIsOwn ==
  \A c \in Call : pc[c] = "built" => Bears(c) /\ built[c].payload = input[c].payload

DrawnIsOwn ==
  \A c, d \in Call :
    /\ c # d /\ pc[c] = "built" /\ input[c].entry_id = None
    /\ pc[d] \in {"built", "done"} /\ built[d].entry_id = built[c].entry_id
    => Asked(built[c].entry_id)

DoneIsOwnOrAsked ==
  \A c \in Call : pc[c] = "done" =>
    Bears(c) /\ (built[c].payload # input[c].payload => Asked(built[c].entry_id))

Provenance == BuiltIsOwn /\ DrawnIsOwn /\ DoneIsOwnOrAsked

(* What one call does in a step is all that changes, and what was asked for *)
(* stays asked for.                                                         *)
LEMMA AskedStays ==
  ASSUME IInv, [Next]_vars, NEW id, Asked(id)
  PROVE  Asked(id)'
<1>1. PICK d \in Call : pc[d] # "idle" /\ input[d].entry_id = id
  BY DEF Asked
<1>2. pc'[d] # "idle" /\ input'[d] = input[d]
  <2>1. CASE UNCHANGED vars \/ Tick
    BY <1>1, <2>1 DEF vars, Tick
  <2>2. ASSUME NEW c \in Call, NEW in \in Inputs, ReadTail(c, in)
        PROVE  pc'[d] # "idle" /\ input'[d] = input[d]
    BY <1>1, <2>2 DEF IInv, TypeOK, ReadTail
  <2>3. ASSUME NEW c \in Call, Proceed(c)
        PROVE  pc'[d] # "idle" /\ input'[d] = input[d]
    BY <1>1, <2>3 DEF IInv, TypeOK, Proceed, RefuseKey, BuildEntry, StoreExisting,
                      StoreRejected, StoreAppended
  <2> QED  BY <2>1, <2>2, <2>3 DEF Next
<1> QED  BY <1>1, <1>2 DEF Asked

(* Steps after which nobody holds an entry it did not hold before.          *)
LEMMA NobodyBuilds ==
  ASSUME IInv, Provenance, [Next]_vars, built' = built,
         \A c \in Call : pc'[c] \in {"built", "done"} =>
           /\ pc[c] \in {"built", "done"} /\ input'[c] = input[c]
           /\ pc'[c] = "built" => pc[c] = "built"
  PROVE  Provenance'
<1>1. BuiltIsOwn'
  BY DEF Provenance, BuiltIsOwn, Bears
<1>2. DrawnIsOwn'
  BY AskedStays DEF Provenance, DrawnIsOwn
<1>3. DoneIsOwnOrAsked'
  BY AskedStays DEF Provenance, BuiltIsOwn, DoneIsOwnOrAsked, Bears
<1> QED  BY <1>1, <1>2, <1>3 DEF Provenance

(* A drawn identifier is new, and one that is not drawn was asked for.      *)
LEMMA BuildKeepsProvenance ==
  ASSUME IInv, Provenance, NEW c \in Call, NEW r \in Random, BuildEntry(c, r)
  PROVE  Provenance'
<1> DEFINE e == Attested(IdFor(c, r), TimeFor(c), input[c].payload, prev[c], KeyOf[c])
<1>1. /\ pc[c] = "read" /\ pc' = [pc EXCEPT ![c] = "built"]
      /\ built' = [built EXCEPT ![c] = e] /\ input' = input
      /\ input[c].entry_id = None =>
           \A d \in Call : IdFor(c, r) \notin {input[d].entry_id, built[d].entry_id}
  BY Zenon DEF BuildEntry, IdFor, TimeFor
<1>2. e.entry_id = IdFor(c, r) /\ e.payload = input[c].payload
  BY DEF Attested
<1> HIDE DEF e
<1>3. /\ pc'[c] = "built" /\ built'[c] = e
      /\ \A d \in Call \ {c} : pc'[d] = pc[d] /\ built'[d] = built[d]
  BY <1>1 DEF IInv, TypeOK
<1>4. \A id : Asked(id) => Asked(id)'
  BY AskedStays DEF Next, Proceed
<1>5. BuiltIsOwn'
  BY <1>1, <1>2, <1>3 DEF Provenance, BuiltIsOwn, Bears, IdFor
<1>6. DoneIsOwnOrAsked'
  BY <1>1, <1>3, <1>4 DEF Provenance, DoneIsOwnOrAsked, Bears
<1>7. DrawnIsOwn'
  <2> SUFFICES ASSUME NEW x \in Call, NEW y \in Call, x # y,
                      pc'[x] = "built", input'[x].entry_id = None,
                      pc'[y] \in {"built", "done"}, built'[y].entry_id = built'[x].entry_id
               PROVE  Asked(built[x].entry_id)'
    BY DEF DrawnIsOwn, Asked
  <2>1. CASE x = c
    BY <1>1, <1>2, <1>3, <2>1
  <2>2. CASE y = c
    <3>1. IdFor(c, r) = built[x].entry_id
      BY <1>2, <1>3, <2>2
    <3>2. input[c].entry_id = built[x].entry_id
      BY <1>1, <3>1 DEF IdFor
    <3> QED  BY <1>1, <1>3, <2>2, <3>2 DEF Asked
  <2>3. CASE x # c /\ y # c
    BY <1>1, <1>3, <1>4, <2>3 DEF Provenance, DrawnIsOwn
  <2> QED  BY <2>1, <2>2, <2>3
<1> QED  BY <1>5, <1>6, <1>7 DEF Provenance

(* The entry that is returned instead was stored by another call: if the   *)
(* identifier was drawn here, somebody asked for it there.                 *)
LEMMA ExistingKeepsProvenance ==
  ASSUME IInv, Provenance, NEW c \in Call, StoreExisting(c)
  PROVE  Provenance'
<1>1. /\ pc[c] = "built" /\ pc' = [pc EXCEPT ![c] = "done"] /\ input' = input
      /\ DOMAIN entries = 1 .. Len(entries)
  BY DEF StoreExisting, IInv, TypeOK
<1>2. PICK i \in 1 .. Len(entries) :
        entries[i].entry_id = built[c].entry_id /\ built' = [built EXCEPT ![c] = entries[i]]
  BY <1>1, Zenon DEF StoreExisting, Holding
<1>3. PICK d \in Call : pc[d] = "done" /\ entries[i] = built[d]
  BY DEF IInv, StoredByACall
<1>4. /\ d # c /\ pc'[c] = "done" /\ built'[c] = built[d]
      /\ built[d].entry_id = built[c].entry_id
      /\ \A x \in Call \ {c} : pc'[x] = pc[x] /\ built'[x] = built[x]
  BY <1>1, <1>2, <1>3 DEF IInv, TypeOK
<1>5. \A id : Asked(id) => Asked(id)'
  BY AskedStays DEF Next, Proceed
<1>6. BuiltIsOwn'
  BY <1>1, <1>4 DEF Provenance, BuiltIsOwn, Bears
<1>7. Bears(c)' /\ Asked(built[c].entry_id)'
  <2>1. CASE input[c].entry_id = None
    BY <1>1, <1>3, <1>4, <1>5, <2>1 DEF Provenance, DrawnIsOwn, Bears
  <2>2. CASE input[c].entry_id # None
    <3>1. built[c].entry_id = input[c].entry_id
      BY <1>1, <2>2 DEF Provenance, BuiltIsOwn, Bears
    <3> QED  BY <1>1, <1>4, <1>5, <3>1 DEF Bears, Asked
  <2> QED  BY <2>1, <2>2
<1>8. DoneIsOwnOrAsked'
  <2> SUFFICES ASSUME NEW x \in Call, pc'[x] = "done"
               PROVE  Bears(x)' /\ (built'[x].payload # input'[x].payload
                                       => Asked(built[x].entry_id)')
    BY DEF DoneIsOwnOrAsked, Bears, Asked
  <2>1. CASE x = c
    BY <1>4, <1>7, <2>1
  <2>2. CASE x # c
    BY <1>1, <1>4, <1>5, <2>2 DEF Provenance, DoneIsOwnOrAsked, Bears
  <2> QED  BY <2>1, <2>2
<1>9. DrawnIsOwn'
  <2>1. \A x \in Call : built'[x].entry_id = built[x].entry_id
    BY <1>4
  <2>2. \A x \in Call : /\ pc'[x] = "built" => pc[x] = "built"
                        /\ pc'[x] \in {"built", "done"} => pc[x] \in {"built", "done"}
    BY <1>1, <1>4
  <2> QED  BY <1>1, <1>5, <2>1, <2>2 DEF Provenance, DrawnIsOwn
<1> QED  BY <1>6, <1>8, <1>9 DEF Provenance

(* Where an entry that a call holds comes from is known in every state.     *)
THEOREM ProvenanceInvariance == Spec => []Provenance
<1>1. Init => Provenance
  BY DEF Init, Provenance, BuiltIsOwn, DrawnIsOwn, DoneIsOwnOrAsked
<1>2. IInv /\ Provenance /\ [Next]_vars => Provenance'
  <2> SUFFICES ASSUME IInv, Provenance, [Next]_vars PROVE Provenance'
    OBVIOUS
  <2>1. ASSUME NEW c \in Call, NEW in \in Inputs, ReadTail(c, in) PROVE Provenance'
    BY <2>1, NobodyBuilds DEF IInv, TypeOK, ReadTail
  <2>2. ASSUME NEW c \in Call, Proceed(c) PROVE Provenance'
    <3>1. CASE RefuseKey(c)
      BY <3>1, NobodyBuilds DEF IInv, TypeOK, RefuseKey
    <3>2. CASE StoreRejected(c)
      BY <3>2, NobodyBuilds DEF IInv, TypeOK, StoreRejected
    <3>3. CASE StoreAppended(c)
      BY <3>3, NobodyBuilds DEF IInv, TypeOK, StoreAppended
    <3> QED  BY <2>2, <3>1, <3>2, <3>3, BuildKeepsProvenance, ExistingKeepsProvenance DEF Proceed
  <2>3. CASE Tick \/ UNCHANGED vars
    BY <2>3, NobodyBuilds DEF vars, Tick
  <2> QED  BY <2>1, <2>2, <2>3 DEF Next
<1> QED  BY <1>1, <1>2, Invariance, PTL DEF Spec

(* Who is told that its append succeeded holds a stored entry, under the   *)
(* identifier it asked for, and with its payload unless some caller named  *)
(* that identifier.                                                        *)
THEOREM AcksAreHonest == Spec => []AckedIsStored
<1>1. IInv /\ Provenance => AckedIsStored
  BY DEF IInv, TypeOK, AckedInLog, Provenance, DoneIsOwnOrAsked, Bears, Asked, AckedIsStored
<1> QED  BY <1>1, Invariance, ProvenanceInvariance, PTL

--------------------------------------------------------------------------------
(***************************************************************************)
(* What a verifier notices.  A hash is as long as its entry's place in the *)
(* chain, so an entry links only to the one it was stored behind.  What    *)
(* holds of every place is shown for the first one where it would not.     *)
(***************************************************************************)

Below == {p \in Nat \X Nat : p[1] < p[2]}

(* A set of naturals that is not empty has a least member.                 *)
LEMMA Least ==
  ASSUME NEW T, T \subseteq Nat, T # {}
  PROVE  \E x \in T : \A y \in T : x <= y
<1>1. Below = OpToRel(<, Nat)
  BY Zenon DEF Below, OpToRel
<1>2. PICK x \in T : \A y \in T : <<y, x>> \notin Below
  BY <1>1, NatLessThanWellFounded, WFMin, Zenon
<1>3. ASSUME NEW y \in T, y < x PROVE FALSE
  <2>1. <<y, x>> \in Below
    BY <1>3 DEF Below
  <2> QED  BY <1>2, <2>1
<1> QED  BY <1>3

(* The hash stored at a place covers as many contents as there are places  *)
(* up to it.                                                               *)
LEMMA HashesAreNumbered ==
  ASSUME IInv
  PROVE  \A i \in 1 .. Len(entries) :
           Len(entries[i].prev_hash) = i - 1 /\ Len(entries[i].entry_hash) = i
<1> DEFINE n == Len(entries)
           T == {i \in 1 .. n : Len(entries[i].prev_hash) # i - 1}
<1>1. n \in Nat /\ \A i \in 1 .. n : entries[i] \in Entry
  BY DEF IInv, TypeOK
<1>2. \A i \in 1 .. n : /\ entries[i].prev_hash \in Seq(Content)
                       /\ ContentOf(entries[i]) \in Content
  BY <1>1 DEF Entry, Hash, Content, ContentOf
<1>3. \A i \in 1 .. n : /\ entries[i].entry_hash = Append(entries[i].prev_hash, ContentOf(entries[i]))
                       /\ entries[i].prev_hash = HashAt(i - 1)
  BY DEF IInv, Linked, Sealed, computeEntryHash
<1>4. \A i \in 1 .. n : Len(entries[i].entry_hash) = Len(entries[i].prev_hash) + 1
  <2> SUFFICES ASSUME NEW i \in 1 .. n
               PROVE  Len(entries[i].entry_hash) = Len(entries[i].prev_hash) + 1
    OBVIOUS
  <2>1. ASSUME NEW s \in Seq(Content), NEW x \in Content PROVE Len(Append(s, x)) = Len(s) + 1
    BY ONLY <2>1
  <2> QED  BY ONLY <1>2, <1>3, <2>1
<1>5. T = {}
  <2> SUFFICES ASSUME T # {} PROVE FALSE
    OBVIOUS
  <2>1. PICK i \in T : \A j \in T : i <= j
    <3>1. T \subseteq Nat
      BY <1>1
    <3> QED  BY <3>1, Least
  <2>2. CASE i = 1
    BY <1>3, <2>1, <2>2 DEF HashAt, GENESIS_PREV_HASH
  <2>3. CASE i # 1
    <3>1. PICK j \in 1 .. n : j = i - 1 /\ j \notin T /\ j # 0
      BY <1>1, <2>1, <2>3
    <3>2. Len(entries[j].prev_hash) = j - 1
      BY <3>1
    <3>3. Len(entries[j].entry_hash) = j
      BY <1>4, <3>2
    <3>4. i \in 1 .. n /\ Len(entries[i].prev_hash) # i - 1
      BY <2>1
    <3>5. entries[i].prev_hash = HashAt(j)
      BY <1>3, <3>1, <3>4
    <3> QED  BY <3>1, <3>3, <3>4, <3>5 DEF HashAt
  <2> QED  BY <2>2, <2>3
<1> QED  BY <1>1, <1>2, <1>4, <1>5

(* What passes verifyChain is the chain from its beginning, entry by entry. *)
LEMMA OnlyAPrefixVerifies ==
  ASSUME IInv, NEW n \in Nat, NEW kept \in [1 .. n -> DOMAIN entries],
         verifyChain([k \in 1 .. n |-> entries[kept[k]]])
  PROVE  \A k \in 1 .. n : kept[k] = k
<1> DEFINE es == [k \in 1 .. n |-> entries[kept[k]]]
           T == {k \in 1 .. n : kept[k] # k}
<1>1. \A k \in 1 .. n : kept[k] \in 1 .. Len(entries)
  BY DEF IInv, TypeOK
<1>2. \A k \in 1 .. n : entries[kept[k]].prev_hash =
                        IF k = 1 THEN <<>> ELSE es[k - 1].entry_hash
  BY DEF verifyChain, verifyEntry, GENESIS_PREV_HASH
<1>3. \A k \in 1 .. n : k # 1 => k - 1 \in 1 .. n /\ es[k - 1] = entries[kept[k - 1]]
  OBVIOUS
<1>4. T = {}
  <2> SUFFICES ASSUME T # {} PROVE FALSE
    OBVIOUS
  <2>1. PICK k \in T : \A j \in T : k <= j
    <3>1. T \subseteq Nat
      OBVIOUS
    <3> QED  BY <3>1, Least
  <2>2. Len(entries[kept[k]].prev_hash) = kept[k] - 1
    BY <1>1, <2>1, HashesAreNumbered
  <2>3. CASE k = 1
    BY <1>1, <1>2, <2>1, <2>2, <2>3
  <2>4. CASE k # 1
    <3>1. k - 1 \in 1 .. n /\ kept[k - 1] = k - 1
      BY <2>1, <2>4
    <3>2. Len(entries[kept[k]].prev_hash) = k - 1
      BY <1>1, <1>2, <1>3, <2>1, <2>4, <3>1, HashesAreNumbered
    <3> QED  BY <1>1, <2>1, <2>2, <3>2
  <2> QED  BY <2>3, <2>4
<1> QED  BY <1>4

(* A verifier is not deceived: neither by leaving out, repeating or        *)
(* reordering stored entries, but for dropping the newest, nor by giving a *)
(* stored entry another payload.                                           *)
THEOREM LossesAreDetected == Spec => []LossIsDetected
<1>1. ASSUME IInv, NEW i \in DOMAIN entries, NEW p \in Payload, p # entries[i].payload,
             verifyChain([entries EXCEPT ![i].payload = p])
      PROVE  FALSE
  <2> DEFINE e == entries[i]
             f == [e EXCEPT !.payload = p]
  <2>1. /\ i \in 1 .. Len(entries) /\ e \in Entry
        /\ [entries EXCEPT ![i].payload = p][i] = f
        /\ i \in DOMAIN [entries EXCEPT ![i].payload = p]
    BY <1>1 DEF IInv, TypeOK
  <2>2. computeEntryHash(f) = f.entry_hash
    BY <1>1, <2>1 DEF verifyChain, verifyEntry
  <2>3. computeEntryHash(e) = e.entry_hash
    BY <1>1, <2>1 DEF IInv, Linked, Sealed
  <2>4. /\ f.payload = p /\ f.entry_hash = e.entry_hash /\ f.prev_hash = e.prev_hash
        /\ f.entry_id = e.entry_id /\ f.timestamp = e.timestamp
    BY <2>1 DEF Entry
  <2>5. /\ ContentOf(e) \in Content /\ ContentOf(f) \in Content /\ e.prev_hash \in Seq(Content)
        /\ ContentOf(e).payload = e.payload /\ ContentOf(f).payload = p
    BY <1>1, <2>1, <2>4 DEF Entry, Content, ContentOf, Hash
  <2> HIDE DEF e, f
  <2>6. Append(e.prev_hash, ContentOf(e)) = Append(e.prev_hash, ContentOf(f))
    BY <2>2, <2>3, <2>4 DEF computeEntryHash
  <2>7. ContentOf(e) = ContentOf(f)
    BY <2>5, <2>6, AppendProperties
  <2> QED  BY <1>1, <2>5, <2>7 DEF e
<1>2. IInv => LossIsDetected
  <2>1. ASSUME IInv PROVE 0 .. Len(entries) + 1 \subseteq Nat
    BY <2>1 DEF IInv, TypeOK
  <2> QED  BY <1>1, <2>1, OnlyAPrefixVerifies DEF LossIsDetected
<1> QED  BY <1>2, Invariance, PTL

--------------------------------------------------------------------------------
(***************************************************************************)
(* The ledger implements EvidenceLog                                       *)
(***************************************************************************)

Log == [i \in DOMAIN entries |-> ContentOf(entries[i])]

Acked == {built[c].entry_id : c \in {d \in Call : pc[d] = "done"}}

(* The refinement mapping: the stored entries as records of the list.       *)
LEMMA LogShape ==
  ASSUME IInv
  PROVE  /\ DOMAIN entries = 1 .. Len(entries) /\ Len(entries) \in Nat
         /\ Log \in Seq(Content) /\ Len(Log) = Len(entries)
         /\ \A i \in 1 .. Len(entries) : Log[i] = ContentOf(entries[i])
<1>1. /\ DOMAIN entries = 1 .. Len(entries) /\ Len(entries) \in Nat
      /\ \A i \in 1 .. Len(entries) : entries[i] \in Entry
  BY DEF IInv, TypeOK
<1>2. \A e \in Entry : ContentOf(e) \in Content
  BY DEF ContentOf, Content, Entry
<1> QED  BY <1>1, <1>2 DEF Log

(* A stored entry becomes one accepted record.                             *)
LEMMA AppendedIsAccepted ==
  ASSUME IInv, NEW c \in Call, StoreAppended(c)
  PROVE  /\ ContentOf(built[c]) \in Content
         /\ built[c].entry_id \notin {Log[i].entry_id : i \in DOMAIN Log}
         /\ Log # <<>> => Log[Len(Log)].timestamp <= built[c].timestamp
         /\ Log' = Append(Log, ContentOf(built[c]))
         /\ Acked' = Acked \union {built[c].entry_id}
<1> DEFINE e == built[c]
           n == Len(entries)
<1>1. /\ pc[c] = "built" /\ pc' = [pc EXCEPT ![c] = "done"] /\ built' = built
      /\ Holding(entries, e.entry_id) = {} /\ MonotonicWith(entries, e)
      /\ entries' = Append(entries, e)
  BY DEF StoreAppended
<1>2. entries \in Seq(Entry) /\ e \in Entry
  BY <1>1 DEF IInv, TypeOK
<1>3. /\ n \in Nat /\ DOMAIN entries = 1 .. n /\ DOMAIN entries' = 1 .. n + 1
      /\ \A i \in 1 .. n : entries'[i] = entries[i]
      /\ entries'[n + 1] = e
  BY <1>1, <1>2, Appended
<1>4. ContentOf(e) \in Content
  BY <1>2 DEF ContentOf, Content, Entry
<1> HIDE DEF e, n
<1>5. /\ Log \in Seq(Content) /\ Len(Log) = n /\ DOMAIN Log = 1 .. n
      /\ \A i \in 1 .. n : Log[i] = ContentOf(entries[i])
  BY <1>3, LogShape DEF n, Log
<1>6. \A i \in 1 .. n : Log[i].entry_id = entries[i].entry_id
                       /\ Log[i].timestamp = entries[i].timestamp
  BY <1>5 DEF ContentOf
<1>7. e.entry_id \notin {Log[i].entry_id : i \in DOMAIN Log}
  BY <1>1, <1>3, <1>5, <1>6 DEF Holding
<1>8. Log # <<>> => Log[Len(Log)].timestamp <= e.timestamp
  <2> SUFFICES ASSUME Log # <<>> PROVE Log[n].timestamp <= e.timestamp
    BY <1>5
  <2>1. n # 0 /\ n \in 1 .. n
    BY <1>3, <1>5
  <2>2. entries # <<>>
    BY <1>2, <1>3, <2>1
  <2> QED  BY <1>1, <1>6, <2>1, <2>2 DEF MonotonicWith, n
<1>9. Log' = Append(Log, ContentOf(e))
  <2>1. Log' = [i \in 1 .. n + 1 |-> ContentOf(entries'[i])]
    BY <1>3 DEF Log, ContentOf
  <2>2. /\ Append(Log, ContentOf(e)) \in Seq(Content)
        /\ Len(Append(Log, ContentOf(e))) = n + 1
        /\ \A i \in 1 .. n : Append(Log, ContentOf(e))[i] = Log[i]
        /\ Append(Log, ContentOf(e))[n + 1] = ContentOf(e)
    BY <1>4, <1>5, Appended
  <2>3. \A i \in 1 .. n + 1 : ContentOf(entries'[i]) = Append(Log, ContentOf(e))[i]
    <3> SUFFICES ASSUME NEW i \in 1 .. n + 1
                 PROVE  ContentOf(entries'[i]) = Append(Log, ContentOf(e))[i]
      OBVIOUS
    <3>1. i \in 1 .. n \/ i = n + 1
      BY <1>3
    <3> QED  BY <1>3, <1>5, <2>2, <3>1, Zenon
  <2>4. Append(Log, ContentOf(e)) = [i \in 1 .. n + 1 |-> Append(Log, ContentOf(e))[i]]
    <3>1. n + 1 \in Nat
      BY <1>3
    <3> QED  BY <2>2, <3>1, SequenceIsFunction, Zenon
  <2>5. [i \in 1 .. n + 1 |-> ContentOf(entries'[i])]
          = [i \in 1 .. n + 1 |-> Append(Log, ContentOf(e))[i]]
    BY <2>3, Zenon
  <2> QED  BY <2>1, <2>4, <2>5, Zenon
<1>10. Acked' = Acked \union {e.entry_id}
  <2>1. {d \in Call : pc'[d] = "done"} = {d \in Call : pc[d] = "done"} \union {c}
    BY <1>1 DEF IInv, TypeOK
  <2> QED  BY <1>1, <2>1, Zenon DEF Acked, e
<1> QED  BY <1>4, <1>7, <1>8, <1>9, <1>10 DEF e

(* A repeated identifier is a confirmation of a record on the list.        *)
LEMMA ExistingIsConfirmed ==
  ASSUME IInv, NEW c \in Call, StoreExisting(c)
  PROVE  \E id \in EntryId :
           /\ id \in {Log[i].entry_id : i \in DOMAIN Log}
           /\ Acked' = Acked \union {id}
           /\ Log' = Log
<1>1. /\ DOMAIN entries = 1 .. Len(entries)
      /\ \A i \in 1 .. Len(entries) : entries[i] \in Entry
  BY DEF IInv, TypeOK
<1>2. PICK i \in 1 .. Len(entries) : built' = [built EXCEPT ![c] = entries[i]]
  BY <1>1, Zenon DEF StoreExisting, Holding
<1>3. pc[c] = "built" /\ pc' = [pc EXCEPT ![c] = "done"] /\ entries' = entries
  BY DEF StoreExisting
<1>4. entries[i].entry_id \in EntryId
  BY <1>1 DEF Entry
<1>5. entries[i].entry_id \in {Log[j].entry_id : j \in DOMAIN Log}
  <2>1. DOMAIN Log = DOMAIN entries /\ Log[i] = ContentOf(entries[i])
    BY <1>1 DEF Log
  <2>2. Log[i].entry_id = entries[i].entry_id
    BY <2>1 DEF ContentOf
  <2> QED  BY <1>1, <2>1, <2>2
<1>6. Acked' = Acked \union {entries[i].entry_id}
  <2>1. {d \in Call : pc'[d] = "done"} = {d \in Call : pc[d] = "done"} \union {c}
    BY <1>3 DEF IInv, TypeOK
  <2>2. /\ built'[c] = entries[i] /\ \A d \in Call : d # c => built'[d] = built[d]
        /\ c \notin {d \in Call : pc[d] = "done"}
    BY <1>2, <1>3 DEF IInv, TypeOK
  <2>3. Acked' = {built'[d].entry_id : d \in {x \in Call : pc[x] = "done"} \union {c}}
    BY <2>1 DEF Acked
  <2> QED  BY <2>2, <2>3 DEF Acked
<1>7. Log' = Log
  BY <1>3, Zenon DEF Log, ContentOf
<1> QED  BY <1>4, <1>5, <1>6, <1>7

(* The remaining steps do not show.                                        *)
LEMMA OthersAreInvisible ==
  ASSUME IInv, NEW c \in Call,
         \/ \E in \in Inputs : ReadTail(c, in)
         \/ RefuseKey(c)
         \/ \E r \in Random : BuildEntry(c, r)
         \/ StoreRejected(c)
  PROVE  Log' = Log /\ Acked' = Acked
<1>1. /\ entries' = entries /\ pc[c] # "done"
      /\ \A d \in Call : d # c => built'[d] = built[d] /\ pc'[d] = pc[d]
      /\ pc'[c] # "done"
  BY DEF IInv, TypeOK, ReadTail, RefuseKey, BuildEntry, StoreRejected
<1>2. {d \in Call : pc'[d] = "done"} = {d \in Call : pc[d] = "done"}
  BY <1>1
<1>3. \A d \in {x \in Call : pc[x] = "done"} : built'[d] = built[d]
  BY <1>1
<1>4. Acked' = Acked
  BY <1>2, <1>3, Zenon DEF Acked
<1>5. Log' = Log
  BY <1>1, Zenon DEF Log, ContentOf
<1> QED  BY <1>4, <1>5

(* Every behaviour of the ledger is, seen through the list of contents and *)
(* the set of acknowledged identifiers, a behaviour of EvidenceLog.        *)
THEOREM Refinement == Spec => ImplementsEvidenceLog
<1>1. Init => Promise!Init
  BY DEF Init, Promise!Init, ContentOf
<1>2. IInv /\ [Next]_vars => [Promise!Next]_(Promise!vars)
  <2> SUFFICES ASSUME IInv, [Next]_vars
               PROVE  [Promise!Next]_(Promise!vars)
    OBVIOUS
  <2>1. ASSUME NEW c \in Call, StoreAppended(c) PROVE Promise!Next
    <3>1. PICK r \in Content : r = ContentOf(built[c])
      BY <2>1, AppendedIsAccepted
    <3>2. r.entry_id = built[c].entry_id /\ r.timestamp = built[c].timestamp
      BY <3>1 DEF ContentOf
    <3>3. Promise!Accept(r)
      BY <2>1, <3>1, <3>2, AppendedIsAccepted DEF Promise!Accept, Promise!Recorded, Log, Acked
    <3>4. r \in Promise!Record
      BY DEF Content, Promise!Record
    <3> QED  BY <3>3, <3>4 DEF Promise!Next
  <2>2. ASSUME NEW c \in Call, StoreExisting(c) PROVE Promise!Next
    BY <2>2, ExistingIsConfirmed, Zenon
       DEF Promise!Next, Promise!Confirm, Promise!Recorded, Log, Acked
  <2>3. ASSUME NEW c \in Call,
               \/ \E in \in Inputs : ReadTail(c, in)
               \/ RefuseKey(c)
               \/ \E r \in Random : BuildEntry(c, r)
               \/ StoreRejected(c)
        PROVE  UNCHANGED Promise!vars
    BY <2>3, OthersAreInvisible DEF Promise!vars, Log, Acked
  <2>4. CASE Tick \/ UNCHANGED vars
    <3>1. entries' = entries /\ pc' = pc /\ built' = built
      BY <2>4 DEF Tick, vars
    <3> QED  BY <3>1, Zenon DEF Promise!vars, ContentOf
  <2> QED  BY <2>1, <2>2, <2>3, <2>4 DEF Next, Proceed
<1> QED  BY <1>1, <1>2, Invariance, PTL DEF Spec, ImplementsEvidenceLog, Promise!Spec

--------------------------------------------------------------------------------
(***************************************************************************)
(* The daily anchor.  What its loops compute is shown round by round: a    *)
(* claim that holds before the first round and is kept by each holds of    *)
(* all, for there is no least round where it fails.                        *)
(***************************************************************************)

(* Each loop, as the function of its rounds, satisfies its definition: for  *)
(* any number of rounds there is a function that does, else there would be *)
(* a least number for which there is none.                                 *)
LEMMA LevelsAreDefined ==
  ASSUME NEW ls, Len(ls) \in Nat
  PROVE  /\ Levels(ls)[0] = ls
         /\ \A k \in 1 .. Len(ls) : Levels(ls)[k] = NextLevel(Levels(ls)[k - 1])
<1> DEFINE Is(g, m) == g = [k \in 0 .. m |-> IF k = 0 THEN ls ELSE NextLevel(g[k - 1])]
           T == {m \in Nat : ~ \E g : Is(g, m)}
<1>1. T = {}
  <2> SUFFICES ASSUME T # {} PROVE FALSE
    OBVIOUS
  <2>1. PICK m \in T : \A j \in T : m <= j
    BY Least
  <2> m \in Nat
    OBVIOUS
  <2>2. m # 0
    <3>1. Is([k \in 0 .. 0 |-> ls], 0)
      OBVIOUS
    <3> QED  BY <3>1
  <2>3. PICK g : Is(g, m - 1)
    <3> HIDE DEF Is
    <3>1. m - 1 \in Nat /\ ~ (m <= m - 1)
      BY ONLY <2>2, m \in Nat
    <3>2. m - 1 \notin T
      BY ONLY <2>1, <3>1
    <3> QED  BY ONLY <3>1, <3>2, Zenon DEF T
  <2> DEFINE h == [k \in 0 .. m |-> IF k = 0 THEN ls ELSE NextLevel(g[k - 1])]
  <2>4. /\ h = [k \in 0 .. m |-> h[k]]
        /\ h[0] = ls
        /\ \A k \in 1 .. m : h[k] = NextLevel(g[k - 1]) /\ h[k - 1] = g[k - 1]
    BY <2>3
  <2> HIDE DEF h
  <2>5. ASSUME NEW k \in 0 .. m
        PROVE  h[k] = IF k = 0 THEN ls ELSE NextLevel(h[k - 1])
    <3>1. CASE k = 0
      BY ONLY <2>4, <3>1
    <3>2. CASE k # 0
      <4>1. k \in 1 .. m
        BY ONLY <3>2, <2>5, m \in Nat
      <4> QED  BY ONLY <4>1, <3>2, <2>4, Zenon
    <3> QED  BY <3>1, <3>2
  <2>6. Is(h, m)
    BY <2>4, <2>5, Zenon
  <2> QED  BY <2>6
<1>2. Is(Levels(ls), Len(ls))
  BY <1>1 DEF Levels
<1> QED  BY <1>2

LEMMA ClimbIsDefined ==
  ASSUME NEW ls, Len(ls) \in Nat, NEW leafIndex
  PROVE  /\ Climb(ls, leafIndex)[0] = [level |-> ls, idx |-> leafIndex, path |-> <<>>]
         /\ \A k \in 1 .. Len(ls) : Climb(ls, leafIndex)[k] = ClimbOnce(Climb(ls, leafIndex)[k - 1])
<1> DEFINE first == [level |-> ls, idx |-> leafIndex, path |-> <<>>]
           Is(g, m) == g = [k \in 0 .. m |-> IF k = 0 THEN first ELSE ClimbOnce(g[k - 1])]
           T == {m \in Nat : ~ \E g : Is(g, m)}
<1>1. T = {}
  <2> HIDE DEF first
  <2> SUFFICES ASSUME T # {} PROVE FALSE
    OBVIOUS
  <2>1. PICK m \in T : \A j \in T : m <= j
    BY Least
  <2> m \in Nat
    OBVIOUS
  <2>2. m # 0
    <3>1. Is([k \in 0 .. 0 |-> first], 0)
      OBVIOUS
    <3> QED  BY <3>1
  <2>3. PICK g : Is(g, m - 1)
    <3> HIDE DEF Is
    <3>1. m - 1 \in Nat /\ ~ (m <= m - 1)
      BY ONLY <2>2, m \in Nat
    <3>2. m - 1 \notin T
      BY ONLY <2>1, <3>1
    <3> QED  BY ONLY <3>1, <3>2, Zenon DEF T
  <2> DEFINE h == [k \in 0 .. m |-> IF k = 0 THEN first ELSE ClimbOnce(g[k - 1])]
  <2>4. /\ h = [k \in 0 .. m |-> h[k]]
        /\ h[0] = first
        /\ \A k \in 1 .. m : h[k] = ClimbOnce(g[k - 1]) /\ h[k - 1] = g[k - 1]
    BY <2>3
  <2> HIDE DEF h
  <2>5. ASSUME NEW k \in 0 .. m
        PROVE  h[k] = IF k = 0 THEN first ELSE ClimbOnce(h[k - 1])
    <3>1. CASE k = 0
      BY ONLY <2>4, <3>1
    <3>2. CASE k # 0
      <4>1. k \in 1 .. m
        BY ONLY <3>2, <2>5, m \in Nat
      <4> QED  BY ONLY <4>1, <3>2, <2>4, Zenon
    <3> QED  BY <3>1, <3>2
  <2>6. Is(h, m)
    BY <2>4, <2>5, Zenon
  <2> QED  BY <2>6
<1>2. Is(Climb(ls, leafIndex), Len(ls))
  BY <1>1 DEF Climb
<1> QED  BY <1>2

(* The walk of verifyInclusionProof, after each step of the path.          *)
StepUp(node, step) ==
  IF step.direction = "R" THEN hashPair(node, step.sibling) ELSE hashPair(step.sibling, node)

LEMMA WalkIsDefined ==
  ASSUME NEW leaf, NEW path, Len(path) \in Nat
  PROVE  \E w : /\ w[0] = leaf
                /\ \A k \in 1 .. Len(path) : w[k] = StepUp(w[k - 1], path[k])
                /\ WalkUp(leaf, path) = w[Len(path)]
<1> DEFINE Is(g, m) == g = [k \in 0 .. m |-> IF k = 0 THEN leaf ELSE StepUp(g[k - 1], path[k])]
           T == {m \in Nat : ~ \E g : Is(g, m)}
<1>1. T = {}
  <2> SUFFICES ASSUME T # {} PROVE FALSE
    OBVIOUS
  <2>1. PICK m \in T : \A j \in T : m <= j
    BY Least
  <2> m \in Nat
    OBVIOUS
  <2>2. m # 0
    <3>1. Is([k \in 0 .. 0 |-> leaf], 0)
      OBVIOUS
    <3> QED  BY <3>1
  <2>3. PICK g : Is(g, m - 1)
    <3> HIDE DEF Is
    <3>1. m - 1 \in Nat /\ ~ (m <= m - 1)
      BY ONLY <2>2, m \in Nat
    <3>2. m - 1 \notin T
      BY ONLY <2>1, <3>1
    <3> QED  BY ONLY <3>1, <3>2, Zenon DEF T
  <2> DEFINE h == [k \in 0 .. m |-> IF k = 0 THEN leaf ELSE StepUp(g[k - 1], path[k])]
  <2>4. /\ h = [k \in 0 .. m |-> h[k]]
        /\ h[0] = leaf
        /\ \A k \in 1 .. m : h[k] = StepUp(g[k - 1], path[k]) /\ h[k - 1] = g[k - 1]
    BY <2>3
  <2> HIDE DEF h
  <2>5. ASSUME NEW k \in 0 .. m
        PROVE  h[k] = IF k = 0 THEN leaf ELSE StepUp(h[k - 1], path[k])
    <3>1. CASE k = 0
      BY ONLY <2>4, <3>1
    <3>2. CASE k # 0
      <4>1. k \in 1 .. m
        BY ONLY <3>2, <2>5, m \in Nat
      <4> QED  BY ONLY <4>1, <3>2, <2>4, Zenon
    <3> QED  BY <3>1, <3>2
  <2>6. Is(h, m)
    BY <2>4, <2>5, Zenon
  <2> QED  BY <2>6
<1> DEFINE w == CHOOSE g : Is(g, Len(path))
<1>2. Is(w, Len(path))
  BY <1>1
<1>3. WalkUp(leaf, path) = w[Len(path)]
  BY DEF WalkUp, StepUp
<1> HIDE DEF w
<1>4. w[0] = leaf /\ \A k \in 1 .. Len(path) : w[k] = StepUp(w[k - 1], path[k])
  BY <1>2
<1> QED  BY <1>3, <1>4

IsSequence(s) == \E T : s \in Seq(T)

LEMMA LevelShape ==
  ASSUME NEW level, IsSequence(level), Len(level) # 0
  PROVE  /\ IsSequence(Level(level))
         /\ Len(Level(level)) = (Len(level) + 1) \div 2
         /\ \A k \in 1 .. (Len(level) + 1) \div 2 :
              Level(level)[k] = IF 2 * k <= Len(level) THEN hashPair(level[2 * k - 1], level[2 * k])
                                                       ELSE level[2 * k - 1]
<1> DEFINE m == (Len(level) + 1) \div 2
           up == Level(level)
           Nodes == {up[k] : k \in 1 .. m}
<1>1. Len(level) \in Nat
  BY DEF IsSequence
<1>2. m \in Nat
  BY <1>1
<1>3. /\ up = [k \in 1 .. m |-> up[k]]
      /\ \A k \in 1 .. m : up[k] = IF 2 * k <= Len(level) THEN hashPair(level[2 * k - 1], level[2 * k])
                                                          ELSE level[2 * k - 1]
  BY DEF Level
<1> HIDE DEF up
<1>4. up \in Seq(Nodes) /\ Len(up) = m
  <2> HIDE DEF m
  <2>1. up \in [1 .. m -> Nodes]
    BY <1>3
  <2> QED  BY <1>2, <2>1
<1>5. IsSequence(up)
  BY <1>4 DEF IsSequence
<1> QED  BY <1>3, <1>4, <1>5 DEF up

(* A level is never empty, and after as many rounds as leaves one is left. *)
LEMMA LevelsShape ==
  ASSUME NEW ls, IsSequence(ls), ls # <<>>
  PROVE  \A k \in 0 .. Len(ls) :
           /\ IsSequence(Levels(ls)[k])
           /\ Len(Levels(ls)[k]) \in Nat \ {0}
           /\ Len(Levels(ls)[k]) = 1 \/ Len(Levels(ls)[k]) <= Len(ls) - k
<1> DEFINE n == Len(ls)
           Good(k) == /\ IsSequence(Levels(ls)[k])
                      /\ Len(Levels(ls)[k]) \in Nat \ {0}
                      /\ Len(Levels(ls)[k]) = 1 \/ Len(Levels(ls)[k]) <= n - k
           T == {k \in 0 .. n : ~ Good(k)}
<1>1. n \in Nat \ {0}
  BY DEF IsSequence
<1>2. /\ Levels(ls)[0] = ls
      /\ \A k \in 1 .. n : Levels(ls)[k] = NextLevel(Levels(ls)[k - 1])
  BY <1>1, LevelsAreDefined
<1>3. Good(0)
  BY <1>1, <1>2
<1>4. ASSUME NEW k \in 1 .. n, Good(k - 1) PROVE Good(k)
  <2> DEFINE low == Levels(ls)[k - 1]
             lowLen == Len(low)
  <2>1. IsSequence(low) /\ lowLen \in Nat \ {0} /\ (lowLen = 1 \/ lowLen <= n - (k - 1))
    BY <1>4
  <2>2. Levels(ls)[k] = NextLevel(low)
    BY <1>2
  <2>3. CASE lowLen = 1
    <3>1. Levels(ls)[k] = low
      BY <2>2, <2>3 DEF NextLevel
    <3> QED  BY <2>1, <2>3, <3>1
  <2>4. CASE lowLen # 1
    <3>1. Levels(ls)[k] = Level(low)
      BY <2>2, <2>4 DEF NextLevel
    <3>2. IsSequence(Level(low)) /\ Len(Level(low)) = (lowLen + 1) \div 2
      BY <2>1, LevelShape
    <3> HIDE DEF lowLen, n
    <3>3. (lowLen + 1) \div 2 \in Nat \ {0} /\ (lowLen + 1) \div 2 <= n - k
      BY ONLY <1>1, <2>1, <2>4, k \in 1 .. n
    <3> QED  BY ONLY <3>1, <3>2, <3>3 DEF Good, n
  <2> QED  BY <2>3, <2>4
<1>5. T = {}
  <2> SUFFICES ASSUME T # {} PROVE FALSE
    OBVIOUS
  <2> HIDE DEF Good
  <2>1. PICK k \in T : \A j \in T : k <= j
    <3>1. T \subseteq Nat
      BY <1>1
    <3> QED  BY <3>1, Least
  <2>2. k \in 0 .. n /\ ~ Good(k)
    OBVIOUS
  <2>3. k # 0
    BY <1>3, <2>2
  <2>4. k \in 1 .. n /\ k - 1 \in 0 .. n /\ ~ (k <= k - 1)
    BY ONLY <1>1, <2>2, <2>3
  <2>5. Good(k - 1)
    BY ONLY <2>1, <2>4, Zenon DEF T
  <2> QED  BY <1>4, <2>2, <2>4, <2>5
<1> QED  BY <1>5

LEMMA TopOfLevels ==
  ASSUME NEW ls, IsSequence(ls), ls # <<>>
  PROVE  /\ Len(Levels(ls)[Len(ls)]) = 1
         /\ buildMerkleRoot(ls) = Levels(ls)[Len(ls)][1]
<1>1. Len(ls) \in Nat \ {0}
  BY DEF IsSequence
<1>2. Len(ls) \in 0 .. Len(ls)
  BY <1>1
<1>3. /\ Len(Levels(ls)[Len(ls)]) \in Nat \ {0}
      /\ Len(Levels(ls)[Len(ls)]) = 1 \/ Len(Levels(ls)[Len(ls)]) <= Len(ls) - Len(ls)
  BY <1>2, LevelsShape
<1> QED  BY <1>1, <1>3 DEF buildMerkleRoot

(* Two walks over paths with the same first steps agree after them.        *)
LEMMA WalksAgree ==
  ASSUME NEW n \in Nat, NEW w, NEW v, NEW p, NEW q, w[0] = v[0],
         \A k \in 1 .. n : w[k] = StepUp(w[k - 1], p[k]),
         \A k \in 1 .. n : v[k] = StepUp(v[k - 1], q[k]),
         \A k \in 1 .. n : p[k] = q[k]
  PROVE  w[n] = v[n]
<1> DEFINE T == {k \in 0 .. n : w[k] # v[k]}
<1>1. T = {}
  <2> SUFFICES ASSUME T # {} PROVE FALSE
    OBVIOUS
  <2>1. PICK k \in T : \A j \in T : k <= j
    <3>1. T \subseteq Nat
      OBVIOUS
    <3> QED  BY <3>1, Least
  <2>2. k \in 1 .. n /\ k - 1 \in 0 .. n /\ ~ (k <= k - 1) /\ w[k] # v[k]
    OBVIOUS
  <2>3. w[k - 1] = v[k - 1]
    BY <2>1, <2>2
  <2> QED  BY <2>2, <2>3
<1> QED  BY <1>1

LEMMA WalkOfNothing == ASSUME NEW leaf PROVE WalkUp(leaf, <<>>) = leaf
<1>1. Len(<<>>) = 0
  OBVIOUS
<1>2. PICK w : w[0] = leaf /\ WalkUp(leaf, <<>>) = w[Len(<<>>)]
  BY <1>1, WalkIsDefined
<1> QED  BY <1>1, <1>2

LEMMA WalkOneMore ==
  ASSUME NEW leaf, NEW path, IsSequence(path), NEW step
  PROVE  /\ IsSequence(Append(path, step))
         /\ WalkUp(leaf, Append(path, step)) = StepUp(WalkUp(leaf, path), step)
<1> DEFINE n == Len(path)
           more == Append(path, step)
<1>1. PICK T : path \in Seq(T)
  BY DEF IsSequence
<1>2. path \in Seq(T \cup {step}) /\ n \in Nat
  BY <1>1
<1>3. more \in Seq(T \cup {step})
  BY <1>2
<1>4. /\ Len(more) = n + 1
      /\ \A k \in 1 .. n : more[k] = path[k]
      /\ more[n + 1] = step
  BY <1>2
<1> HIDE DEF n, more
<1>5. PICK w : /\ w[0] = leaf
               /\ \A k \in 1 .. n : w[k] = StepUp(w[k - 1], path[k])
               /\ WalkUp(leaf, path) = w[n]
  <2>1. Len(path) \in Nat
    BY <1>2 DEF n
  <2> QED  BY <2>1, WalkIsDefined DEF n
<1>6. PICK v : /\ v[0] = leaf
               /\ \A k \in 1 .. (n + 1) : v[k] = StepUp(v[k - 1], more[k])
               /\ WalkUp(leaf, more) = v[n + 1]
  <2>1. Len(more) = n + 1 /\ Len(more) \in Nat
    BY <1>2, <1>4
  <2>2. PICK v : /\ v[0] = leaf
                 /\ \A k \in 1 .. Len(more) : v[k] = StepUp(v[k - 1], more[k])
                 /\ WalkUp(leaf, more) = v[Len(more)]
    BY ONLY <2>1, WalkIsDefined
  <2> QED  BY ONLY <2>1, <2>2
<1>7. w[n] = v[n]
  <2>1. \A k \in 1 .. n : v[k] = StepUp(v[k - 1], more[k])
    BY ONLY <1>2, <1>6
  <2>2. w[0] = v[0] /\ n \in Nat
    BY <1>2, <1>5, <1>6 DEF n
  <2>3. \A k \in 1 .. n : path[k] = more[k]
    BY ONLY <1>4
  <2> QED  BY ONLY <1>5, <2>1, <2>2, <2>3, WalksAgree
<1>8. v[n + 1] = StepUp(v[n], more[n + 1])
  BY ONLY <1>2, <1>6
<1> QED  BY <1>3, <1>4, <1>5, <1>6, <1>7, <1>8 DEF IsSequence, more


LEMMA HalfPlace ==
  ASSUME NEW len \in Nat \ {0}, NEW idx \in 0 .. len - 1
  PROVE  /\ idx \div 2 \in 0 .. ((len + 1) \div 2) - 1
         /\ (idx \div 2) + 1 \in 1 .. (len + 1) \div 2
         /\ idx % 2 = 0 =>
              /\ 2 * ((idx \div 2) + 1) = idx + 2
              /\ 2 * ((idx \div 2) + 1) - 1 = idx + 1
              /\ 2 * ((idx \div 2) + 1) <= len <=> idx + 1 # len
         /\ idx % 2 # 0 =>
              /\ 2 * ((idx \div 2) + 1) = idx + 1
              /\ 2 * ((idx \div 2) + 1) - 1 = idx
              /\ 2 * ((idx \div 2) + 1) <= len
<1>1. /\ idx = 2 * (idx \div 2) + (idx % 2) /\ idx % 2 \in {0, 1} /\ idx \div 2 \in Int
      /\ len + 1 = 2 * ((len + 1) \div 2) + ((len + 1) % 2) /\ (len + 1) % 2 \in {0, 1}
      /\ (len + 1) \div 2 \in Int
  OBVIOUS
<1> QED  BY <1>1

(* The climb is on the node the path so far makes of the leaf.             *)
OnPath(leaf, loop) ==
  /\ loop.idx \in 0 .. Len(loop.level) - 1
  /\ IsSequence(loop.path)
  /\ WalkUp(leaf, loop.path) = loop.level[loop.idx + 1]

LEMMA ClimbStep ==
  ASSUME NEW leaf, NEW loop, OnPath(leaf, loop),
         IsSequence(loop.level), Len(loop.level) \in Nat \ {0}
  PROVE  /\ ClimbOnce(loop).level = NextLevel(loop.level)
         /\ OnPath(leaf, ClimbOnce(loop))
<1>1. CASE Len(loop.level) = 1
  BY <1>1 DEF ClimbOnce, NextLevel
<1>2. CASE Len(loop.level) # 1
  <2>1. PICK low, idx, path : low = loop.level /\ idx = loop.idx /\ path = loop.path
    OBVIOUS
  <2>2. PICK len : len = Len(low)
    OBVIOUS
  <2>3. PICK half, upLen : half = idx \div 2 /\ upLen = (len + 1) \div 2
    OBVIOUS
  <2>4. /\ len \in Nat \ {0} /\ idx \in 0 .. len - 1 /\ IsSequence(low)
        /\ IsSequence(path) /\ WalkUp(leaf, path) = low[idx + 1]
    BY <2>1, <2>2 DEF OnPath
  <2>5. /\ half \in 0 .. upLen - 1 /\ half + 1 \in 1 .. upLen
        /\ idx % 2 = 0 =>
             /\ 2 * (half + 1) = idx + 2 /\ 2 * (half + 1) - 1 = idx + 1
             /\ 2 * (half + 1) <= len <=> idx + 1 # len
        /\ idx % 2 # 0 =>
             /\ 2 * (half + 1) = idx + 1 /\ 2 * (half + 1) - 1 = idx
             /\ 2 * (half + 1) <= len
    BY ONLY <2>3, <2>4, HalfPlace
  <2>6. PICK up : up = Level(low)
    OBVIOUS
  <2>7. /\ Len(up) = upLen
        /\ up[half + 1] = IF 2 * (half + 1) <= len THEN hashPair(low[2 * (half + 1) - 1], low[2 * (half + 1)])
                                                   ELSE low[2 * (half + 1) - 1]
    <3>1. Len(low) # 0
      BY <2>2, <2>4
    <3>2. /\ Len(up) = upLen
          /\ \A k \in 1 .. upLen :
               up[k] = IF 2 * k <= len THEN hashPair(low[2 * k - 1], low[2 * k]) ELSE low[2 * k - 1]
      BY ONLY <2>2, <2>3, <2>4, <2>6, <3>1, LevelShape
    <3> QED  BY ONLY <2>5, <3>2
  <2> DEFINE lone == idx % 2 = 0 /\ idx + 1 = len
             newPath == IF lone THEN path ELSE Append(path, SiblingOf(low, idx))
  <2>8. ClimbOnce(loop) = [level |-> up, idx |-> half, path |-> newPath] /\ NextLevel(loop.level) = up
    BY <1>2, <2>1, <2>2, <2>3, <2>6 DEF ClimbOnce, NextLevel
  <2>9. IsSequence(newPath) /\ WalkUp(leaf, newPath) = up[half + 1]
    <3>1. CASE lone
      BY <2>4, <2>5, <2>7, <3>1
    <3>2. CASE ~ lone
      <4>1. PICK step : step = SiblingOf(low, idx)
        OBVIOUS
      <4>2. IsSequence(Append(path, step)) /\ WalkUp(leaf, Append(path, step)) = StepUp(WalkUp(leaf, path), step)
        BY <2>4, WalkOneMore
      <4>3. StepUp(low[idx + 1], step) = up[half + 1]
        <5>1. CASE idx % 2 = 0
          <6>1. step = [sibling |-> low[idx + 2], direction |-> "R"]
            BY <4>1, <5>1 DEF SiblingOf
          <6>2. StepUp(low[idx + 1], step) = hashPair(low[idx + 1], low[idx + 2])
            BY <6>1 DEF StepUp
          <6> QED  BY <2>5, <2>7, <3>2, <5>1, <6>2
        <5>2. CASE idx % 2 # 0
          <6>1. step = [sibling |-> low[idx], direction |-> "L"]
            BY <4>1, <5>2 DEF SiblingOf
          <6>2. StepUp(low[idx + 1], step) = hashPair(low[idx], low[idx + 1])
            BY <6>1 DEF StepUp
          <6> QED  BY <2>5, <2>7, <5>2, <6>2
        <5> QED  BY <5>1, <5>2
      <4> QED  BY <2>4, <3>2, <4>1, <4>2, <4>3
    <3> QED  BY <3>1, <3>2
  <2> HIDE DEF newPath
  <2> QED  BY <2>5, <2>7, <2>8, <2>9 DEF OnPath
<1> QED  BY <1>1, <1>2

(* And it is at the level the loop for the root is at.                     *)
LEMMA ClimbShape ==
  ASSUME NEW ls, IsSequence(ls), NEW i \in 1 .. Len(ls)
  PROVE  \A k \in 0 .. Len(ls) : /\ Climb(ls, i - 1)[k].level = Levels(ls)[k]
                                 /\ OnPath(ls[i], Climb(ls, i - 1)[k])
<1> DEFINE n == Len(ls)
           at(k) == Climb(ls, i - 1)[k]
           Good(k) == at(k).level = Levels(ls)[k] /\ OnPath(ls[i], at(k))
           T == {k \in 0 .. n : ~ Good(k)}
<1>1. n \in Nat \ {0} /\ ls # <<>>
  BY DEF IsSequence
<1>2. /\ at(0) = [level |-> ls, idx |-> i - 1, path |-> <<>>]
      /\ \A k \in 1 .. n : at(k) = ClimbOnce(at(k - 1))
  BY <1>1, ClimbIsDefined
<1>3. /\ Levels(ls)[0] = ls
      /\ \A k \in 1 .. n : Levels(ls)[k] = NextLevel(Levels(ls)[k - 1])
  BY <1>1, LevelsAreDefined
<1>4. Good(0)
  <2>1. at(0).level = ls /\ at(0).idx = i - 1 /\ at(0).path = <<>>
    BY <1>2
  <2>2. IsSequence(<<>>)
    <3>1. <<>> \in Seq({})
      OBVIOUS
    <3> QED  BY <3>1 DEF IsSequence
  <2>3. WalkUp(ls[i], <<>>) = ls[i]
    BY WalkOfNothing
  <2>4. i - 1 \in 0 .. n - 1 /\ (i - 1) + 1 = i
    BY <1>1
  <2> QED  BY <1>3, <2>1, <2>2, <2>3, <2>4 DEF OnPath
<1>5. ASSUME NEW k \in 1 .. n, Good(k - 1) PROVE Good(k)
  <2> HIDE DEF at
  <2>1. at(k) = ClimbOnce(at(k - 1)) /\ Levels(ls)[k] = NextLevel(Levels(ls)[k - 1])
    BY <1>2, <1>3
  <2>2. k - 1 \in 0 .. n
    BY <1>1
  <2>3. IsSequence(Levels(ls)[k - 1]) /\ Len(Levels(ls)[k - 1]) \in Nat \ {0}
    BY <1>1, <2>2, LevelsShape
  <2>4. at(k - 1).level = Levels(ls)[k - 1] /\ OnPath(ls[i], at(k - 1))
    BY <1>5
  <2>5. PICK loop : loop = at(k - 1)
    OBVIOUS
  <2>6. ClimbOnce(loop).level = NextLevel(loop.level) /\ OnPath(ls[i], ClimbOnce(loop))
    BY ONLY <2>3, <2>4, <2>5, ClimbStep
  <2> QED  BY ONLY <2>1, <2>4, <2>5, <2>6
<1>6. T = {}
  <2> SUFFICES ASSUME T # {} PROVE FALSE
    OBVIOUS
  <2> HIDE DEF Good
  <2>1. PICK k \in T : \A j \in T : k <= j
    <3>1. T \subseteq Nat
      BY <1>1
    <3> QED  BY <3>1, Least
  <2>2. k \in 0 .. n /\ ~ Good(k)
    OBVIOUS
  <2>3. k # 0
    BY <1>4, <2>2
  <2>4. k \in 1 .. n /\ k - 1 \in 0 .. n /\ ~ (k <= k - 1)
    BY ONLY <1>1, <2>2, <2>3
  <2>5. Good(k - 1)
    BY ONLY <2>1, <2>4, Zenon DEF T
  <2> QED  BY <1>5, <2>2, <2>4, <2>5
<1> QED  BY <1>6

(* A path makes different nodes of different leaves.                       *)
LEMMA WalkBindsLeaf ==
  ASSUME NEW leaf, NEW other, NEW path, IsSequence(path), WalkUp(leaf, path) = WalkUp(other, path)
  PROVE  leaf = other
<1> DEFINE n == Len(path)
<1>1. n \in Nat
  BY DEF IsSequence
<1>2. PICK w : /\ w[0] = leaf
               /\ \A k \in 1 .. n : w[k] = StepUp(w[k - 1], path[k])
               /\ WalkUp(leaf, path) = w[n]
  BY <1>1, WalkIsDefined
<1>3. PICK v : /\ v[0] = other
               /\ \A k \in 1 .. n : v[k] = StepUp(v[k - 1], path[k])
               /\ WalkUp(other, path) = v[n]
  BY <1>1, WalkIsDefined
<1> HIDE DEF n
<1> DEFINE T == {k \in 0 .. n : w[k] = v[k]}
<1>4. n \in T
  <2>1. w[n] = v[n]
    BY <1>2, <1>3, Zenon
  <2> QED  BY <1>1, <2>1
<1>5. PICK k \in T : \A j \in T : k <= j
  <2>1. T \subseteq Nat /\ T # {}
    BY <1>1, <1>4
  <2> QED  BY <2>1, Least
<1>6. k \in 0 .. n /\ w[k] = v[k]
  OBVIOUS
<1>7. k = 0
  <2> SUFFICES ASSUME k # 0 PROVE FALSE
    OBVIOUS
  <2>1. k \in 1 .. n /\ k - 1 \in 0 .. n /\ ~ (k <= k - 1)
    BY ONLY <1>1, <1>6, k # 0
  <2>2. StepUp(w[k - 1], path[k]) = StepUp(v[k - 1], path[k])
    BY ONLY <1>2, <1>3, <1>6, <2>1
  <2>3. w[k - 1] = v[k - 1]
    BY <2>2 DEF StepUp, hashPair
  <2>4. k - 1 \in T
    BY <2>1, <2>3
  <2> QED  BY ONLY <1>5, <2>1, <2>4
<1> QED  BY <1>2, <1>3, <1>6, <1>7

--------------------------------------------------------------------------------
(* The root binds the leaves and their number.                             *)

LEMMA PairsBind ==
  ASSUME NEW a, NEW b, NEW c, NEW d, hashPair(a, b) = hashPair(c, d)
  PROVE  a = c /\ b = d
  BY DEF hashPair

(* A node below the root's level that is not the last of its level has as  *)
(* many pairs under it, going left, as there are levels; no node has more. *)
LEMMA NodesHaveAHeight ==
  ASSUME NEW A \in Seq(Leaf), NEW B \in Seq(Leaf), A # <<>>, B # <<>>
  PROVE  \A k \in 0 .. Len(A) : \A m \in k .. Len(B) :
           \A i \in 1 .. Len(Levels(A)[k]), j \in 1 .. Len(Levels(B)[m]) - 1 :
             \A y : Levels(A)[k][i] # hashPair(Levels(B)[m][j], y)
<1> DEFINE Apart(k) ==
             \A m \in k .. Len(B) :
               \A i \in 1 .. Len(Levels(A)[k]), j \in 1 .. Len(Levels(B)[m]) - 1 :
                 \A y : Levels(A)[k][i] # hashPair(Levels(B)[m][j], y)
           T == {k \in 0 .. Len(A) : ~ Apart(k)}
<1>1. /\ IsSequence(A) /\ IsSequence(B)
      /\ Len(A) \in Nat \ {0} /\ Len(B) \in Nat \ {0}
  BY DEF IsSequence
<1>2. /\ Levels(A)[0] = A
      /\ \A k \in 1 .. Len(A) : Levels(A)[k] = NextLevel(Levels(A)[k - 1])
      /\ \A k \in 1 .. Len(B) : Levels(B)[k] = NextLevel(Levels(B)[k - 1])
  BY <1>1, LevelsAreDefined
<1>3. Apart(0)
  <2>1. \A i \in 1 .. Len(A) : \E p : A[i] = <<p>>
    <3>1. \A i \in 1 .. Len(A) : A[i] \in Leaf
      OBVIOUS
    <3> QED  BY <3>1 DEF Leaf
  <2>2. \A p, x, y : <<p>> # hashPair(x, y)
    BY DEF hashPair
  <2>3. ASSUME NEW i \in 1 .. Len(Levels(A)[0]), NEW x, NEW y
        PROVE  Levels(A)[0][i] # hashPair(x, y)
    <3>1. PICK p : Levels(A)[0][i] = <<p>>
      BY <1>2, <2>1, Zenon
    <3> QED  BY ONLY <2>2, <3>1
  <2> QED  BY <2>3
<1>4. ASSUME NEW k \in 1 .. Len(A), Apart(k - 1) PROVE Apart(k)
  <2> SUFFICES ASSUME NEW m \in k .. Len(B), NEW i \in 1 .. Len(Levels(A)[k]),
                      NEW j \in 1 .. Len(Levels(B)[m]) - 1, NEW y,
                      Levels(A)[k][i] = hashPair(Levels(B)[m][j], y)
               PROVE  FALSE
    OBVIOUS
  <2>1. PICK low, low2, up, up2 : /\ low = Levels(A)[k - 1] /\ up = Levels(A)[k]
                                  /\ low2 = Levels(B)[m - 1] /\ up2 = Levels(B)[m]
    OBVIOUS
  <2>2. /\ m \in 1 .. Len(B) /\ m - 1 \in 0 .. Len(B) /\ m \in 0 .. Len(B)
        /\ m - 1 \in (k - 1) .. Len(B) /\ m \in (k - 1) .. Len(B)
        /\ k - 1 \in 0 .. Len(A) /\ k \in 0 .. Len(A)
    BY <1>1
  <2>3. /\ IsSequence(low) /\ Len(low) \in Nat \ {0} /\ IsSequence(low2) /\ Len(low2) \in Nat \ {0}
        /\ Len(up) \in Nat \ {0} /\ Len(up2) \in Nat \ {0}
    BY <1>1, <2>1, <2>2, LevelsShape
  <2>4. up = NextLevel(low) /\ up2 = NextLevel(low2)
    BY <1>2, <2>1, <2>2
  <2>5. /\ \A a \in 1 .. Len(low), b \in 1 .. Len(low2) - 1 : \A z : low[a] # hashPair(low2[b], z)
        /\ \A a \in 1 .. Len(low), b \in 1 .. Len(up2) - 1 : \A z : low[a] # hashPair(up2[b], z)
    <3>1. ASSUME NEW q \in (k - 1) .. Len(B), NEW a \in 1 .. Len(Levels(A)[k - 1]),
                 NEW b \in 1 .. Len(Levels(B)[q]) - 1, NEW z
          PROVE  Levels(A)[k - 1][a] # hashPair(Levels(B)[q][b], z)
      BY <1>4
    <3> QED  BY ONLY <2>1, <2>2, <3>1
  <2>6. i \in 1 .. Len(up) /\ j \in 1 .. Len(up2) - 1 /\ up[i] = hashPair(up2[j], y)
    BY <2>1
  <2>7. /\ Len(low2) # 1 /\ 2 * j <= Len(low2) /\ 2 * j - 1 \in 1 .. Len(low2) - 1
        /\ up2[j] = hashPair(low2[2 * j - 1], low2[2 * j])
    <3>1. CASE Len(low2) = 1
      <4>1. up2 = low2
        BY <2>4, <3>1 DEF NextLevel
      <4>2. Len(up2) = 1
        BY <3>1, <4>1
      <4>3. FALSE
        <5>1. j \in 1 .. 1 - 1
          BY ONLY <2>6, <4>2, Zenon
        <5> QED  BY ONLY <5>1
      <4> QED  BY <4>3
    <3>2. CASE Len(low2) # 1
      <4>1. /\ Len(up2) = (Len(low2) + 1) \div 2
            /\ \A a \in 1 .. (Len(low2) + 1) \div 2 :
                 up2[a] = IF 2 * a <= Len(low2) THEN hashPair(low2[2 * a - 1], low2[2 * a]) ELSE low2[2 * a - 1]
        BY <2>3, <2>4, <3>2, LevelShape DEF NextLevel
      <4>2. PICK len : len = Len(low2)
        OBVIOUS
      <4>3. 2 * j <= len /\ 2 * j - 1 \in 1 .. len - 1 /\ j \in 1 .. (len + 1) \div 2
        <5>1. len \in Nat \ {0} /\ j \in 1 .. ((len + 1) \div 2) - 1
          BY ONLY <2>3, <2>6, <4>1, <4>2
        <5> QED  BY ONLY <5>1
      <4> QED  BY ONLY <3>2, <4>1, <4>2, <4>3
    <3> QED  BY <3>1, <3>2
  <2>8. \/ \E a \in 1 .. Len(low) : up[i] = low[a]
        \/ \E a, b \in 1 .. Len(low) : up[i] = hashPair(low[a], low[b])
    <3>1. CASE Len(low) = 1
      BY <2>4, <2>6, <3>1 DEF NextLevel
    <3>2. CASE Len(low) # 1
      <4>1. /\ Len(up) = (Len(low) + 1) \div 2
            /\ \A a \in 1 .. (Len(low) + 1) \div 2 :
                 up[a] = IF 2 * a <= Len(low) THEN hashPair(low[2 * a - 1], low[2 * a]) ELSE low[2 * a - 1]
        BY <2>3, <2>4, <3>2, LevelShape DEF NextLevel
      <4>2. PICK len : len = Len(low)
        OBVIOUS
      <4>3. 2 * i - 1 \in 1 .. len /\ (2 * i <= len => 2 * i \in 1 .. len) /\ i \in 1 .. (len + 1) \div 2
        <5>1. len \in Nat \ {0} /\ i \in 1 .. (len + 1) \div 2
          BY ONLY <2>3, <2>6, <4>1, <4>2
        <5> QED  BY ONLY <5>1
      <4> QED  BY ONLY <4>1, <4>2, <4>3
    <3> QED  BY <3>1, <3>2
  <2>9. CASE \E a \in 1 .. Len(low) : up[i] = low[a]
    BY ONLY <2>5, <2>6, <2>9
  <2>10. CASE \E a, b \in 1 .. Len(low) : up[i] = hashPair(low[a], low[b])
    <3>1. PICK a, b \in 1 .. Len(low) : up[i] = hashPair(low[a], low[b])
      BY <2>10
    <3>2. low[a] = up2[j]
      BY ONLY <2>6, <3>1, PairsBind
    <3> QED  BY ONLY <2>5, <2>7, <3>1, <3>2
  <2> QED  BY <2>8, <2>9, <2>10
<1>5. T = {}
  <2> SUFFICES ASSUME T # {} PROVE FALSE
    OBVIOUS
  <2> HIDE DEF Apart
  <2>1. PICK k \in T : \A j \in T : k <= j
    <3>1. T \subseteq Nat
      BY <1>1
    <3> QED  BY <3>1, Least
  <2>2. k \in 0 .. Len(A) /\ ~ Apart(k)
    OBVIOUS
  <2>3. k # 0
    BY <1>3, <2>2
  <2>4. k \in 1 .. Len(A) /\ k - 1 \in 0 .. Len(A) /\ ~ (k <= k - 1)
    BY ONLY <1>1, <2>2, <2>3
  <2>5. Apart(k - 1)
    BY ONLY <2>1, <2>4, Zenon DEF T
  <2> QED  BY <1>4, <2>2, <2>4, <2>5
<1> QED  BY <1>5

LEMMA SequencesAgree ==
  ASSUME NEW a, NEW b, IsSequence(a), IsSequence(b), Len(a) = Len(b),
         \A i \in 1 .. Len(a) : a[i] = b[i]
  PROVE  a = b
<1>1. PICK S, T : a \in Seq(S) /\ b \in Seq(T)
  BY DEF IsSequence
<1>2. a = [i \in 1 .. Len(a) |-> a[i]] /\ b = [i \in 1 .. Len(b) |-> b[i]]
  BY <1>1
<1>3. [i \in 1 .. Len(a) |-> a[i]] = [i \in 1 .. Len(b) |-> b[i]]
  OBVIOUS
<1> QED  BY ONLY <1>2, <1>3

(* A level and the number of its nodes determine the level below it.       *)
LEMMA LevelBinds ==
  ASSUME NEW a, NEW b, IsSequence(a), IsSequence(b), Len(a) \in Nat \ {0},
         Len(a) = Len(b), Level(a) = Level(b)
  PROVE  a = b
<1>1. PICK len, m : len = Len(a) /\ m = (len + 1) \div 2
  OBVIOUS
<1>2. PICK up : up = Level(a)
  OBVIOUS
<1>3. /\ \A k \in 1 .. m : up[k] = IF 2 * k <= len THEN hashPair(a[2 * k - 1], a[2 * k]) ELSE a[2 * k - 1]
      /\ \A k \in 1 .. m : up[k] = IF 2 * k <= len THEN hashPair(b[2 * k - 1], b[2 * k]) ELSE b[2 * k - 1]
  BY <1>1, <1>2, LevelShape
<1>4. ASSUME NEW x \in 1 .. len PROVE a[x] = b[x]
  <2>1. PICK k : k = (x + 1) \div 2
    OBVIOUS
  <2>2. len \in Nat \ {0}
    BY <1>1
  <2>3. k \in 1 .. m /\ (x = 2 * k - 1 \/ (x = 2 * k /\ 2 * k <= len))
    BY ONLY <1>1, <2>1, <2>2, x \in 1 .. len
  <2>4. CASE 2 * k <= len
    <3>1. hashPair(a[2 * k - 1], a[2 * k]) = hashPair(b[2 * k - 1], b[2 * k])
      BY ONLY <1>3, <2>3, <2>4
    <3>2. a[2 * k - 1] = b[2 * k - 1] /\ a[2 * k] = b[2 * k]
      BY ONLY <3>1, PairsBind
    <3> QED  BY ONLY <2>3, <3>2
  <2>5. CASE ~ (2 * k <= len)
    <3>1. a[2 * k - 1] = b[2 * k - 1]
      BY ONLY <1>3, <2>3, <2>5
    <3> QED  BY ONLY <2>3, <2>5, <3>1
  <2> QED  BY <2>4, <2>5
<1> QED  BY <1>1, <1>4, SequencesAgree

(* The height of the tree: the first level that is a single node, the root.*)
LEMMA Height ==
  ASSUME NEW ls, IsSequence(ls), ls # <<>>
  PROVE  \E h \in 0 .. Len(ls) :
           /\ Len(Levels(ls)[h]) = 1
           /\ buildMerkleRoot(ls) = Levels(ls)[h][1]
           /\ \A k \in 0 .. Len(ls) : k < h => Len(Levels(ls)[k]) \in Nat \ {0, 1}
<1>1. Len(ls) \in Nat \ {0}
  BY DEF IsSequence
<1> DEFINE n == Len(ls)
           T == {k \in 0 .. n : Len(Levels(ls)[k]) = 1}
<1>2. n \in T
  BY <1>1, TopOfLevels
<1>3. PICK h \in T : \A k \in T : h <= k
  <2>1. T \subseteq Nat /\ T # {}
    BY <1>1, <1>2
  <2> QED  BY <2>1, Least
<1>4. h \in 0 .. n /\ Len(Levels(ls)[h]) = 1
  OBVIOUS
<1>5. ASSUME NEW k \in 0 .. n, k < h PROVE Len(Levels(ls)[k]) \in Nat \ {0, 1}
  <2>1. k \notin T
    BY <1>1, <1>3, <1>4, <1>5
  <2> QED  BY <1>1, <2>1, LevelsShape
<1> DEFINE U == {k \in h .. n : Levels(ls)[k] # Levels(ls)[h]}
<1>6. U = {}
  <2> SUFFICES ASSUME U # {} PROVE FALSE
    OBVIOUS
  <2>1. PICK k \in U : \A j \in U : k <= j
    <3>1. U \subseteq Nat
      BY <1>1, <1>4
    <3> QED  BY <3>1, Least
  <2>2. k \in h .. n /\ Levels(ls)[k] # Levels(ls)[h]
    OBVIOUS
  <2>3. k # h
    BY <2>2
  <2>4. k \in 1 .. n /\ k - 1 \in h .. n /\ ~ (k <= k - 1)
    BY ONLY <1>1, <1>4, <2>2, <2>3
  <2>5. Levels(ls)[k - 1] = Levels(ls)[h]
    BY ONLY <2>1, <2>4, Zenon DEF U
  <2>6. Levels(ls)[k] = NextLevel(Levels(ls)[k - 1])
    BY <1>1, <2>4, LevelsAreDefined
  <2>7. Levels(ls)[k] = Levels(ls)[h]
    BY <1>4, <2>5, <2>6, Zenon DEF NextLevel
  <2> QED  BY <2>2, <2>7
<1>7. Levels(ls)[n] = Levels(ls)[h]
  <2>1. n \in h .. n
    BY <1>1, <1>4
  <2> QED  BY <1>6, <2>1
<1> QED  BY <1>4, <1>5, <1>7, TopOfLevels

(* Of two lists with one root neither tree is higher than the other.       *)
LEMMA NotHigher ==
  ASSUME NEW A \in Seq(Leaf), NEW B \in Seq(Leaf), A # <<>>, B # <<>>,
         NEW g \in 0 .. Len(A), NEW h \in 0 .. Len(B), g < h,
         Len(Levels(A)[g]) = 1, Len(Levels(B)[h]) = 1,
         \A k \in 0 .. Len(B) : k < h => Len(Levels(B)[k]) \in Nat \ {0, 1}
  PROVE  Levels(A)[g][1] # Levels(B)[h][1]
<1>1. /\ IsSequence(A) /\ IsSequence(B)
      /\ Len(A) \in Nat \ {0} /\ Len(B) \in Nat \ {0}
  BY DEF IsSequence
<1>2. h \in 1 .. Len(B) /\ h - 1 \in 0 .. Len(B) /\ h - 1 < h /\ h - 1 \in g .. Len(B)
  BY <1>1
<1>3. PICK low : low = Levels(B)[h - 1]
  OBVIOUS
<1>4. IsSequence(low) /\ Len(low) \in Nat \ {0, 1}
  BY <1>1, <1>2, <1>3, LevelsShape
<1>5. Levels(B)[h] = Level(low)
  BY <1>1, <1>2, <1>3, <1>4, LevelsAreDefined DEF NextLevel
<1>6. Level(low)[1] = hashPair(low[1], low[2])
  <2>1. \A k \in 1 .. (Len(low) + 1) \div 2 :
          Level(low)[k] = IF 2 * k <= Len(low) THEN hashPair(low[2 * k - 1], low[2 * k]) ELSE low[2 * k - 1]
    BY <1>4, LevelShape
  <2>2. PICK len : len = Len(low)
    OBVIOUS
  <2>3. 1 \in 1 .. (len + 1) \div 2 /\ 2 * 1 <= len /\ 2 * 1 - 1 = 1 /\ 2 * 1 = 2
    BY ONLY <1>4, <2>2
  <2> QED  BY ONLY <2>1, <2>2, <2>3
<1>7. 1 \in 1 .. Len(Levels(A)[g]) /\ 1 \in 1 .. Len(Levels(B)[h - 1]) - 1
  <2>1. PICK len, one : len = Len(low) /\ one = Len(Levels(A)[g])
    OBVIOUS
  <2>2. one = 1 /\ len \in Nat \ {0, 1}
    BY <1>4, <2>1
  <2>3. 1 \in 1 .. one /\ 1 \in 1 .. len - 1
    BY ONLY <2>2
  <2> QED  BY ONLY <1>3, <2>1, <2>3, Zenon
<1>8. \A y : Levels(A)[g][1] # hashPair(Levels(B)[h - 1][1], y)
  BY ONLY <1>2, <1>7, A \in Seq(Leaf), B \in Seq(Leaf), A # <<>>, B # <<>>, g \in 0 .. Len(A), NodesHaveAHeight
<1> QED  BY <1>3, <1>5, <1>6, <1>8

(* Nor is a level of one longer than that of the other, if those above are *)
(* the same: a promoted node is not a pair of two nodes of its level.      *)
LEMMA NotLonger ==
  ASSUME NEW A \in Seq(Leaf), NEW B \in Seq(Leaf), A # <<>>, B # <<>>,
         NEW k \in 0 .. Len(A), k \in 0 .. Len(B),
         Level(Levels(A)[k]) = Level(Levels(B)[k])
  PROVE  ~ (Len(Levels(A)[k]) < Len(Levels(B)[k]))
<1> SUFFICES ASSUME Len(Levels(A)[k]) < Len(Levels(B)[k]) PROVE FALSE
  OBVIOUS
<1>1. /\ IsSequence(A) /\ IsSequence(B)
      /\ Len(A) \in Nat \ {0} /\ Len(B) \in Nat \ {0}
  BY DEF IsSequence
<1>2. PICK a, b, m, n : a = Levels(A)[k] /\ b = Levels(B)[k] /\ m = Len(a) /\ n = Len(b)
  OBVIOUS
<1>3. IsSequence(a) /\ IsSequence(b) /\ m \in Nat \ {0} /\ n \in Nat \ {0} /\ m < n
  BY <1>1, <1>2, LevelsShape
<1>4. PICK up, p : up = Level(a) /\ p = (m + 1) \div 2
  OBVIOUS
<1>5. /\ (m + 1) \div 2 = (n + 1) \div 2
      /\ \A x \in 1 .. p : up[x] = IF 2 * x <= m THEN hashPair(a[2 * x - 1], a[2 * x]) ELSE a[2 * x - 1]
      /\ \A x \in 1 .. p : up[x] = IF 2 * x <= n THEN hashPair(b[2 * x - 1], b[2 * x]) ELSE b[2 * x - 1]
  <2>1. up = Level(b)
    BY <1>2, <1>4
  <2>2. /\ Len(up) = (m + 1) \div 2
        /\ \A x \in 1 .. (m + 1) \div 2 :
             up[x] = IF 2 * x <= m THEN hashPair(a[2 * x - 1], a[2 * x]) ELSE a[2 * x - 1]
    BY <1>2, <1>3, <1>4, LevelShape
  <2>3. /\ Len(up) = (n + 1) \div 2
        /\ \A x \in 1 .. (n + 1) \div 2 :
             up[x] = IF 2 * x <= n THEN hashPair(b[2 * x - 1], b[2 * x]) ELSE b[2 * x - 1]
    BY <1>2, <1>3, <2>1, LevelShape
  <2> QED  BY ONLY <1>4, <2>2, <2>3
<1>6. p \in 1 .. p /\ ~ (2 * p <= m) /\ 2 * p <= n /\ 2 * p - 1 \in 1 .. m /\ 2 * p - 1 \in 1 .. n - 1
  BY ONLY <1>3, <1>4, <1>5
<1>7. a[2 * p - 1] = hashPair(b[2 * p - 1], b[2 * p])
  BY ONLY <1>5, <1>6
<1>8. k \in k .. Len(B)
  BY <1>1
<1>9. \A i \in 1 .. Len(Levels(A)[k]), j \in 1 .. Len(Levels(B)[k]) - 1 :
        \A y : Levels(A)[k][i] # hashPair(Levels(B)[k][j], y)
  BY <1>8, NodesHaveAHeight
<1> QED  BY ONLY <1>2, <1>6, <1>7, <1>9

(* So a root is the root of one list of entry hashes only, of any length.  *)
THEOREM RootBindsLeaves ==
  ASSUME NEW A \in Seq(Leaf), NEW B \in Seq(Leaf), A # <<>>, B # <<>>,
         buildMerkleRoot(A) = buildMerkleRoot(B)
  PROVE  A = B
<1>1. /\ IsSequence(A) /\ IsSequence(B)
      /\ Len(A) \in Nat \ {0} /\ Len(B) \in Nat \ {0}
  BY DEF IsSequence
<1>2. PICK g \in 0 .. Len(A) :
        /\ Len(Levels(A)[g]) = 1 /\ buildMerkleRoot(A) = Levels(A)[g][1]
        /\ \A k \in 0 .. Len(A) : k < g => Len(Levels(A)[k]) \in Nat \ {0, 1}
  BY <1>1, Height
<1>3. PICK h \in 0 .. Len(B) :
        /\ Len(Levels(B)[h]) = 1 /\ buildMerkleRoot(B) = Levels(B)[h][1]
        /\ \A k \in 0 .. Len(B) : k < h => Len(Levels(B)[k]) \in Nat \ {0, 1}
  BY <1>1, Height
<1>4. g = h
  <2>1. ASSUME g < h PROVE FALSE
    <3>1. Levels(A)[g][1] # Levels(B)[h][1]
      BY <1>2, <1>3, <2>1, NotHigher
    <3> QED  BY <1>2, <1>3, <3>1
  <2>2. ASSUME h < g PROVE FALSE
    <3>1. Levels(B)[h][1] # Levels(A)[g][1]
      BY ONLY <1>2, <1>3, <2>2, NotHigher, A \in Seq(Leaf), B \in Seq(Leaf), A # <<>>, B # <<>>
    <3> QED  BY <1>2, <1>3, <3>1
  <2> QED  BY <1>1, <2>1, <2>2
<1> DEFINE T == {k \in 0 .. h : Levels(A)[k] = Levels(B)[k]}
<1>5. h \in T
  <2>1. IsSequence(Levels(A)[h]) /\ IsSequence(Levels(B)[h])
    BY <1>1, <1>4, LevelsShape
  <2>2. Len(Levels(A)[h]) = Len(Levels(B)[h]) /\ Len(Levels(A)[h]) = 1 /\ Levels(A)[h][1] = Levels(B)[h][1]
    BY <1>2, <1>3, <1>4
  <2>3. \A i \in 1 .. Len(Levels(A)[h]) : Levels(A)[h][i] = Levels(B)[h][i]
    BY <2>2
  <2>4. Levels(A)[h] = Levels(B)[h]
    BY ONLY <2>1, <2>2, <2>3, SequencesAgree
  <2> QED  BY <1>1, <2>4
<1>6. PICK k \in T : \A j \in T : k <= j
  <2>1. T \subseteq Nat /\ T # {}
    BY <1>1, <1>5
  <2> QED  BY <2>1, Least
<1>7. k \in 0 .. h /\ Levels(A)[k] = Levels(B)[k]
  OBVIOUS
<1>8. k = 0
  <2> SUFFICES ASSUME k # 0 PROVE FALSE
    OBVIOUS
  <2>1. /\ k \in 1 .. Len(A) /\ k \in 1 .. Len(B) /\ k - 1 < g /\ k - 1 < h /\ ~ (k <= k - 1)
        /\ k - 1 \in 0 .. Len(A) /\ k - 1 \in 0 .. Len(B) /\ k - 1 \in 0 .. h
    BY ONLY <1>1, <1>4, <1>7, h \in 0 .. Len(B), g \in 0 .. Len(A), k # 0
  <2>2. PICK a, b : a = Levels(A)[k - 1] /\ b = Levels(B)[k - 1]
    OBVIOUS
  <2>3. /\ IsSequence(a) /\ IsSequence(b)
        /\ Len(a) \in Nat \ {0, 1} /\ Len(b) \in Nat \ {0, 1}
    <3>1. IsSequence(a) /\ IsSequence(b)
      BY <1>1, <2>1, <2>2, LevelsShape
    <3>2. Len(a) \in Nat \ {0, 1} /\ Len(b) \in Nat \ {0, 1}
      BY ONLY <1>2, <1>3, <2>1, <2>2
    <3> QED  BY <3>1, <3>2
  <2>4. Levels(A)[k] = Level(a) /\ Levels(B)[k] = Level(b)
    BY <1>1, <2>1, <2>2, <2>3, LevelsAreDefined DEF NextLevel
  <2>5. Level(a) = Level(b)
    BY <1>7, <2>4
  <2>6. ~ (Len(a) < Len(b)) /\ ~ (Len(b) < Len(a))
    BY <2>1, <2>2, <2>5, NotLonger
  <2>7. Len(a) = Len(b) /\ Len(a) \in Nat \ {0}
    BY ONLY <2>3, <2>6
  <2>8. a = b
    BY ONLY <2>3, <2>5, <2>7, LevelBinds
  <2>9. k - 1 \in T
    BY <2>1, <2>2, <2>8
  <2> QED  BY ONLY <1>6, <2>1, <2>9
<1>9. Levels(A)[0] = A /\ Levels(B)[0] = B
  BY <1>1, LevelsAreDefined
<1> QED  BY <1>7, <1>8, <1>9

(* What buildInclusionProof returns: the root of the same leaves, and a    *)
(* path that leads from the leaf to it.                                    *)
LEMMA ProofShape ==
  ASSUME NEW ls, IsSequence(ls), NEW i \in 1 .. Len(ls)
  PROVE  LET p == buildInclusionProof(ls, i - 1)
         IN  /\ p.leaf = ls[i]
             /\ p.root = buildMerkleRoot(ls)
             /\ IsSequence(p.path)
             /\ WalkUp(ls[i], p.path) = buildMerkleRoot(ls)
<1>1. Len(ls) \in Nat \ {0} /\ ls # <<>>
  BY DEF IsSequence
<1>2. PICK top : top = Climb(ls, i - 1)[Len(ls)]
  OBVIOUS
<1>3. top.level = Levels(ls)[Len(ls)] /\ OnPath(ls[i], top)
  <2>1. Len(ls) \in 0 .. Len(ls)
    BY <1>1
  <2> QED  BY <1>2, <2>1, ClimbShape
<1>4. Len(top.level) = 1 /\ buildMerkleRoot(ls) = top.level[1]
  BY <1>1, <1>3, TopOfLevels
<1>5. top.idx = 0
  BY <1>3, <1>4 DEF OnPath
<1>6. IsSequence(top.path) /\ WalkUp(ls[i], top.path) = top.level[1]
  BY <1>3, <1>5 DEF OnPath
<1>7. /\ buildInclusionProof(ls, i - 1) = [leaf |-> ls[(i - 1) + 1], path |-> top.path, root |-> top.level[1]]
      /\ (i - 1) + 1 = i
  BY <1>2 DEF buildInclusionProof
<1> QED  BY <1>4, <1>6, <1>7

--------------------------------------------------------------------------------
(* The day: its leaves are entry hashes, and a manifest is of such leaves. *)
DayInv ==
  /\ leaves \in Seq(Leaf)
  /\ anchored \in Seq(Leaf)
  /\ leaves = <<>> => anchored = <<>>

THEOREM DayInvariant == DaySpec => []DayInv
<1>1. DayInit => DayInv
  BY DEF DayInit, DayInv
<1>2. DayInv /\ [DayNext]_dayVars => DayInv'
  <2> SUFFICES ASSUME DayInv, [DayNext]_dayVars PROVE DayInv'
    OBVIOUS
  <2>1. ASSUME NEW l \in Leaf, Store(l) PROVE DayInv'
    <3>1. leaves' = Append(leaves, l) /\ anchored' = anchored
      BY <2>1 DEF Store
    <3>2. Append(leaves, l) \in Seq(Leaf) /\ Append(leaves, l) # <<>>
      BY DEF DayInv
    <3> QED  BY <3>1, <3>2 DEF DayInv
  <2>2. CASE Anchor
    BY <2>2 DEF Anchor, DayInv
  <2>3. CASE UNCHANGED dayVars
    BY <2>3 DEF dayVars, DayInv
  <2> QED  BY <2>1, <2>2, <2>3 DEF DayNext
<1> QED  BY <1>1, <1>2, PTL DEF DaySpec

LEMMA LeavesAreSequences ==
  ASSUME NEW s \in Seq(Leaf)
  PROVE  /\ IsSequence(s) /\ DOMAIN s = 1 .. Len(s)
         /\ \A i \in DOMAIN s : s # <<>>
  BY DEF IsSequence

(* Every proof verifies, whatever the number of leaves: the loop that      *)
(* makes the path and the loop that makes the root promote the same nodes. *)
THEOREM EveryProofVerifies == DaySpec => []EveryLeafIsProvable
<1>1. DayInv => EveryLeafIsProvable
  <2> SUFFICES ASSUME DayInv, NEW i \in DOMAIN leaves
               PROVE  verifyInclusionProof(buildInclusionProof(leaves, i - 1), buildMerkleRoot(leaves))
    BY DEF EveryLeafIsProvable
  <2>1. IsSequence(leaves) /\ i \in 1 .. Len(leaves)
    BY LeavesAreSequences DEF DayInv
  <2> QED  BY <2>1, ProofShape DEF verifyInclusionProof
<1> QED  BY <1>1, DayInvariant, PTL

(* No proof vouches for a leaf other than its own.                         *)
THEOREM ProofsBindTheirLeaf == DaySpec => []ProofBindsItsLeaf
<1>1. DayInv => ProofBindsItsLeaf
  <2> SUFFICES ASSUME DayInv, NEW i \in DOMAIN leaves, NEW l \in Leaf, l # leaves[i],
                      verifyInclusionProof([buildInclusionProof(leaves, i - 1) EXCEPT !.leaf = l],
                                           buildMerkleRoot(leaves))
               PROVE  FALSE
    BY DEF ProofBindsItsLeaf
  <2>1. IsSequence(leaves) /\ i \in 1 .. Len(leaves)
    BY LeavesAreSequences DEF DayInv
  <2>2. PICK p : p = buildInclusionProof(leaves, i - 1)
    OBVIOUS
  <2>3. IsSequence(p.path) /\ WalkUp(leaves[i], p.path) = buildMerkleRoot(leaves)
    BY <2>1, <2>2, ProofShape
  <2>4. PICK forged : forged = [p EXCEPT !.leaf = l]
    OBVIOUS
  <2>5. forged.leaf = l /\ forged.path = p.path
    BY <2>2, <2>4 DEF buildInclusionProof
  <2>6. WalkUp(l, p.path) = buildMerkleRoot(leaves)
    BY <2>2, <2>4, <2>5 DEF verifyInclusionProof
  <2> QED  BY <2>3, <2>6, WalkBindsLeaf
<1> QED  BY <1>1, DayInvariant, PTL

(* A proof of an earlier anchor does not pass for one of the day as it is  *)
(* after more entries: the two roots differ.                               *)
THEOREM EarlierProofsAreRefused == DaySpec => []OldProofsAreRefused
<1>1. DayInv => OldProofsAreRefused
  <2> SUFFICES ASSUME DayInv, NEW i \in DOMAIN anchored, anchored # leaves,
                      verifyInclusionProof(buildInclusionProof(anchored, i - 1), buildMerkleRoot(leaves))
               PROVE  FALSE
    BY DEF OldProofsAreRefused
  <2>1. IsSequence(anchored) /\ i \in 1 .. Len(anchored) /\ anchored # <<>>
    BY LeavesAreSequences DEF DayInv
  <2>2. buildInclusionProof(anchored, i - 1).root = buildMerkleRoot(anchored)
    BY <2>1, ProofShape
  <2>3. buildMerkleRoot(anchored) = buildMerkleRoot(leaves)
    BY <2>2 DEF verifyInclusionProof
  <2> QED  BY <2>1, <2>3, RootBindsLeaves DEF DayInv
<1> QED  BY <1>1, DayInvariant, PTL

(* Two lists of leaves with one manifest are one list.                     *)
THEOREM ManifestsBindTheirLeaves == DaySpec => []ManifestBindsLeaves
<1>1. DayInv => ManifestBindsLeaves
  <2> SUFFICES ASSUME DayInv, leaves # <<>>, NEW n \in 1 .. MaxLeaves, NEW ls \in [1 .. n -> Leaf],
                      buildAnchorManifest(ls) = buildAnchorManifest(leaves)
               PROVE  ls = leaves
    BY DEF ManifestBindsLeaves
  <2>1. ls \in Seq(Leaf) /\ Len(ls) = n /\ ls # <<>>
    <3>1. n \in Nat \ {0}
      OBVIOUS
    <3> QED  BY <3>1
  <2>2. buildMerkleRoot(ls) = buildMerkleRoot(leaves) /\ Len(ls) = Len(leaves)
    BY DEF buildAnchorManifest
  <2>3. leaves # <<>>
    BY <2>1, <2>2
  <2> QED  BY <2>1, <2>2, <2>3, RootBindsLeaves DEF DayInv
<1> QED  BY <1>1, DayInvariant, PTL
================================================================================

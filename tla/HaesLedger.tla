------------------------------- MODULE HaesLedger ------------------------------
(***************************************************************************)
(* The Hash-anchored Evidence Stream of packages/ariada-haes: HaesClient   *)
(* (client.ts) appends signed entries (attest.ts) to a storage backend     *)
(* (storage.ts) that several clients share; verify.ts checks the chain.    *)
(*                                                                         *)
(* `append' of the client is three steps with an await between them: read  *)
(* the tail, build and sign the entry, hand it to the backend.  Calls      *)
(* interleave at the awaits; the backend's own append is atomic.           *)
(*                                                                         *)
(* SHA-256 is taken to be collision-free.  The hash of an entry then       *)
(* identifies the entry and, through prev_hash, everything before it, so   *)
(* a hash is modelled by the list of contents it was computed over and     *)
(* hashing by Append.  A signature is the pair of key and hash.            *)
(***************************************************************************)
EXTENDS Integers, Sequences

CONSTANTS
  Call,         \* append calls, by all clients together
  Key,          \* signing key ids (payload.signing_key_id)
  Known,        \* the keys `resolveKey' of a verifier knows
  KeyOf,        \* KeyOf[c] = keyId of the client that makes call c
  Body,         \* the rest of a payload but its tags, which no hash covers
  Random,       \* the 80 random bits of a ULID
  MaxTime,      \* bound on the wall clock
  DayLength,    \* length of an anchor day in clock ticks
  None          \* an optional input field that is absent

ASSUME ConstantsAssumption ==
  /\ Known \subseteq Key
  /\ KeyOf \in [Call -> Known]
  /\ MaxTime \in Nat
  /\ DayLength \in Nat \ {0}
  /\ None \notin 0 .. MaxTime
  /\ None \notin (0 .. MaxTime) \X Random

VARIABLES
  clock,        \* Date.now()
  entries,      \* InMemoryStorage.entries (byId is its index by entry_id)
  pc,           \* where each call is: idle, read, built, done or failed
  input,        \* the AppendInput of each call
  prev,         \* the `prev' each call computed from the tail it read
  built,        \* the entry each call built; once done, the one it returned
  seen          \* history: how many entries there were when a call read the tail

vars == <<clock, entries, pc, input, prev, built, seen>>

Time == 0 .. MaxTime

EntryId == Time \X Random

Payload == [body : Body, signing_key_id : Key]

Content == [entry_id : EntryId, timestamp : Time, payload : Payload]

Hash == Seq(Content)

GENESIS_PREV_HASH == <<>>

Entry ==
  [entry_id : EntryId, timestamp : Time, payload : Payload,
   prev_hash : Hash, entry_hash : Hash, signature : [key : Key, hash : Hash]]

AppendInput == [entry_id : EntryId \union {None},
                timestamp : Time \union {None}, payload : Payload]

CONSTANT Inputs   \* the inputs callers pass

ASSUME InputsAssumption == Inputs \subseteq AppendInput

--------------------------------------------------------------------------------
(***************************************************************************)
(* attest.ts and id.ts                                                     *)
(***************************************************************************)

ContentOf(e) ==
  [entry_id |-> e.entry_id, timestamp |-> e.timestamp, payload |-> e.payload]

computeEntryHash(e) == Append(e.prev_hash, ContentOf(e))

signEntryHash(hash, key) == [key |-> key, hash |-> hash]

(* A ULID is its millisecond followed by its random part.                  *)
ulid(ms, r) == <<ms, r>>

Attested(id, ts, payload, prevHash, key) ==
  LET pre == [entry_id |-> id, timestamp |-> ts, payload |-> payload,
              prev_hash |-> prevHash]
  IN  [entry_id   |-> id,
       timestamp  |-> ts,
       payload    |-> payload,
       prev_hash  |-> prevHash,
       entry_hash |-> computeEntryHash(pre),
       signature  |-> signEntryHash(computeEntryHash(pre), key)]

--------------------------------------------------------------------------------
(***************************************************************************)
(* storage.ts: the tail, the byId index and the range query (the positions *)
(* of its entries, which it returns in the order they are stored).         *)
(***************************************************************************)

LastHash(es) ==
  IF es = <<>> THEN GENESIS_PREV_HASH ELSE es[Len(es)].entry_hash

Holding(es, id) == {i \in DOMAIN es : es[i].entry_id = id}

getEntriesInRange(es, from, to) ==
  {i \in DOMAIN es : from <= es[i].timestamp /\ es[i].timestamp < to}

(* Mutant: storage does not compare timestamps. *)
MonotonicWith_Unchecked(es, e) == TRUE

MonotonicWith(es, e) ==
  es # <<>> => es[Len(es)].timestamp <= e.timestamp

(***************************************************************************)
(* verify.ts: the verdict of verifyChain is `valid' when every entry has a *)
(* known key, links to its predecessor, hashes to its stored hash, and     *)
(* bears a signature of that hash under the key its payload names.         *)
(***************************************************************************)

(* Mutant: the verifier forgets the link to the previous entry. *)
verifyEntry_NoLink(e, expectedPrev) ==
  /\ computeEntryHash(e) = e.entry_hash
  /\ e.signature = [key |-> e.payload.signing_key_id, hash |-> e.entry_hash]

verifyEntry(e, expectedPrev) ==
  /\ e.prev_hash = expectedPrev
  /\ computeEntryHash(e) = e.entry_hash
  /\ e.signature = [key |-> e.payload.signing_key_id, hash |-> e.entry_hash]

verifyChain(es) ==
  \A i \in DOMAIN es :
    /\ es[i].payload.signing_key_id \in Known
    /\ verifyEntry(es[i], IF i = 1 THEN GENESIS_PREV_HASH
                                   ELSE es[i - 1].entry_hash)

--------------------------------------------------------------------------------
NoEntry ==
  [entry_id |-> None, timestamp |-> None, payload |-> None,
   prev_hash |-> <<>>, entry_hash |-> <<>>, signature |-> None]

NoInput == [entry_id |-> None, timestamp |-> None, payload |-> None]

Init ==
  /\ clock = 0
  /\ entries = <<>>
  /\ pc = [c \in Call |-> "idle"]
  /\ input = [c \in Call |-> NoInput]
  /\ prev = [c \in Call |-> GENESIS_PREV_HASH]
  /\ built = [c \in Call |-> NoEntry]
  /\ seen = [c \in Call |-> 0]

(* Mutant: every entry is built on the genesis hash. *)
ReadTail_Genesis(c, in) ==
  /\ pc[c] = "idle"
  /\ pc' = [pc EXCEPT ![c] = "read"]
  /\ input' = [input EXCEPT ![c] = in]
  /\ prev' = [prev EXCEPT ![c] = GENESIS_PREV_HASH]
  /\ seen' = [seen EXCEPT ![c] = Len(entries)]
  /\ UNCHANGED <<clock, entries, built>>

(* HaesClient.append up to `await this.storage.getLatestEntry()'.          *)
ReadTail(c, in) ==
  /\ pc[c] = "idle"
  /\ pc' = [pc EXCEPT ![c] = "read"]
  /\ input' = [input EXCEPT ![c] = in]
  /\ prev' = [prev EXCEPT ![c] = LastHash(entries)]
  /\ seen' = [seen EXCEPT ![c] = Len(entries)]
  /\ UNCHANGED <<clock, entries, built>>

(* buildEntry refuses a payload that names another key.                    *)
RefuseKey(c) ==
  /\ pc[c] = "read"
  /\ input[c].payload.signing_key_id # KeyOf[c]
  /\ pc' = [pc EXCEPT ![c] = "failed"]
  /\ UNCHANGED <<clock, entries, input, prev, built, seen>>

(* buildEntry fills in the time and the identifier, hashes and signs.      *)
(* Eighty random bits are not drawn twice.                                 *)
BuildEntry(c, r) ==
  LET ts == IF input[c].timestamp = None THEN clock ELSE input[c].timestamp
      id == IF input[c].entry_id = None THEN ulid(ts, r) ELSE input[c].entry_id
  IN  /\ pc[c] = "read"
      /\ input[c].payload.signing_key_id = KeyOf[c]
      /\ input[c].entry_id = None =>
           \A d \in Call : id \notin {input[d].entry_id, built[d].entry_id}
      /\ pc' = [pc EXCEPT ![c] = "built"]
      /\ built' = [built EXCEPT
                     ![c] = Attested(id, ts, input[c].payload, prev[c], KeyOf[c])]
      /\ UNCHANGED <<clock, entries, input, prev, seen>>

(* Mutant: a repeated identifier returns the caller's entry unstored. *)
StoreExisting_ReturnsOwn(c) ==
  /\ pc[c] = "built"
  /\ Holding(entries, built[c].entry_id) # {}
  /\ pc' = [pc EXCEPT ![c] = "done"]
  /\ UNCHANGED <<clock, entries, input, prev, built, seen>>

(* storage.append: a known identifier returns the entry stored first.      *)
StoreExisting(c) ==
  /\ pc[c] = "built"
  /\ \E i \in Holding(entries, built[c].entry_id) :
       built' = [built EXCEPT ![c] = entries[i]]
  /\ pc' = [pc EXCEPT ![c] = "done"]
  /\ UNCHANGED <<clock, entries, input, prev, seen>>

(* Mutant: a timestamp in the past is neither stored nor refused. *)
StoreRejected_LinkOnly(c) ==
  /\ pc[c] = "built"
  /\ Holding(entries, built[c].entry_id) = {}
  /\ built[c].prev_hash # LastHash(entries)
  /\ pc' = [pc EXCEPT ![c] = "failed"]
  /\ UNCHANGED <<clock, entries, input, prev, built, seen>>

(* storage.append throws: the tail moved, or time would run backwards.     *)
StoreRejected(c) ==
  /\ pc[c] = "built"
  /\ Holding(entries, built[c].entry_id) = {}
  /\ \/ built[c].prev_hash # LastHash(entries)
     \/ ~ MonotonicWith(entries, built[c])
  /\ pc' = [pc EXCEPT ![c] = "failed"]
  /\ UNCHANGED <<clock, entries, input, prev, built, seen>>

(* Mutant: storage does not look the identifier up. *)
StoreAppended_NoLookup(c) ==
  /\ pc[c] = "built"
  /\ built[c].prev_hash = LastHash(entries)
  /\ MonotonicWith(entries, built[c])
  /\ entries' = Append(entries, built[c])
  /\ pc' = [pc EXCEPT ![c] = "done"]
  /\ UNCHANGED <<clock, input, prev, built, seen>>

(* Mutant: storage does not compare prev_hash with its tail. *)
StoreAppended_NoLinkCheck(c) ==
  /\ pc[c] = "built"
  /\ Holding(entries, built[c].entry_id) = {}
  /\ MonotonicWith(entries, built[c])
  /\ entries' = Append(entries, built[c])
  /\ pc' = [pc EXCEPT ![c] = "done"]
  /\ UNCHANGED <<clock, input, prev, built, seen>>

StoreAppended(c) ==
  /\ pc[c] = "built"
  /\ Holding(entries, built[c].entry_id) = {}
  /\ built[c].prev_hash = LastHash(entries)
  /\ MonotonicWith(entries, built[c])
  /\ entries' = Append(entries, built[c])
  /\ pc' = [pc EXCEPT ![c] = "done"]
  /\ UNCHANGED <<clock, input, prev, built, seen>>

(* The wall clock moves, and may be set back.                              *)
Tick ==
  /\ clock' \in Time \ {clock}
  /\ UNCHANGED <<entries, pc, input, prev, built, seen>>

Proceed(c) ==
  \/ RefuseKey(c)
  \/ \E r \in Random : BuildEntry(c, r)
  \/ StoreExisting(c)
  \/ StoreRejected(c)
  \/ StoreAppended(c)

Next ==
  \/ \E c \in Call, in \in Inputs : ReadTail(c, in)
  \/ \E c \in Call : Proceed(c)
  \/ Tick

Spec == Init /\ [][Next]_vars

(* A call that has begun is carried on by the event loop.                  *)
Fairness == \A c \in Call : WF_vars(Proceed(c))

FairSpec == Spec /\ Fairness

--------------------------------------------------------------------------------
(***************************************************************************)
(* Properties                                                              *)
(***************************************************************************)

(* Every variable has its type; a call past a step has what it computed.   *)
TypeOK ==
  /\ clock \in Time
  /\ entries \in Seq(Entry)
  /\ pc \in [Call -> {"idle", "read", "built", "done", "failed"}]
  /\ input \in [Call -> AppendInput \union {NoInput}]
  /\ \A c \in Call : pc[c] # "idle" => input[c] \in AppendInput
  /\ prev \in [Call -> Hash]
  /\ built \in [Call -> Entry \union {NoEntry}]
  /\ \A c \in Call : pc[c] \in {"built", "done"} => built[c] \in Entry
  /\ seen \in [Call -> Nat]

(* However clients interleave at their awaits, what storage holds passes   *)
(* verifyChain: the optimistic check of prev_hash in storage.append lets   *)
(* through only an entry built on the present tail, and buildEntry only a  *)
(* payload whose signature will verify (storage.ts:41-48, attest.ts:99).   *)
ChainVerifies == verifyChain(entries)

(* An identifier is stored once, however often a caller repeats a request  *)
(* with it (storage.ts:36-40).                                             *)
OneEntryPerId ==
  \A i, j \in DOMAIN entries :
    entries[i].entry_id = entries[j].entry_id => i = j

(* A caller told that its append succeeded holds an entry that is in the   *)
(* chain under the identifier it asked for; the entry bears its payload    *)
(* unless some caller chose that identifier itself (client.ts:60-61).      *)
AckedIsStored ==
  \A c \in Call : pc[c] = "done" =>
    /\ \E i \in DOMAIN entries : entries[i] = built[c]
    /\ input[c].entry_id # None => built[c].entry_id = input[c].entry_id
    /\ built[c].payload # input[c].payload
         => \E d \in Call : input[d].entry_id = built[c].entry_id

(* verify.ts detects every loss but that of the newest entries: stored     *)
(* entries that are picked out, in whatever order and however often each,  *)
(* pass verifyChain only if they are the first ones in their order, and no *)
(* stored entry can be given another payload.                              *)
LossIsDetected ==
  /\ \A n \in 0 .. Len(entries) + 1 : \A kept \in [1 .. n -> DOMAIN entries] :
       verifyChain([k \in 1 .. n |-> entries[kept[k]]]) => \A k \in 1 .. n : kept[k] = k
  /\ \A i \in DOMAIN entries, p \in Payload :
       p # entries[i].payload => ~ verifyChain([entries EXCEPT ![i].payload = p])

GrowsAtEnd ==
  /\ Len(entries') >= Len(entries)
  /\ SubSeq(entries', 1, Len(entries)) = entries

(* The chain only grows at its end: no step changes, drops or reorders an  *)
(* entry somebody may have verified or anchored already.                   *)
AppendOnly == [][GrowsAtEnd]_entries

Day(d) == getEntriesInRange(entries, d * DayLength, (d + 1) * DayLength)

Closed(d) == \E i \in DOMAIN entries : (d + 1) * DayLength <= entries[i].timestamp

ClosedDaysStay ==
  \A d \in 0 .. (MaxTime \div DayLength) : Closed(d) => Day(d)' = Day(d)

(* The leaves a daily anchor is built over (anchor.ts) are final once an   *)
(* entry of a later day is stored, although an entry may be built long     *)
(* before it is stored and callers may pass timestamps of their own: the   *)
(* monotonic check of storage.ts:49 keeps stragglers out.                  *)
DaySealedByLaterEntry == [][ClosedDaysStay]_entries

Overtaken(c) ==
  \E d \in Call \ {c} :
    /\ pc[d] = "done"
    /\ \E i \in seen[c] + 1 .. Len(entries) : entries[i] = built[d]

LosersWereOvertaken ==
  \A c \in Call :
    /\ pc[c] = "built"
    /\ pc'[c] = "failed"
    /\ MonotonicWith(entries, built[c])
    => Overtaken(c)

(* An append is turned away for its prev_hash only because another call    *)
(* stored an entry after it read the tail: a lone client never sees the    *)
(* error, and of racing clients one succeeds (client.ts:51, storage.ts:43).*)
RejectedOnlyWhenOvertaken == [][LosersWereOvertaken]_pc

(* Every append that is begun returns or throws.                           *)
AppendReturns ==
  \A c \in Call : pc[c] = "read" ~> pc[c] \in {"done", "failed"}

(* The ledger implements the list of records it promises.                  *)
Promise ==
  INSTANCE EvidenceLog WITH
    log   <- [i \in DOMAIN entries |-> ContentOf(entries[i])],
    acked <- {built[c].entry_id : c \in {d \in Call : pc[d] = "done"}}

(* Every step of clients and storage is a record accepted, a confirmation  *)
(* of one, or invisible to the callers of the abstract list.               *)
ImplementsEvidenceLog == Promise!Spec
================================================================================

------------------------------ MODULE EvidenceLog ------------------------------
(***************************************************************************)
(* What the HAES evidence ledger promises its callers, without clients,    *)
(* hashes, keys or retries: one growing list of records in which an        *)
(* identifier is recorded once and time never runs backwards, and an       *)
(* acknowledgement is given only for a record that is on the list.         *)
(***************************************************************************)
EXTENDS Integers, Sequences

CONSTANTS EntryId, Time, Payload

VARIABLES
  log,      \* the records in the order they were accepted
  acked     \* identifiers whose append has been acknowledged to a caller

vars == <<log, acked>>

Record == [entry_id : EntryId, timestamp : Time, payload : Payload]

Recorded == {log[i].entry_id : i \in DOMAIN log}

TypeOK ==
  /\ log \in Seq(Record)
  /\ acked \subseteq Recorded

Init ==
  /\ log = <<>>
  /\ acked = {}

(* A new record is accepted and acknowledged. *)
Accept(r) ==
  /\ r.entry_id \notin Recorded
  /\ log # <<>> => log[Len(log)].timestamp <= r.timestamp
  /\ log' = Append(log, r)
  /\ acked' = acked \union {r.entry_id}

(* A repeated request for a recorded identifier is acknowledged again. *)
Confirm(id) ==
  /\ id \in Recorded
  /\ acked' = acked \union {id}
  /\ UNCHANGED log

Next ==
  \/ \E r \in Record : Accept(r)
  \/ \E id \in EntryId : Confirm(id)

Spec == Init /\ [][Next]_vars
================================================================================

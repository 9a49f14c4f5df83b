------------------------------ MODULE ScanBackend ------------------------------
(***************************************************************************)
(* The scan pipeline of packages/scan-backend/src/router.ts: POST /api/scan *)
(* queues a scan and hands it to a worker over NATS; the worker posts the  *)
(* events of the scan back to POST /api/scan/:id/event, whose handler      *)
(* stores them, records the outcome, issues a scorecard and forwards the   *)
(* event to listeners.  A handler awaits the database between its writes,  *)
(* so handlers interleave, and any call may fail half-way.                 *)
(*                                                                         *)
(* External: NATS (publish only, at most once) and the worker, which posts *)
(* the events in order, posts one again when it is not sure of the answer, *)
(* and may fail to deliver one.  A post that the handler refuses for its   *)
(* signature, its body or its scan id changes nothing and is left out.     *)
(***************************************************************************)
EXTENDS ScanEvents, FiniteSets

CONSTANTS
  Scan,       \* scan ids (ULIDs)
  Attempt,    \* posts of the worker; also the slugs they would draw
  Scripts,    \* the event sequences a scan may produce
  MaxSeq      \* bound on the sequence number of an element event

ASSUME ConstantsAssumption ==
  /\ MaxSeq \in Nat
  /\ Scripts \subseteq Seq(ScanEvent(MaxSeq))

VARIABLES
  req,          \* POST /api/scan of each scan: idle, publish, accepted, error
  row,          \* table scans: the status of the scan's row, or absent
  queue,        \* NATS: scans published and not yet taken
  script,       \* worker: the events of the scan it runs, <<>> before that
  next,         \* worker: index of the event it posts now
  pc,           \* where the handler of each post is
  on,           \* the scan and the event of each post
  eventRows,    \* table scan_events, by scan and seq
  scorecards,   \* table scorecards: slug and scan
  forwarded,    \* what publishEvent was called with
  completed     \* history: the scans whose row has been complete

worker == <<queue, script, next>>

scans == <<row, completed>>

db == <<scans, eventRows, scorecards>>

vars == <<req, worker, pc, on, db, forwarded>>

Event == ScanEvent(MaxSeq)

Post == [scan : Scan, event : Event]

(* The handler's key for an event: its seq if it has one, else 0.          *)
SeqOf(e) == IF e.kind = "element_scan" THEN e.seq ELSE 0

Init ==
  /\ req = [s \in Scan |-> "idle"]
  /\ row = [s \in Scan |-> "absent"]
  /\ queue = {}
  /\ script = [s \in Scan |-> <<>>]
  /\ next = [s \in Scan |-> 1]
  /\ pc = [a \in Attempt |-> "idle"]
  /\ on = [a \in Attempt |-> None]
  /\ eventRows = [s \in Scan |-> [n \in 0 .. MaxSeq |-> None]]
  /\ scorecards = {}
  /\ forwarded = {}
  /\ completed = {}

--------------------------------------------------------------------------------
(***************************************************************************)
(* POST /api/scan, once the request has passed Turnstile, the limiter and  *)
(* robots.txt                                                              *)
(***************************************************************************)

(* Mutant: a failed INSERT is swallowed. *)
InsertScan_Swallowed(s) ==
  /\ req[s] = "idle"
  /\ req' = [req EXCEPT ![s] = "publish"]
  /\ \/ row' = [row EXCEPT ![s] = "queued"]
     \/ UNCHANGED row
  /\ UNCHANGED <<worker, pc, on, completed, eventRows, scorecards, forwarded>>

InsertScan(s) ==
  /\ req[s] = "idle"
  /\ req' = [req EXCEPT ![s] = "publish"]
  /\ row' = [row EXCEPT ![s] = "queued"]
  /\ UNCHANGED <<worker, pc, on, completed, eventRows, scorecards, forwarded>>

PublishScan(s) ==
  /\ req[s] = "publish"
  /\ req' = [req EXCEPT ![s] = "accepted"]
  /\ queue' = queue \union {s}
  /\ UNCHANGED <<db, script, next, pc, on, forwarded>>

(* The INSERT throws: the row may be there or not.                         *)
InsertFails(s) ==
  /\ req[s] = "idle"
  /\ req' = [req EXCEPT ![s] = "error"]
  /\ row' \in {row, [row EXCEPT ![s] = "queued"]}
  /\ UNCHANGED <<worker, pc, on, completed, eventRows, scorecards, forwarded>>

(* The publish throws: the row stays queued, and NATS may have the message *)
(* or not.                                                                 *)
PublishFails(s) ==
  /\ req[s] = "publish"
  /\ req' = [req EXCEPT ![s] = "error"]
  /\ queue' \in {queue, queue \union {s}}
  /\ UNCHANGED <<db, script, next, pc, on, forwarded>>

--------------------------------------------------------------------------------
(***************************************************************************)
(* NATS and the worker                                                     *)
(***************************************************************************)

LoseMessage(s) ==
  /\ s \in queue
  /\ queue' = queue \ {s}
  /\ UNCHANGED <<req, db, script, next, pc, on, forwarded>>

TakeScan(s, es) ==
  /\ s \in queue
  /\ queue' = queue \ {s}
  /\ script' = [script EXCEPT ![s] = es]
  /\ UNCHANGED <<req, db, next, pc, on, forwarded>>

PostEvent(a, s) ==
  /\ pc[a] = "idle"
  /\ next[s] \in DOMAIN script[s]
  /\ pc' = [pc EXCEPT ![a] = "persist"]
  /\ on' = [on EXCEPT ![a] = [scan |-> s, event |-> script[s][next[s]]]]
  /\ UNCHANGED <<req, db, worker, forwarded>>

(* The worker has had its answer, gives up waiting for it, or could not    *)
(* deliver the event at all.                                               *)
NextEvent(s) ==
  /\ next[s] \in DOMAIN script[s]
  /\ next' = [next EXCEPT ![s] = @ + 1]
  /\ UNCHANGED <<req, db, queue, script, pc, on, forwarded>>

--------------------------------------------------------------------------------
(***************************************************************************)
(* POST /api/scan/:id/event                                                *)
(***************************************************************************)

AfterPersist(e) ==
  CASE e = Complete -> "complete"
    [] e = Failure  -> "fail"
    [] OTHER        -> "forward"

(* Mutant: the event is forwarded before its outcome is recorded. *)
PersistEvent_ForwardsFirst(a) ==
  LET s == on[a].scan
      e == on[a].event
  IN  /\ pc[a] = "persist"
      /\ eventRows' = IF eventRows[s][SeqOf(e)] = None
                      THEN [eventRows EXCEPT ![s][SeqOf(e)] = e]
                      ELSE eventRows
      /\ pc' = [pc EXCEPT ![a] = AfterPersist(e)]
      /\ forwarded' = forwarded \union {on[a]}
      /\ UNCHANGED <<req, scans, worker, on, scorecards>>

(* INSERT INTO scan_events ... ON CONFLICT (scan_id, seq) DO NOTHING       *)
PersistEvent(a) ==
  LET s == on[a].scan
      e == on[a].event
  IN  /\ pc[a] = "persist"
      /\ eventRows' = IF eventRows[s][SeqOf(e)] = None
                      THEN [eventRows EXCEPT ![s][SeqOf(e)] = e]
                      ELSE eventRows
      /\ pc' = [pc EXCEPT ![a] = AfterPersist(e)]
      /\ UNCHANGED <<req, scans, worker, on, scorecards, forwarded>>

(* UPDATE scans SET status = ... WHERE id = ...                            *)
SetStatus(s, status) ==
  IF row[s] = "absent" THEN UNCHANGED scans
  ELSE /\ row' = [row EXCEPT ![s] = status]
       /\ completed' = IF status = "complete" THEN completed \union {s} ELSE completed

(* Mutant: the status is left to a later step. *)
UpdateComplete_Skipped(a) ==
  /\ pc[a] = "complete"
  /\ pc' = [pc EXCEPT ![a] = "select"]
  /\ UNCHANGED <<req, db, worker, on, forwarded>>

UpdateComplete(a) ==
  /\ pc[a] = "complete"
  /\ SetStatus(on[a].scan, "complete")
  /\ pc' = [pc EXCEPT ![a] = "select"]
  /\ UNCHANGED <<req, worker, on, eventRows, scorecards, forwarded>>

UpdateFailed(a) ==
  /\ pc[a] = "fail"
  /\ SetStatus(on[a].scan, "failed")
  /\ pc' = [pc EXCEPT ![a] = "forward"]
  /\ UNCHANGED <<req, worker, on, eventRows, scorecards, forwarded>>

(* SELECT url FROM scans: without a row there is no scorecard.             *)
SelectScan(a) ==
  /\ pc[a] = "select"
  /\ pc' = [pc EXCEPT ![a] = IF row[on[a].scan] = "absent" THEN "forward" ELSE "insert"]
  /\ UNCHANGED <<req, db, worker, on, forwarded>>

(* The slug is drawn afresh by every handler.                              *)
InsertScorecard(a) ==
  /\ pc[a] = "insert"
  /\ scorecards' = scorecards \union {[slug |-> a, scan |-> on[a].scan]}
  /\ pc' = [pc EXCEPT ![a] = "forward"]
  /\ UNCHANGED <<req, scans, worker, on, eventRows, forwarded>>

(* publishEvent, and the answer 200.                                       *)
ForwardEvent(a) ==
  /\ pc[a] = "forward"
  /\ forwarded' = forwarded \union {on[a]}
  /\ pc' = [pc EXCEPT ![a] = "ok"]
  /\ UNCHANGED <<req, db, worker, on>>

Handling(a) == pc[a] \in {"persist", "complete", "fail", "select", "insert", "forward"}

(* A call throws, or the process dies: what is written stays written.      *)
HandlerFails(a) ==
  /\ Handling(a)
  /\ pc' = [pc EXCEPT ![a] = "failed"]
  /\ UNCHANGED <<req, db, worker, on, forwarded>>

Handle(a) ==
  \/ PersistEvent(a)
  \/ UpdateComplete(a)
  \/ UpdateFailed(a)
  \/ SelectScan(a)
  \/ InsertScorecard(a)
  \/ ForwardEvent(a)

Next ==
  \/ \E s \in Scan :
       \/ InsertScan(s)
       \/ PublishScan(s)
       \/ InsertFails(s)
       \/ PublishFails(s)
       \/ LoseMessage(s)
       \/ \E es \in Scripts : TakeScan(s, es)
       \/ NextEvent(s)
       \/ \E a \in Attempt : PostEvent(a, s)
  \/ \E a \in Attempt : Handle(a) \/ HandlerFails(a)

Spec == Init /\ [][Next]_vars

--------------------------------------------------------------------------------
(* Every variable has its type.                                            *)
TypeOK ==
  /\ req \in [Scan -> {"idle", "publish", "accepted", "error"}]
  /\ row \in [Scan -> {"absent", "queued", "complete", "failed"}]
  /\ queue \subseteq Scan
  /\ script \in [Scan -> Scripts \union {<<>>}]
  /\ next \in [Scan -> Nat \ {0}]
  /\ pc \in [Attempt -> {"idle", "persist", "complete", "fail", "select", "insert",
                         "forward", "ok", "failed"}]
  /\ on \in [Attempt -> Post \union {None}]
  /\ \A a \in Attempt : pc[a] # "idle" => on[a] \in Post
  /\ eventRows \in [Scan -> [0 .. MaxSeq -> Event \union {None}]]
  /\ scorecards \subseteq [slug : Attempt, scan : Scan]
  /\ forwarded \subseteq Post
  /\ completed \subseteq Scan

(* The outcomes the worker has reported of a scan.                         *)
Outcomes(s) ==
  {o \in {"complete", "failed"} : \E a \in Attempt :
     /\ pc[a] # "idle"
     /\ on[a] = [scan |-> s, event |-> IF o = "complete" THEN Complete ELSE Failure]}

HasCard(s) == \E c \in scorecards : c.scan = s

(* A scan_complete that was answered 200 has left the scan ended and a     *)
(* scorecard behind: complete, unless its scan_error was posted too, which *)
(* the handler takes without a look at the status (router.ts:222).  The    *)
(* handler quietly issues no scorecard when it finds no row (router.ts:199): *)
(* it always finds one, because the request was published only after its   *)
(* INSERT.                                                                 *)
AckedCompleteHasScorecard ==
  \A a \in Attempt : pc[a] = "ok" /\ on[a].event = Complete =>
    row[on[a].scan] \in Outcomes(on[a].scan) /\ HasCard(on[a].scan)

(* A listener that is told of the end of a scan finds it recorded: the     *)
(* status is an outcome that was reported, the one it is told of unless    *)
(* both were, and if it is told that the scan completed there is a         *)
(* scorecard, however retries of the worker overlap and fail               *)
(* (router.ts:232).                                                        *)
ForwardedAfterRecorded ==
  \A p \in forwarded : p.event \in Terminal =>
    /\ row[p.scan] \in Outcomes(p.scan)
    /\ p.event = Complete => HasCard(p.scan)

Lifecycle ==
  INSTANCE ScanLifecycle WITH
    Slug <- Attempt, status <- row, cards <- scorecards,
    reported <- [s \in Scan |-> Outcomes(s)]

(* Seen from outside, a scan is queued and shows an outcome that was       *)
(* reported, so it ends once unless the worker reports both, as            *)
(* core-engine does when a listener throws on scan_complete                *)
(* (orchestrator.ts:124-142); scorecards are for scans that have been      *)
(* complete.  Duplicates, overlaps and half-done handlers do not show.     *)
ImplementsScanLifecycle == Lifecycle!Spec
================================================================================

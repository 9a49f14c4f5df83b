---------------------------- MODULE ScanBackendProofs --------------------------
(***************************************************************************)
(* Proofs about ScanBackend, for every set of scans, of posts and of       *)
(* scripts.  A scan that has been posted was published, so it has a row;   *)
(* once the row shows an outcome it shows one for good, and only one that  *)
(* was posted: that carries both safety properties and the refinement of   *)
(* ScanLifecycle.                                                          *)
(***************************************************************************)
EXTENDS ScanBackend, TLAPS

Ended(s) == row[s] \in {"complete", "failed"}

(* The outcome a post brings is in the tables. *)
Recorded(p) ==
  p.event \in Terminal =>
    /\ Ended(p.scan)
    /\ p.event = Complete => HasCard(p.scan)

(* A scan is inserted, published, queued and taken in this order. *)
InOrder ==
  \A s \in Scan :
    /\ req[s] = "idle" => row[s] = "absent"
    /\ req[s] \in {"publish", "accepted"} => row[s] # "absent"
    /\ s \in queue => req[s] # "publish" /\ row[s] # "absent" /\ script[s] = <<>>
    /\ script[s] # <<>> => req[s] # "publish" /\ row[s] # "absent"

(* Only events of a scan that was taken are posted. *)
PostsOfTaken ==
  \A a \in Attempt : pc[a] # "idle" => script[on[a].scan] # <<>>

(* A scan has ended only in a way that was reported. *)
EndsAsReported == \A s \in Scan : Ended(s) => row[s] \in Outcomes(s)

(* What the place of a handler in the code says of the tables. *)
StagedAt(a) ==
  /\ pc[a] \in {"complete", "select", "insert"} => on[a].event = Complete
  /\ pc[a] = "fail" => on[a].event = Failure
  /\ pc[a] \in {"select", "insert"} => Ended(on[a].scan) /\ on[a].scan \in completed
  /\ pc[a] \in {"forward", "ok"} => Recorded(on[a])

Staged == \A a \in Attempt : StagedAt(a)

SlugsAreDrawn ==
  \A c \in scorecards : pc[c.slug] \in {"forward", "ok", "failed"}

ForwardsRecorded == \A p \in forwarded : Recorded(p)

(* The inductive invariant. *)
IInv == /\ TypeOK /\ InOrder /\ PostsOfTaken /\ EndsAsReported
        /\ Staged /\ SlugsAreDrawn /\ ForwardsRecorded

--------------------------------------------------------------------------------
(***************************************************************************)
(* Types                                                                   *)
(***************************************************************************)

Statuses == {"idle", "persist", "complete", "fail", "select", "insert",
             "forward", "ok", "failed"}

(* What is posted next is an event.                                        *)
LEMMA ScriptedIsEvent ==
  ASSUME TypeOK, NEW s \in Scan, next[s] \in DOMAIN script[s]
  PROVE  script[s][next[s]] \in Event
<1>1. script[s] \in Seq(ScanEvent(MaxSeq))
  <2>1. script[s] \in Scripts \union {<<>>}
    BY DEF TypeOK
  <2>2. <<>> \in Seq(ScanEvent(MaxSeq))
    OBVIOUS
  <2> QED  BY <2>1, <2>2, ConstantsAssumption
<1> QED  BY <1>1 DEF Event

(* A post under way is a post.                                             *)
LEMMA HandledIsPost ==
  ASSUME TypeOK, NEW a \in Attempt, pc[a] # "idle"
  PROVE  on[a] \in Post /\ on[a].scan \in Scan /\ on[a].event \in Event
  BY DEF TypeOK, Post

LEMMA SeqOfInRange ==
  ASSUME NEW e \in Event
  PROVE  SeqOf(e) \in 0 .. MaxSeq
<1>1. MaxSeq \in Nat
  BY ConstantsAssumption
<1>2. CASE e \in {Started, Complete, Failure}
  <2>1. e.kind # "element_scan"
    BY <1>2 DEF Started, Complete, Failure
  <2> QED  BY <1>1, <2>1 DEF SeqOf
<1>3. CASE \E i \in 0 .. MaxSeq : e = Element(i)
  <2>1. PICK i \in 0 .. MaxSeq : e = Element(i)
    BY <1>3
  <2>2. e.seq = i
    BY <2>1 DEF Element
  <2> QED  BY <1>1, <2>2 DEF SeqOf
<1> QED  BY <1>2, <1>3 DEF Event, ScanEvent

(* Storing an event keeps the type of the table.                           *)
LEMMA StoredEventTyped ==
  ASSUME TypeOK, NEW s \in Scan, NEW n \in 0 .. MaxSeq, NEW e \in Event
  PROVE  [eventRows EXCEPT ![s][n] = e] \in [Scan -> [0 .. MaxSeq -> Event \union {None}]]
  BY DEF TypeOK

LEMMA AfterPersistTyped ==
  ASSUME NEW e
  PROVE  AfterPersist(e) \in {"complete", "fail", "forward"}
  BY DEF AfterPersist

(* The initial state is typed.                                             *)
LEMMA InitTypeOK == Init => TypeOK
<1> SUFFICES ASSUME Init PROVE TypeOK
  OBVIOUS
<1>1. eventRows \in [Scan -> [0 .. MaxSeq -> Event \union {None}]]
  BY DEF Init
<1> QED  BY <1>1 DEF Init, TypeOK

(* Every step keeps the types.                                             *)
LEMMA NextTypeOK == TypeOK /\ [Next]_vars => TypeOK'
<1> SUFFICES ASSUME TypeOK, [Next]_vars PROVE TypeOK'
  OBVIOUS
<1>1. ASSUME NEW s \in Scan, InsertScan(s) PROVE TypeOK'
  BY <1>1 DEF TypeOK, InsertScan, worker
<1>2. ASSUME NEW s \in Scan, PublishScan(s) PROVE TypeOK'
  BY <1>2 DEF TypeOK, PublishScan, db, scans
<1>3. ASSUME NEW s \in Scan, InsertFails(s) PROVE TypeOK'
  BY <1>3 DEF TypeOK, InsertFails, worker
<1>4. ASSUME NEW s \in Scan, PublishFails(s) PROVE TypeOK'
  BY <1>4 DEF TypeOK, PublishFails, db, scans
<1>5. ASSUME NEW s \in Scan, LoseMessage(s) PROVE TypeOK'
  BY <1>5 DEF TypeOK, LoseMessage, db, scans
<1>6. ASSUME NEW s \in Scan, NEW es \in Scripts, TakeScan(s, es) PROVE TypeOK'
  BY <1>6 DEF TypeOK, TakeScan, db, scans
<1>7. ASSUME NEW s \in Scan, NextEvent(s) PROVE TypeOK'
  BY <1>7 DEF TypeOK, NextEvent, db, scans
<1>8. ASSUME NEW a \in Attempt, NEW s \in Scan, PostEvent(a, s) PROVE TypeOK'
  <2>1. [scan |-> s, event |-> script[s][next[s]]] \in Post
    BY <1>8, ScriptedIsEvent DEF PostEvent, Post
  <2> QED  BY <1>8, <2>1 DEF TypeOK, PostEvent, db, scans, worker
<1>9. ASSUME NEW a \in Attempt, PersistEvent(a) PROVE TypeOK'
  <2>1. on[a].scan \in Scan /\ on[a].event \in Event /\ on[a] \in Post
    BY <1>9, HandledIsPost DEF PersistEvent
  <2>2. SeqOf(on[a].event) \in 0 .. MaxSeq
    BY <2>1, SeqOfInRange
  <2>3. eventRows' \in [Scan -> [0 .. MaxSeq -> Event \union {None}]]
    BY <1>9, <2>1, <2>2, StoredEventTyped DEF PersistEvent, TypeOK
  <2>4. pc' \in [Attempt -> Statuses]
    BY <1>9, AfterPersistTyped DEF PersistEvent, TypeOK, Statuses
  <2>5. \A b \in Attempt : pc'[b] # "idle" => on'[b] \in Post
    BY <1>9, <2>1 DEF PersistEvent, TypeOK
  <2> QED  BY <1>9, <2>3, <2>4, <2>5 DEF TypeOK, PersistEvent, worker, scans, Statuses
<1>10. ASSUME NEW a \in Attempt, UpdateComplete(a) PROVE TypeOK'
  <2>1. on[a].scan \in Scan
    BY <1>10, HandledIsPost DEF UpdateComplete
  <2> QED  BY <1>10, <2>1 DEF TypeOK, UpdateComplete, SetStatus, worker, scans
<1>11. ASSUME NEW a \in Attempt, UpdateFailed(a) PROVE TypeOK'
  BY <1>11 DEF TypeOK, UpdateFailed, SetStatus, worker, scans
<1>12. ASSUME NEW a \in Attempt, SelectScan(a) PROVE TypeOK'
  BY <1>12 DEF TypeOK, SelectScan, db, scans, worker
<1>13. ASSUME NEW a \in Attempt, InsertScorecard(a) PROVE TypeOK'
  <2>1. on[a].scan \in Scan
    BY <1>13, HandledIsPost DEF InsertScorecard
  <2> QED  BY <1>13, <2>1 DEF TypeOK, InsertScorecard, worker, scans
<1>14. ASSUME NEW a \in Attempt, ForwardEvent(a) PROVE TypeOK'
  <2>1. on[a] \in Post
    BY <1>14, HandledIsPost DEF ForwardEvent
  <2> QED  BY <1>14, <2>1 DEF TypeOK, ForwardEvent, db, scans, worker
<1>15. ASSUME NEW a \in Attempt, HandlerFails(a) PROVE TypeOK'
  BY <1>15 DEF TypeOK, HandlerFails, Handling, db, scans, worker
<1>16. CASE UNCHANGED vars
  BY <1>16 DEF TypeOK, vars, db, scans, worker
<1> QED
  BY <1>1, <1>2, <1>3, <1>4, <1>5, <1>6, <1>7, <1>8, <1>9, <1>10, <1>11, <1>12, <1>13,
     <1>14, <1>15, <1>16 DEF Next, Handle

--------------------------------------------------------------------------------
(***************************************************************************)
(* What is recorded stays recorded                                         *)
(***************************************************************************)

(* A post under way stays what it is.                                      *)
LEMMA PostsStay ==
  ASSUME TypeOK, [Next]_vars, NEW a \in Attempt, pc[a] # "idle"
  PROVE  pc'[a] # "idle" /\ on'[a] = on[a]
<1>1. ASSUME NEW b \in Attempt, NEW s \in Scan, PostEvent(b, s)
      PROVE  pc'[a] # "idle" /\ on'[a] = on[a]
  BY <1>1 DEF PostEvent, TypeOK
<1>2. ASSUME NEW b \in Attempt, PersistEvent(b)
      PROVE  pc'[a] # "idle" /\ on'[a] = on[a]
  BY <1>2, AfterPersistTyped DEF PersistEvent, TypeOK
<1>3. ASSUME NEW b \in Attempt, Handle(b) \/ HandlerFails(b), ~PersistEvent(b)
      PROVE  pc'[a] # "idle" /\ on'[a] = on[a]
  BY <1>3 DEF Handle, HandlerFails, UpdateComplete, UpdateFailed, SelectScan,
     InsertScorecard, ForwardEvent, TypeOK
<1>4. CASE UNCHANGED <<pc, on>>
  BY <1>4
<1> QED
  BY <1>1, <1>2, <1>3, <1>4 DEF Next, vars, InsertScan, PublishScan, InsertFails,
     PublishFails, LoseMessage, TakeScan, NextEvent

(* What was reported stays reported.                                       *)
LEMMA OutcomesStay ==
  ASSUME TypeOK, [Next]_vars, NEW s \in Scan
  PROVE  Outcomes(s) \subseteq Outcomes(s)'
<1> SUFFICES ASSUME NEW o \in Outcomes(s) PROVE o \in Outcomes(s)'
  OBVIOUS
<1>1. PICK a \in Attempt :
        /\ pc[a] # "idle"
        /\ on[a] = [scan |-> s, event |-> IF o = "complete" THEN Complete ELSE Failure]
  BY DEF Outcomes
<1>2. pc'[a] # "idle" /\ on'[a] = on[a]
  BY <1>1, PostsStay
<1>3. o \in {"complete", "failed"}
  BY DEF Outcomes
<1> QED  BY <1>1, <1>2, <1>3 DEF Outcomes

(* A scan whose script is known keeps it: it is taken from the queue once. *)
LEMMA ScriptStays ==
  ASSUME TypeOK, InOrder, [Next]_vars, NEW s \in Scan, script[s] # <<>>
  PROVE  script'[s] = script[s]
<1>1. ASSUME NEW t \in Scan, NEW es \in Scripts, TakeScan(t, es) PROVE script'[s] = script[s]
  BY <1>1 DEF TypeOK, InOrder, TakeScan
<1>2. CASE UNCHANGED script
  BY <1>2
<1> QED
  BY <1>1, <1>2 DEF Next, Handle, vars, worker, InsertScan, PublishScan, InsertFails,
     PublishFails, LoseMessage, NextEvent, PostEvent, PersistEvent, UpdateComplete,
     UpdateFailed, SelectScan, InsertScorecard, ForwardEvent, HandlerFails

(* Scorecards are never withdrawn.                                         *)
LEMMA CardsStay ==
  ASSUME [Next]_vars
  PROVE  scorecards \subseteq scorecards'
<1>1. ASSUME NEW a \in Attempt, InsertScorecard(a) PROVE scorecards \subseteq scorecards'
  BY <1>1 DEF InsertScorecard
<1>2. CASE UNCHANGED scorecards
  BY <1>2
<1> QED
  BY <1>1, <1>2 DEF Next, Handle, vars, db, InsertScan, PublishScan, InsertFails,
     PublishFails, LoseMessage, TakeScan, NextEvent, PostEvent, PersistEvent,
     UpdateComplete, UpdateFailed, SelectScan, ForwardEvent, HandlerFails

(* The row of a scan that has ended keeps showing an outcome, and a scan   *)
(* that has been complete has been for good.                               *)
LEMMA EndStays ==
  ASSUME TypeOK, InOrder, [Next]_vars, NEW s \in Scan
  PROVE  /\ Ended(s) => Ended(s)'
         /\ s \in completed => s \in completed'
         /\ row[s] # "absent" => row'[s] # "absent"
<1>1. ASSUME NEW t \in Scan, InsertScan(t) \/ InsertFails(t)
      PROVE  /\ row[s] # "absent" => row'[s] = row[s]
             /\ completed' = completed
  BY <1>1 DEF TypeOK, InOrder, InsertScan, InsertFails
<1>2. ASSUME NEW a \in Attempt, UpdateComplete(a)
      PROVE  row'[s] \in {row[s], "complete"} /\ completed \subseteq completed'
  BY <1>2 DEF UpdateComplete, SetStatus, TypeOK, scans
<1>3. ASSUME NEW a \in Attempt, UpdateFailed(a)
      PROVE  row'[s] \in {row[s], "failed"} /\ completed \subseteq completed'
  BY <1>3 DEF UpdateFailed, SetStatus, TypeOK, scans
<1>4. CASE UNCHANGED scans
  BY <1>4 DEF scans, Ended
<1> QED
  BY <1>1, <1>2, <1>3, <1>4 DEF Ended, Next, Handle, vars, db, PublishScan, PublishFails,
     LoseMessage, TakeScan, NextEvent, PostEvent, PersistEvent,
     SelectScan, InsertScorecard, ForwardEvent, HandlerFails

LEMMA RecordedStays ==
  ASSUME TypeOK, InOrder, [Next]_vars, NEW p \in Post, Recorded(p)
  PROVE  Recorded(p)'
<1>1. p.scan \in Scan
  BY DEF Post
<1>2. p.event \in Terminal => Ended(p.scan)'
  BY <1>1, EndStays DEF Recorded
<1>3. HasCard(p.scan) => HasCard(p.scan)'
  BY CardsStay DEF HasCard
<1> QED  BY <1>2, <1>3 DEF Recorded

--------------------------------------------------------------------------------
(***************************************************************************)
(* The inductive invariant                                                 *)
(***************************************************************************)

LEMMA InitIInv == Init => IInv
<1> SUFFICES ASSUME Init PROVE IInv
  OBVIOUS
<1>1. TypeOK
  BY InitTypeOK
<1>2. InOrder /\ PostsOfTaken /\ EndsAsReported /\ Staged
  BY DEF Init, InOrder, PostsOfTaken, EndsAsReported, Ended, Staged, StagedAt
<1>3. SlugsAreDrawn /\ ForwardsRecorded
  BY DEF Init, SlugsAreDrawn, ForwardsRecorded
<1> QED  BY <1>1, <1>2, <1>3 DEF IInv

(* A request, the queue and the worker go through their stages in order.   *)
LEMMA InOrderStep == ASSUME TypeOK, InOrder, [Next]_vars PROVE InOrder'
<1>1. ASSUME NEW s \in Scan, InsertScan(s) PROVE InOrder'
  BY <1>1 DEF TypeOK, InOrder, InsertScan, worker
<1>2. ASSUME NEW s \in Scan, PublishScan(s) PROVE InOrder'
  BY <1>2 DEF TypeOK, InOrder, PublishScan, db, scans
<1>3. ASSUME NEW s \in Scan, InsertFails(s) PROVE InOrder'
  BY <1>3 DEF TypeOK, InOrder, InsertFails, worker
<1>4. ASSUME NEW s \in Scan, PublishFails(s) PROVE InOrder'
  BY <1>4 DEF TypeOK, InOrder, PublishFails, db, scans
<1>5. ASSUME NEW s \in Scan, LoseMessage(s) PROVE InOrder'
  BY <1>5 DEF TypeOK, InOrder, LoseMessage, db, scans
<1>6. ASSUME NEW s \in Scan, NEW es \in Scripts, TakeScan(s, es) PROVE InOrder'
  BY <1>6 DEF TypeOK, InOrder, TakeScan, db, scans
<1>7. ASSUME NEW a \in Attempt, UpdateComplete(a) \/ UpdateFailed(a) PROVE InOrder'
  BY <1>7 DEF TypeOK, InOrder, UpdateComplete, UpdateFailed, SetStatus, worker, scans
<1>8. CASE UNCHANGED <<req, row, queue, script>>
  BY <1>8 DEF InOrder
<1> QED
  BY <1>1, <1>2, <1>3, <1>4, <1>5, <1>6, <1>7, <1>8 DEF Next, Handle, vars, db, scans, worker,
     NextEvent, PostEvent, PersistEvent, SelectScan, InsertScorecard, ForwardEvent, HandlerFails

(* Every post under way is of a scan that was taken.                       *)
LEMMA PostsOfTakenStep ==
  ASSUME TypeOK, InOrder, PostsOfTaken, [Next]_vars PROVE PostsOfTaken'
<1> SUFFICES ASSUME NEW a \in Attempt, pc'[a] # "idle" PROVE script'[on'[a].scan] # <<>>
  BY DEF PostsOfTaken
<1>1. CASE pc[a] # "idle"
  <2>1. on'[a] = on[a] /\ on[a].scan \in Scan /\ script[on[a].scan] # <<>>
    BY <1>1, PostsStay, HandledIsPost DEF PostsOfTaken
  <2> QED  BY <2>1, ScriptStays
<1>2. ASSUME NEW s \in Scan, PostEvent(a, s) PROVE script'[on'[a].scan] # <<>>
  <2>1. on'[a].scan = s /\ script'[s] = script[s] /\ next[s] \in DOMAIN script[s]
    BY <1>2 DEF PostEvent, worker, TypeOK
  <2> QED  BY <2>1
<1>3. CASE pc[a] = "idle" /\ \A s \in Scan : ~PostEvent(a, s)
  <2>1. ASSUME NEW b \in Attempt, b # a,
               Handle(b) \/ HandlerFails(b) \/ \E s \in Scan : PostEvent(b, s)
        PROVE  pc'[a] = "idle"
    BY <1>3, <2>1 DEF Handle, HandlerFails, PostEvent, PersistEvent, UpdateComplete,
       UpdateFailed, SelectScan, InsertScorecard, ForwardEvent, TypeOK
  <2>2. ~Handle(a) /\ ~HandlerFails(a)
    BY <1>3 DEF Handle, HandlerFails, Handling, PersistEvent, UpdateComplete,
       UpdateFailed, SelectScan, InsertScorecard, ForwardEvent
  <2> QED
    BY <1>3, <2>1, <2>2 DEF Next, vars, InsertScan, PublishScan, InsertFails,
       PublishFails, LoseMessage, TakeScan, NextEvent
<1> QED  BY <1>1, <1>2, <1>3

(* A row takes an outcome only from a post that reports it.                *)
LEMMA EndsAsReportedStep ==
  ASSUME TypeOK, InOrder, EndsAsReported, Staged, [Next]_vars
  PROVE  EndsAsReported'
<1> SUFFICES ASSUME NEW s \in Scan, Ended(s)' PROVE row'[s] \in Outcomes(s)'
  BY DEF EndsAsReported
<1>1. CASE row'[s] = row[s]
  <2>1. row[s] \in Outcomes(s)
    BY <1>1 DEF EndsAsReported, Ended
  <2> QED  BY <1>1, <2>1, OutcomesStay
<1>2. ASSUME NEW t \in Scan, InsertScan(t) \/ InsertFails(t) PROVE row'[s] = row[s]
  BY <1>2 DEF TypeOK, InsertScan, InsertFails, Ended
<1>3. ASSUME NEW a \in Attempt, UpdateComplete(a), row'[s] # row[s]
      PROVE  row'[s] \in Outcomes(s)'
  <2>1. pc[a] = "complete" /\ on[a].event = Complete /\ on[a] \in Post
    BY <1>3, HandledIsPost DEF UpdateComplete, Staged, StagedAt
  <2>2. on[a].scan = s /\ row'[s] = "complete"
    BY <1>3 DEF UpdateComplete, SetStatus, TypeOK, scans
  <2>3. on[a] = [scan |-> s, event |-> Complete]
    BY <2>1, <2>2 DEF Post
  <2>4. "complete" \in Outcomes(s)
    BY <2>1, <2>3 DEF Outcomes
  <2> QED  BY <2>2, <2>4, OutcomesStay
<1>4. ASSUME NEW a \in Attempt, UpdateFailed(a), row'[s] # row[s]
      PROVE  row'[s] \in Outcomes(s)'
  <2>1. pc[a] = "fail" /\ on[a].event = Failure /\ on[a] \in Post
    BY <1>4, HandledIsPost DEF UpdateFailed, Staged, StagedAt
  <2>2. on[a].scan = s /\ row'[s] = "failed"
    BY <1>4 DEF UpdateFailed, SetStatus, TypeOK, scans
  <2>3. on[a] = [scan |-> s, event |-> Failure]
    BY <2>1, <2>2 DEF Post
  <2>4. "failed" \in Outcomes(s)
    BY <2>1, <2>3 DEF Outcomes
  <2> QED  BY <2>2, <2>4, OutcomesStay
<1>5. CASE UNCHANGED row
  BY <1>1, <1>5
<1> QED
  BY <1>1, <1>2, <1>3, <1>4, <1>5 DEF Next, Handle, vars, db, scans, PublishScan,
     PublishFails, LoseMessage, TakeScan, NextEvent, PostEvent, PersistEvent, SelectScan,
     InsertScorecard, ForwardEvent, HandlerFails

(* A handler that does not move keeps what it has recorded.                *)
LEMMA StagedStays ==
  ASSUME TypeOK, InOrder, Staged, [Next]_vars,
         NEW a \in Attempt, pc'[a] = pc[a], on'[a] = on[a]
  PROVE  StagedAt(a)'
<1>1. CASE pc[a] = "idle"
  BY <1>1 DEF StagedAt
<1>2. CASE pc[a] # "idle"
  <2>1. PICK p \in Post : p = on[a] /\ p = on'[a]
    BY <1>2, HandledIsPost
  <2>2. p.scan \in Scan
    BY DEF Post
  <2>3. StagedAt(a)
    BY DEF Staged
  <2>4. pc[a] \in {"select", "insert"} => Ended(p.scan)' /\ p.scan \in completed'
    BY <2>1, <2>2, <2>3, EndStays DEF StagedAt
  <2>5. pc[a] \in {"forward", "ok"} => Recorded(p)'
    <3>1. pc[a] \in {"forward", "ok"} => Recorded(p)
      BY <2>1, <2>3 DEF StagedAt
    <3> QED  BY <3>1, RecordedStays
  <2> QED  BY <2>1, <2>3, <2>4, <2>5 DEF StagedAt, Recorded, Ended
<1> QED  BY <1>1, <1>2

(* Each step of a handler records what the next one relies on.             *)
LEMMA StagedMoves ==
  ASSUME TypeOK, InOrder, PostsOfTaken, Staged, [Next]_vars, NEW a \in Attempt, Handle(a)
  PROVE  StagedAt(a)'
<1>1. /\ on[a] \in Post /\ on[a].scan \in Scan /\ on[a].event \in Event
      /\ script[on[a].scan] # <<>> /\ on' = on
  BY HandledIsPost DEF Handle, PersistEvent, UpdateComplete, UpdateFailed, SelectScan,
     InsertScorecard, ForwardEvent, PostsOfTaken
<1>2. row[on[a].scan] # "absent"
  BY <1>1 DEF InOrder
<1>3. StagedAt(a)
  BY DEF Staged
<1>4. CASE PersistEvent(a)
  <2>1. pc'[a] = AfterPersist(on[a].event)
    BY <1>4 DEF PersistEvent, TypeOK
  <2>2. CASE on[a].event = Complete
    <3>1. pc'[a] = "complete"
      BY <2>1, <2>2 DEF AfterPersist, Complete, Failure
    <3> QED  BY <1>1, <2>2, <3>1 DEF StagedAt
  <2>3. CASE on[a].event = Failure
    <3>1. pc'[a] = "fail"
      BY <2>1, <2>3 DEF AfterPersist, Complete, Failure
    <3> QED  BY <1>1, <2>3, <3>1 DEF StagedAt
  <2>4. CASE on[a].event \notin {Complete, Failure}
    <3>1. pc'[a] = "forward"
      BY <2>1, <2>4 DEF AfterPersist
    <3> QED  BY <1>1, <2>4, <3>1 DEF StagedAt, Recorded, Terminal
  <2> QED  BY <2>2, <2>3, <2>4
<1>5. CASE UpdateComplete(a)
  <2>1. on[a].event = Complete
    BY <1>3, <1>5 DEF UpdateComplete, StagedAt
  <2>2. pc'[a] = "select" /\ row'[on[a].scan] = "complete" /\ on[a].scan \in completed'
    BY <1>1, <1>2, <1>5 DEF UpdateComplete, SetStatus, TypeOK
  <2> QED  BY <1>1, <2>1, <2>2 DEF StagedAt, Ended
<1>6. CASE UpdateFailed(a)
  <2>1. on[a].event = Failure
    BY <1>3, <1>6 DEF UpdateFailed, StagedAt
  <2>2. pc'[a] = "forward" /\ row'[on[a].scan] = "failed"
    BY <1>1, <1>2, <1>6 DEF UpdateFailed, SetStatus, TypeOK
  <2>3. on[a].event # Complete
    BY <2>1 DEF Complete, Failure
  <2> QED  BY <1>1, <2>1, <2>2, <2>3 DEF StagedAt, Recorded, Ended
<1>7. CASE SelectScan(a)
  <2>1. /\ on[a].event = Complete /\ Ended(on[a].scan) /\ on[a].scan \in completed
        /\ row' = row /\ completed' = completed
    BY <1>3, <1>7 DEF SelectScan, StagedAt, db, scans
  <2>2. pc'[a] = "insert"
    BY <1>2, <1>7 DEF SelectScan, TypeOK
  <2> QED  BY <1>1, <2>1, <2>2 DEF StagedAt, Ended
<1>8. CASE InsertScorecard(a)
  <2>1. on[a].event = Complete /\ Ended(on[a].scan) /\ row' = row
    BY <1>3, <1>8 DEF InsertScorecard, StagedAt, scans
  <2>2. pc'[a] = "forward"
    BY <1>8 DEF InsertScorecard, TypeOK
  <2>3. \E c \in scorecards' : c.scan = on[a].scan
    <3>1. [slug |-> a, scan |-> on[a].scan] \in scorecards'
      BY <1>8 DEF InsertScorecard
    <3> QED  BY <3>1
  <2> QED  BY <1>1, <2>1, <2>2, <2>3 DEF StagedAt, Recorded, HasCard, Ended
<1>9. CASE ForwardEvent(a)
  <2>1. Recorded(on[a]) /\ pc'[a] = "ok" /\ row' = row /\ scorecards' = scorecards
    BY <1>3, <1>9 DEF ForwardEvent, StagedAt, db, scans, TypeOK
  <2> QED  BY <1>1, <2>1 DEF StagedAt, Recorded, HasCard, Ended
<1> QED  BY <1>4, <1>5, <1>6, <1>7, <1>8, <1>9 DEF Handle

LEMMA StagedStep ==
  ASSUME TypeOK, InOrder, PostsOfTaken, Staged, [Next]_vars
  PROVE  Staged'
<1> SUFFICES ASSUME NEW a \in Attempt PROVE StagedAt(a)'
  BY DEF Staged
<1>1. CASE Handle(a)
  BY <1>1, StagedMoves
<1>2. CASE HandlerFails(a)
  BY <1>2 DEF HandlerFails, StagedAt, TypeOK
<1>3. ASSUME NEW s \in Scan, PostEvent(a, s) PROVE StagedAt(a)'
  BY <1>3 DEF PostEvent, StagedAt, TypeOK
<1>4. CASE pc'[a] = pc[a] /\ on'[a] = on[a]
  BY <1>4, StagedStays
<1>5. ASSUME NEW b \in Attempt, b # a,
             \/ Handle(b) \/ HandlerFails(b)
             \/ \E s \in Scan : PostEvent(b, s)
      PROVE  pc'[a] = pc[a] /\ on'[a] = on[a]
  BY <1>5 DEF Handle, HandlerFails, PostEvent, PersistEvent, UpdateComplete, UpdateFailed,
     SelectScan, InsertScorecard, ForwardEvent, TypeOK
<1> QED
  BY <1>1, <1>2, <1>3, <1>4, <1>5 DEF Next, vars, InsertScan, PublishScan, InsertFails,
     PublishFails, LoseMessage, TakeScan, NextEvent

(* A slug is used by the handler that drew it, and it does not draw again. *)
LEMMA SlugsStep ==
  ASSUME TypeOK, SlugsAreDrawn, [Next]_vars PROVE SlugsAreDrawn'
<1> SUFFICES ASSUME NEW c \in scorecards' PROVE pc'[c.slug] \in {"forward", "ok", "failed"}
  BY DEF SlugsAreDrawn
<1>1. ASSUME c \in scorecards PROVE pc'[c.slug] \in {"forward", "ok", "failed"}
  <2>1. c.slug \in Attempt /\ pc[c.slug] \in {"forward", "ok", "failed"}
    BY <1>1 DEF TypeOK, SlugsAreDrawn
  <2>2. ASSUME NEW a \in Attempt, Handle(a) \/ HandlerFails(a) \/ \E s \in Scan : PostEvent(a, s)
        PROVE pc'[c.slug] \in {"forward", "ok", "failed"}
    BY <2>1, <2>2 DEF Handle, HandlerFails, Handling, PostEvent, PersistEvent, UpdateComplete,
       UpdateFailed, SelectScan, InsertScorecard, ForwardEvent, TypeOK
  <2>3. CASE UNCHANGED pc
    BY <2>1, <2>3
  <2> QED
    BY <2>2, <2>3 DEF Next, vars, InsertScan, PublishScan, InsertFails, PublishFails, LoseMessage,
       TakeScan, NextEvent
<1>2. ASSUME NEW a \in Attempt, InsertScorecard(a), c \notin scorecards
      PROVE  pc'[c.slug] \in {"forward", "ok", "failed"}
  BY <1>2 DEF InsertScorecard, TypeOK
<1>3. CASE UNCHANGED scorecards
  BY <1>1, <1>3
<1> QED
  BY <1>1, <1>2, <1>3 DEF Next, Handle, vars, db, InsertScan, PublishScan, InsertFails, PublishFails,
     LoseMessage, TakeScan, NextEvent, PostEvent, PersistEvent, UpdateComplete, UpdateFailed,
     SelectScan, ForwardEvent, HandlerFails

(* What was forwarded was recorded before, and is recorded still.          *)
LEMMA ForwardedStep ==
  ASSUME IInv, [Next]_vars PROVE ForwardsRecorded'
<1> USE DEF IInv
<1> SUFFICES ASSUME NEW p \in forwarded' PROVE Recorded(p)'
  BY DEF ForwardsRecorded
<1>1. ASSUME p \in forwarded PROVE Recorded(p)'
  <2>1. p \in Post /\ Recorded(p)
    BY <1>1 DEF TypeOK, ForwardsRecorded
  <2> QED  BY <2>1, RecordedStays
<1>2. ASSUME NEW a \in Attempt, ForwardEvent(a) PROVE Recorded(p)'
  <2>1. Recorded(on[a]) /\ on[a] \in Post
    BY <1>2, HandledIsPost DEF ForwardEvent, Staged, StagedAt
  <2>2. p \in forwarded \/ (p \in Post /\ Recorded(p))
    BY <1>2, <2>1 DEF ForwardEvent
  <2> QED  BY <1>1, <2>2, RecordedStays
<1>3. CASE UNCHANGED forwarded
  BY <1>1, <1>3
<1> QED
  BY <1>2, <1>3 DEF Next, Handle, vars, InsertScan, PublishScan, InsertFails, PublishFails,
     LoseMessage, TakeScan, NextEvent, PostEvent, PersistEvent, UpdateComplete, UpdateFailed,
     SelectScan, InsertScorecard, HandlerFails

LEMMA NextIInv == IInv /\ [Next]_vars => IInv'
<1> SUFFICES ASSUME IInv, [Next]_vars PROVE IInv'
  OBVIOUS
<1>1. TypeOK'
  BY NextTypeOK DEF IInv
<1>2. InOrder' /\ PostsOfTaken' /\ EndsAsReported'
  BY InOrderStep, PostsOfTakenStep, EndsAsReportedStep DEF IInv
<1>3. Staged' /\ SlugsAreDrawn' /\ ForwardsRecorded'
  BY StagedStep, SlugsStep, ForwardedStep DEF IInv
<1> QED  BY <1>1, <1>2, <1>3 DEF IInv

--------------------------------------------------------------------------------
(***************************************************************************)
(* Theorems                                                                *)
(***************************************************************************)

(* The strengthened invariant holds of every behaviour: requests, queue    *)
(* and worker go in order, scans end as reported, and a handler has        *)
(* recorded what its place in the code says.                               *)
THEOREM Invariance == Spec => []IInv
<1>1. Init => IInv
  BY InitIInv
<1>2. IInv /\ [Next]_vars => IInv'
  BY NextIInv
<1> QED  BY <1>1, <1>2, PTL DEF Spec

(* A scan_complete that was answered 200 has left the scan ended, in a way *)
(* that was reported, and a scorecard behind, however many posts overlap,  *)
(* repeat, fail and contradict one another.                                *)
THEOREM CompleteHasScorecard == Spec => []AckedCompleteHasScorecard
<1>1. ASSUME IInv, NEW a \in Attempt, pc[a] = "ok", on[a].event = Complete
      PROVE  row[on[a].scan] \in Outcomes(on[a].scan) /\ HasCard(on[a].scan)
  <2>1. Ended(on[a].scan) /\ HasCard(on[a].scan)
    BY <1>1 DEF IInv, Staged, StagedAt, Recorded, Terminal
  <2>2. on[a].scan \in Scan
    BY <1>1, HandledIsPost DEF IInv
  <2> QED  BY <1>1, <2>1, <2>2 DEF IInv, EndsAsReported
<1>2. IInv => AckedCompleteHasScorecard
  BY <1>1 DEF AckedCompleteHasScorecard
<1> QED  BY <1>2, Invariance, PTL

(* A listener that is told of the end of a scan finds it in the tables.    *)
THEOREM RecordedBeforeForwarded == Spec => []ForwardedAfterRecorded
<1>1. ASSUME IInv, NEW p \in forwarded, p.event \in Terminal
      PROVE  row[p.scan] \in Outcomes(p.scan) /\ (p.event = Complete => HasCard(p.scan))
  <2>1. Ended(p.scan) /\ (p.event = Complete => HasCard(p.scan))
    BY <1>1 DEF IInv, ForwardsRecorded, Recorded
  <2>2. p.scan \in Scan
    BY <1>1 DEF IInv, TypeOK, Post
  <2> QED  BY <1>1, <2>1, <2>2 DEF IInv, EndsAsReported
<1>2. IInv => ForwardedAfterRecorded
  BY <1>1 DEF ForwardedAfterRecorded
<1> QED  BY <1>2, Invariance, PTL

reported == [s \in Scan |-> Outcomes(s)]

(* A post that brings no outcome, and the steps of a handler, report       *)
(* nothing new.                                                            *)
LEMMA ReportedSame ==
  ASSUME TypeOK, [Next]_vars, \A a \in Attempt : pc[a] = "idle" => pc'[a] = "idle"
  PROVE  reported' = reported
<1>1. ASSUME NEW s \in Scan, NEW o \in Outcomes(s)' PROVE o \in Outcomes(s)
  <2>1. PICK a \in Attempt :
          /\ pc'[a] # "idle"
          /\ on'[a] = [scan |-> s, event |-> IF o = "complete" THEN Complete ELSE Failure]
    BY <1>1 DEF Outcomes
  <2>2. pc[a] # "idle" /\ on'[a] = on[a]
    BY <2>1, PostsStay
  <2>3. o \in {"complete", "failed"}
    BY <1>1 DEF Outcomes
  <2> QED  BY <2>1, <2>2, <2>3 DEF Outcomes
<1>2. \A s \in Scan : Outcomes(s)' = Outcomes(s)
  BY <1>1, OutcomesStay
<1> QED  BY <1>2 DEF reported

(* A post reports the outcome it brings, if it brings one.                 *)
LEMMA PostReports ==
  ASSUME TypeOK, [Next]_vars, NEW a \in Attempt, NEW s \in Scan, PostEvent(a, s)
  PROVE  \/ reported' = reported
         \/ \E o \in {"complete", "failed"} :
              reported' = [reported EXCEPT ![s] = @ \union {o}]
<1> DEFINE e == script[s][next[s]]
           brought == {o \in {"complete", "failed"} :
                         e = IF o = "complete" THEN Complete ELSE Failure}
<1>1. /\ pc[a] = "idle" /\ pc'[a] = "persist" /\ on'[a] = [scan |-> s, event |-> e]
      /\ \A b \in Attempt \ {a} : pc'[b] = pc[b] /\ on'[b] = on[b]
  BY DEF PostEvent, TypeOK
<1> HIDE DEF e
<1>2. \A t \in Scan \ {s} : Outcomes(t)' = Outcomes(t)
  BY <1>1 DEF Outcomes
<1>3. Outcomes(s)' = Outcomes(s) \union brought
  BY <1>1 DEF Outcomes
<1>4. brought = {} \/ \E o \in {"complete", "failed"} : brought = {o}
  BY DEF Complete, Failure
<1> HIDE DEF brought
<1>5. reported' = [reported EXCEPT ![s] = @ \union brought]
  BY <1>2, <1>3 DEF reported
<1>6. CASE brought = {}
  BY <1>5, <1>6 DEF reported
<1> QED  BY <1>4, <1>5, <1>6

(* Every step is a step of the lifecycle a visitor sees, or is not seen:   *)
(* retries, overlaps and half-done handlers do not show.                   *)
LEMMA StepImplements ==
  ASSUME IInv, [Next]_vars
  PROVE  [Lifecycle!Next]_<<row, reported, completed, scorecards>>
<1> USE DEF IInv
<1> DEFINE seen == <<row, reported, completed, scorecards>>
<1>1. ASSUME NEW s \in Scan, InsertScan(s) \/ InsertFails(s)
      PROVE  Lifecycle!Queue(s) \/ UNCHANGED seen
  <2>1. reported' = reported
    BY <1>1, ReportedSame DEF InsertScan, InsertFails
  <2>2. /\ row[s] = "absent" /\ UNCHANGED <<completed, scorecards>>
        /\ row' = row \/ row' = [row EXCEPT ![s] = "queued"]
    BY <1>1 DEF InsertScan, InsertFails, InOrder
  <2> QED  BY <2>1, <2>2 DEF Lifecycle!Queue, reported
<1>2. ASSUME NEW a \in Attempt, NEW s \in Scan, PostEvent(a, s)
      PROVE  \/ UNCHANGED seen
             \/ \E o \in {"complete", "failed"} : Lifecycle!Report(s, o)
  <2>1. row[s] # "absent" /\ UNCHANGED <<row, completed, scorecards>>
    BY <1>2 DEF PostEvent, InOrder, db, scans
  <2> QED  BY <1>2, <2>1, PostReports DEF Lifecycle!Report, reported
<1>3. ASSUME NEW a \in Attempt, Handle(a) \/ HandlerFails(a)
      PROVE  reported' = reported
  <2>1. \A b \in Attempt : pc[b] = "idle" => pc'[b] = "idle"
    BY <1>3 DEF Handle, HandlerFails, Handling, PersistEvent, UpdateComplete, UpdateFailed,
       SelectScan, InsertScorecard, ForwardEvent, TypeOK
  <2> QED  BY <2>1, ReportedSame
<1>4. ASSUME NEW a \in Attempt, UpdateComplete(a)
      PROVE  Lifecycle!Settle(on[a].scan, "complete")
  <2>1. /\ pc[a] = "complete" /\ on[a] \in Post /\ on[a].scan \in Scan
        /\ on[a].event = Complete /\ row[on[a].scan] # "absent"
    BY <1>4, HandledIsPost DEF UpdateComplete, Staged, StagedAt, PostsOfTaken, InOrder
  <2>2. on[a] = [scan |-> on[a].scan, event |-> Complete]
    BY <2>1 DEF Post
  <2>3. "complete" \in Outcomes(on[a].scan)
    BY <2>1, <2>2 DEF Outcomes
  <2>4. "complete" \in reported[on[a].scan]
    BY <2>1, <2>3 DEF reported
  <2>5. /\ row' = [row EXCEPT ![on[a].scan] = "complete"]
        /\ completed' = completed \union {on[a].scan}
        /\ scorecards' = scorecards
    BY <1>4, <2>1 DEF UpdateComplete, SetStatus
  <2>6. reported' = reported
    BY <1>3, <1>4 DEF Handle
  <2> QED  BY <2>1, <2>4, <2>5, <2>6 DEF Lifecycle!Settle, reported
<1>5. ASSUME NEW a \in Attempt, UpdateFailed(a)
      PROVE  Lifecycle!Settle(on[a].scan, "failed")
  <2>1. /\ pc[a] = "fail" /\ on[a] \in Post /\ on[a].scan \in Scan
        /\ on[a].event = Failure /\ row[on[a].scan] # "absent"
    BY <1>5, HandledIsPost DEF UpdateFailed, Staged, StagedAt, PostsOfTaken, InOrder
  <2>2. on[a] = [scan |-> on[a].scan, event |-> Failure]
    BY <2>1 DEF Post
  <2>3. "failed" \in Outcomes(on[a].scan)
    BY <2>1, <2>2 DEF Outcomes
  <2>4. "failed" \in reported[on[a].scan]
    BY <2>1, <2>3 DEF reported
  <2>5. /\ row' = [row EXCEPT ![on[a].scan] = "failed"]
        /\ completed' = completed
        /\ scorecards' = scorecards
    BY <1>5, <2>1 DEF UpdateFailed, SetStatus
  <2>6. reported' = reported
    BY <1>3, <1>5 DEF Handle
  <2> QED  BY <2>1, <2>4, <2>5, <2>6 DEF Lifecycle!Settle, reported
<1>6. ASSUME NEW a \in Attempt, InsertScorecard(a)
      PROVE  Lifecycle!Issue(on[a].scan, a)
  <2>1. on[a].scan \in completed
    BY <1>6 DEF InsertScorecard, Staged, StagedAt
  <2>2. \A c \in scorecards : c.slug # a
    BY <1>6 DEF InsertScorecard, SlugsAreDrawn
  <2>3. reported' = reported
    BY <1>3, <1>6 DEF Handle
  <2> QED  BY <1>6, <2>1, <2>2, <2>3 DEF InsertScorecard, Lifecycle!Issue, reported, scans
<1>7. ASSUME NEW a \in Attempt,
             PersistEvent(a) \/ SelectScan(a) \/ ForwardEvent(a) \/ HandlerFails(a)
      PROVE  UNCHANGED seen
  BY <1>3, <1>7 DEF Handle, PersistEvent, SelectScan, ForwardEvent, HandlerFails, db, scans
<1>8. CASE UNCHANGED <<pc, on, row, completed, scorecards>>
  BY <1>8, ReportedSame
<1>9. \A a \in Attempt : pc[a] # "idle" => on[a].scan \in Scan
  BY HandledIsPost
<1>10. ASSUME NEW a \in Attempt, Handle(a)
       PROVE  [Lifecycle!Next]_seen
  BY <1>4, <1>5, <1>6, <1>7, <1>9, <1>10 DEF Handle, UpdateComplete, UpdateFailed,
     InsertScorecard, Lifecycle!Next, Lifecycle!Outcome
<1> QED
  BY <1>1, <1>2, <1>7, <1>8, <1>10 DEF Next, vars, db, scans, PublishScan, PublishFails,
     LoseMessage, TakeScan, NextEvent, Lifecycle!Next, Lifecycle!Outcome

(* Seen from outside, a scan is queued, shows an outcome that was reported *)
(* and has scorecards only if it has been complete.                        *)
THEOREM Refinement == Spec => ImplementsScanLifecycle
<1>1. Init => Lifecycle!Init
  <2> SUFFICES ASSUME Init PROVE Lifecycle!Init
    OBVIOUS
  <2>1. \A s \in Scan : Outcomes(s) = {}
    BY DEF Init, Outcomes
  <2> QED  BY <2>1 DEF Init, Lifecycle!Init
<1>2. IInv /\ [Next]_vars => [Lifecycle!Next]_(Lifecycle!vars)
  BY StepImplements DEF Lifecycle!vars, reported
<1> QED  BY <1>1, <1>2, Invariance, PTL DEF Spec, ImplementsScanLifecycle, Lifecycle!Spec
================================================================================

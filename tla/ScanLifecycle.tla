----------------------------- MODULE ScanLifecycle -----------------------------
(***************************************************************************)
(* What a visitor of the scan service sees of a scan: it is queued, shows  *)
(* an outcome that was reported, changes it only for another one that was  *)
(* reported too, and scorecards are issued only for scans that have been   *)
(* complete, and are never withdrawn.                                      *)
(***************************************************************************)
CONSTANTS Scan, Slug

VARIABLES
  status,     \* absent, queued, complete or failed
  reported,   \* the outcomes the worker has reported of each scan
  completed,  \* the scans that have been complete
  cards       \* the scorecards issued: slug and scan

vars == <<status, reported, completed, cards>>

Outcome == {"complete", "failed"}

Init ==
  /\ status = [s \in Scan |-> "absent"]
  /\ reported = [s \in Scan |-> {}]
  /\ completed = {}
  /\ cards = {}

Queue(s) ==
  /\ status[s] = "absent"
  /\ status' = [status EXCEPT ![s] = "queued"]
  /\ UNCHANGED <<reported, completed, cards>>

Report(s, outcome) ==
  /\ status[s] # "absent"
  /\ reported' = [reported EXCEPT ![s] = @ \union {outcome}]
  /\ UNCHANGED <<status, completed, cards>>

(* A scan of which one outcome is reported ends once, with that outcome.   *)
Settle(s, outcome) ==
  /\ status[s] # "absent"
  /\ outcome \in reported[s]
  /\ status' = [status EXCEPT ![s] = outcome]
  /\ completed' = IF outcome = "complete" THEN completed \union {s} ELSE completed
  /\ UNCHANGED <<reported, cards>>

(* A slug names one scorecard.                                             *)
Issue(s, slug) ==
  /\ s \in completed
  /\ \A c \in cards : c.slug # slug
  /\ cards' = cards \union {[slug |-> slug, scan |-> s]}
  /\ UNCHANGED <<status, reported, completed>>

Next ==
  \E s \in Scan :
    \/ Queue(s)
    \/ \E o \in Outcome : Report(s, o) \/ Settle(s, o)
    \/ \E slug \in Slug : Issue(s, slug)

Spec == Init /\ [][Next]_vars
================================================================================

------------------------------- MODULE ScanEvents ------------------------------
(***************************************************************************)
(* The events of a scan, as core-engine emits them and scan-backend        *)
(* accepts them (core-engine/src/events-schema.ts).  Only an element event *)
(* has a sequence number; selectors, boxes, scores are left out.           *)
(***************************************************************************)
EXTENDS Integers, Sequences

None == [kind |-> "none"]

Started == [kind |-> "scan_started"]

Element(n) == [kind |-> "element_scan", seq |-> n]

Complete == [kind |-> "scan_complete"]

Failure == [kind |-> "scan_error"]

ScanEvent(n) == {Started, Complete, Failure} \union {Element(i) : i \in 0 .. n}

Terminal == {Complete, Failure}

(* The order core-engine promises: scan_started, elements in order, and    *)
(* one terminal event at the end (orchestrator.ts:25).                     *)
Locked(es) ==
  \A i \in DOMAIN es :
    /\ es[i] = Started <=> i = 1
    /\ es[i] \in Terminal => i = Len(es)
    /\ es[i].kind = "element_scan" => es[i].seq = i - 2
================================================================================

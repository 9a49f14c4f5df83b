------------------------------ MODULE Orchestrator -----------------------------
(***************************************************************************)
(* runOrchestration of packages/core-engine (orchestrator.ts, with         *)
(* element-iter.ts and events.ts): one scan, the events it emits to the    *)
(* listeners of its emitter, its analyzers, and their disposal.            *)
(*                                                                         *)
(* JavaScript runs from await to await; callers add and remove listeners   *)
(* only while the scan awaits.  A listener may throw: emit then stops and  *)
(* the listeners after it do not hear the event.                           *)
(***************************************************************************)
EXTENDS ScanEvents, FiniteSets, SequencesExt

CONSTANTS
  Analyzer,     \* the analyzers of the scan
  Domain, DomainOf,
  Elements,     \* number of elements in the outline of the page
  Listener,     \* listeners of the caller
  Throwing,     \* those of them that may throw
  Replay,       \* the scan's own listener
  Nobody

ASSUME ConstantsAssumption ==
  /\ DomainOf \in [Analyzer -> Domain]
  /\ Elements \in Nat
  /\ Throwing \subseteq Listener
  /\ Replay \notin Listener
  /\ Nobody \notin Analyzer

VARIABLES
  emitter,      \* the caller's, the scan's own, or one that drops everything
  elementIter,  \* opts.elementIter
  pc,           \* where runOrchestration is
  order,        \* the listeners in the order they were added
  heard,        \* what each listener heard; heard[Replay] is `replay'
  seq,          \* `seq' of runElementIteration
  running,      \* analyzers whose analyze has not settled
  findings,     \* under each domain: whose findings, and whether it failed
  disposed,     \* `disposed'
  disposing,    \* analyzers whose dispose is still to be called
  disposals,    \* history: how often each was disposed of
  attentive     \* history: listeners there from the start and never removed

vars == <<emitter, elementIter, pc, order, heard, seq, running, findings,
          disposed, disposing, disposals, attentive>>

setup == <<emitter, elementIter>>
events == <<order, heard, attentive>>
analysis == <<running, findings>>
disposal == <<disposed, disposing, disposals>>

Hearing == Listener \union {Replay}

NoFindings == [by |-> Nobody, ok |-> FALSE]

Init ==
  /\ elementIter \in BOOLEAN
  /\ emitter \in {"given", IF elementIter THEN "own" ELSE "null"}
  /\ pc = "init"
  /\ order = <<>>
  /\ heard = [l \in Hearing |-> <<>>]
  /\ seq = 0
  /\ running = {}
  /\ findings = [d \in Domain |-> NoFindings]
  /\ disposed = FALSE
  /\ disposing = {}
  /\ disposals = [a \in Analyzer |-> 0]
  /\ attentive = {}

--------------------------------------------------------------------------------
(***************************************************************************)
(* events.ts                                                               *)
(***************************************************************************)

HeardBy(e, ls) == [l \in Hearing |-> IF l \in ls THEN Append(heard[l], e) ELSE heard[l]]

EmitOk(e) == heard' = HeardBy(e, ToSet(order))

(* The listener at position k throws, after those before it heard e.       *)
EmitThrows(e) ==
  \E k \in DOMAIN order :
    /\ order[k] \in Throwing
    /\ heard' = HeardBy(e, {order[i] : i \in 1 .. k})

(* Mutant: what a listener throws is swallowed where it is thrown. *)
EmitThen_Swallows(e, after) ==
  /\ EmitOk(e) \/ EmitThrows(e)
  /\ pc' = after

(* Emit e inside the try block: go on, or go to the catch block.           *)
EmitThen(e, after) ==
  \/ EmitOk(e) /\ pc' = after
  \/ EmitThrows(e) /\ pc' = "catch"

(* `listeners.delete(l)': each listener is in the set at most once.         *)
Without(l) ==
  IF l \in ToSet(order)
  THEN RemoveAt(order, CHOOSE k \in DOMAIN order : order[k] = l)
  ELSE order

Awaiting == pc \in {"scanning", "verdict", "analyze", "analyzing", "dispose", "disposeFailed"}

Listen(l) ==
  /\ emitter = "given"
  /\ pc = "init" \/ Awaiting
  /\ l \notin ToSet(order)
  /\ order' = Append(order, l)
  /\ attentive' = IF pc = "init" /\ heard[l] = <<>> THEN attentive \union {l} ELSE attentive
  /\ UNCHANGED <<setup, pc, heard, seq, analysis, disposal>>

Unlisten(l) ==
  /\ pc = "init" \/ Awaiting
  /\ l \in ToSet(order)
  /\ order' = Without(l)
  /\ attentive' = attentive \ {l}
  /\ UNCHANGED <<setup, pc, heard, seq, analysis, disposal>>

--------------------------------------------------------------------------------
(***************************************************************************)
(* orchestrator.ts and element-iter.ts                                     *)
(***************************************************************************)

Begin ==
  /\ pc = "init"
  /\ order' = IF emitter = "null" THEN order ELSE Append(order, Replay)
  /\ pc' = IF elementIter THEN "started" ELSE "analyze"
  /\ UNCHANGED <<setup, heard, attentive, seq, analysis, disposal>>

EmitStarted ==
  /\ pc = "started"
  /\ EmitThen(Started, IF Elements = 0 THEN "analyze" ELSE "scanning")
  /\ UNCHANGED <<setup, order, attentive, seq, analysis, disposal>>

(* For each element, its box resolved or not: `scanning', ...              *)
EmitScanning ==
  /\ pc = "scanning"
  /\ EmitThen(Element(seq), "verdict")
  /\ seq' = seq + 1
  /\ UNCHANGED <<setup, order, attentive, analysis, disposal>>

(* Mutant: both events of an element bear the same number. *)
EmitVerdict_SameSeq ==
  /\ pc = "verdict"
  /\ EmitThen(Element(seq - 1), IF seq + 1 < 2 * Elements THEN "scanning" ELSE "analyze")
  /\ seq' = seq + 1
  /\ UNCHANGED <<setup, order, attentive, analysis, disposal>>

(* ... then `passed' or `violated'; an analyzer that throws on the element *)
(* adds nothing.                                                           *)
EmitVerdict ==
  /\ pc = "verdict"
  /\ EmitThen(Element(seq), IF seq + 1 < 2 * Elements THEN "scanning" ELSE "analyze")
  /\ seq' = seq + 1
  /\ UNCHANGED <<setup, order, attentive, analysis, disposal>>

StartAnalyzers ==
  /\ pc = "analyze"
  /\ running' = Analyzer
  /\ pc' = "analyzing"
  /\ UNCHANGED <<setup, events, seq, findings, disposal>>

(* Mutant: a failure empties the findings of every domain. *)
AnalyzerSettles_ClearsAll(a, ok) ==
  /\ a \in running
  /\ running' = running \ {a}
  /\ findings' = IF ok THEN [findings EXCEPT ![DomainOf[a]] = [by |-> a, ok |-> TRUE]]
                       ELSE [d \in Domain |-> [by |-> a, ok |-> FALSE]]
  /\ UNCHANGED <<setup, pc, events, seq, disposal>>

(* Analyzers settle in any order; each writes its domain's slot, with what *)
(* it found or, if it threw, with nothing.                                 *)
AnalyzerSettles(a, ok) ==
  /\ a \in running
  /\ running' = running \ {a}
  /\ findings' = [findings EXCEPT ![DomainOf[a]] = [by |-> a, ok |-> ok]]
  /\ UNCHANGED <<setup, pc, events, seq, disposal>>

(* Mutant: the report waits for findings in every domain. *)
Report_NeedsAll ==
  /\ pc = "analyzing"
  /\ running = {}
  /\ \A d \in Domain : findings[d].ok
  /\ pc' \in {IF elementIter THEN "complete" ELSE "detach", "catch"}
  /\ UNCHANGED <<setup, events, seq, analysis, disposal>>

(* Conflicts are detected, and the detector may throw.                     *)
Report ==
  /\ pc = "analyzing"
  /\ running = {}
  /\ pc' \in {IF elementIter THEN "complete" ELSE "detach", "catch"}
  /\ UNCHANGED <<setup, events, seq, analysis, disposal>>

EmitComplete ==
  /\ pc = "complete"
  /\ EmitThen(Complete, "detach")
  /\ UNCHANGED <<setup, order, attentive, seq, analysis, disposal>>

EnsureDisposed ==
  /\ disposed' = TRUE
  /\ disposing' = IF disposed THEN disposing ELSE Analyzer
  /\ UNCHANGED disposals

Detach ==
  /\ pc = "detach"
  /\ order' = Without(Replay)
  /\ pc' = "dispose"
  /\ EnsureDisposed
  /\ UNCHANGED <<setup, heard, attentive, seq, analysis>>

(* Mutant: the error path forgets the analyzers. *)
CatchError_NoDispose ==
  /\ pc = "catch"
  /\ EmitOk(Failure) \/ EmitThrows(Failure)
  /\ order' = Without(Replay)
  /\ pc' = "disposeFailed"
  /\ UNCHANGED <<setup, attentive, seq, analysis, disposal>>

(* scan_error is emitted; if that throws too, the throw is logged.         *)
CatchError ==
  /\ pc = "catch"
  /\ EmitOk(Failure) \/ EmitThrows(Failure)
  /\ order' = Without(Replay)
  /\ pc' = "disposeFailed"
  /\ EnsureDisposed
  /\ UNCHANGED <<setup, attentive, seq, analysis>>

(* Every dispose is called; one that throws is logged.                     *)
Dispose(a) ==
  /\ a \in disposing
  /\ disposing' = disposing \ {a}
  /\ disposals' = [disposals EXCEPT ![a] = @ + 1]
  /\ UNCHANGED <<setup, pc, events, seq, analysis, disposed>>

Finish ==
  /\ pc \in {"dispose", "disposeFailed"}
  /\ disposing = {}
  /\ pc' = IF pc = "dispose" THEN "returned" ELSE "threw"
  /\ UNCHANGED <<setup, events, seq, analysis, disposal>>

Proceed ==
  \/ EmitStarted \/ EmitScanning \/ EmitVerdict
  \/ StartAnalyzers
  \/ \E a \in Analyzer, ok \in BOOLEAN : AnalyzerSettles(a, ok)
  \/ Report \/ EmitComplete \/ Detach \/ CatchError
  \/ \E a \in Analyzer : Dispose(a)
  \/ Finish

Next ==
  \/ Begin
  \/ Proceed
  \/ \E l \in Listener : Listen(l) \/ Unlisten(l)

Spec == Init /\ [][Next]_vars

(* Promises settle: analyzers come back with findings or an error, and the *)
(* event loop carries the scan on.  Callers need do nothing.               *)
Fairness ==
  /\ WF_vars(Proceed)
  /\ \A a \in Analyzer :
       /\ WF_vars(AnalyzerSettles(a, TRUE) \/ AnalyzerSettles(a, FALSE))
       /\ WF_vars(Dispose(a))

FairSpec == Spec /\ Fairness

--------------------------------------------------------------------------------
Ended == pc \in {"returned", "threw"}

(* Every variable has its type.                                            *)
TypeOK ==
  /\ emitter \in {"given", "own", "null"}
  /\ elementIter \in BOOLEAN
  /\ pc \in {"init", "started", "scanning", "verdict", "analyze", "analyzing",
             "complete", "detach", "catch", "dispose", "disposeFailed",
             "returned", "threw"}
  /\ ToSet(order) \subseteq Hearing /\ IsInjective(order)
  /\ \A l \in Hearing : ToSet(heard[l]) \subseteq ScanEvent(2 * Elements)
  /\ seq \in 0 .. 2 * Elements
  /\ running \subseteq Analyzer
  /\ findings \in [Domain -> [by : Analyzer \union {Nobody}, ok : BOOLEAN]]
  /\ disposed \in BOOLEAN
  /\ disposing \subseteq Analyzer
  /\ disposals \in [Analyzer -> 0 .. 1]
  /\ attentive \subseteq Listener

(* Whoever listens from the start hears the events of the scan in the      *)
(* locked order and without gaps, up to a scan_error that is the last it   *)
(* hears, whoever throws and whoever else comes and goes (events.ts:63,    *)
(* element-iter.ts:55).                                                    *)
HeardInOrder ==
  \A l \in attentive \union {Replay} :
    LET st   == heard[l]
        body == IF st # <<>> /\ Last(st) = Failure THEN Front(st) ELSE st
    IN  Locked(body) /\ Failure \notin ToSet(body)

(* A result that is returned brings the whole stream: an event that the    *)
(* replay missed because of another listener makes the scan throw instead  *)
(* (orchestrator.ts:50, :137).                                             *)
ReturnedReplayIsWhole ==
  pc = "returned" /\ elementIter =>
    heard[Replay] = <<Started>> \o [i \in 1 .. 2 * Elements |-> Element(i - 1)] \o <<Complete>>

(* orchestrator.ts:153: dispose is called exactly once on every analyzer,  *)
(* also when the scan throws, and the replay no longer listens.            *)
DisposedExactlyOnce ==
  Ended => (\A a \in Analyzer : disposals[a] = 1) /\ Replay \notin ToSet(order)

(* An analyzer that throws costs its own findings only: what an analyzer   *)
(* alone in its domain found is in the report, whatever the others do and  *)
(* in whatever order they settle (orchestrator.ts:86-98).                  *)
FailureIsIsolated ==
  \A d \in Domain, a \in Analyzer :
    /\ pc = "returned"
    /\ {b \in Analyzer : DomainOf[b] = d} = {a}
    => findings[d].by = a

(* A scan that is begun returns or throws.                                 *)
ScanEnds == pc = "started" \/ pc = "analyze" ~> Ended
================================================================================

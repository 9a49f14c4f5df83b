----------------------------- MODULE MCEvidence -----------------------------
(***************************************************************************)
(* The ledger and the anchor of a day's leaves, in one model: part says    *)
(* which of them a behaviour is about.  The other one stays as it began.   *)
(***************************************************************************)
EXTENDS MCHaesLedger, MCMerkleAnchor

VARIABLE part

evidenceVars == <<part, vars, dayVars>>

EvidenceInit == part \in {"ledger", "anchor"} /\ Init /\ DayInit

EvidenceNext ==
  \/ part = "ledger" /\ Next /\ UNCHANGED <<part, dayVars>>
  \/ part = "anchor" /\ DayNext /\ UNCHANGED <<part, vars>>

EvidenceSpec == EvidenceInit /\ [][EvidenceNext]_evidenceVars /\ Fairness
=============================================================================

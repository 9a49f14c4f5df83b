------------------------------ MODULE MCFixes -------------------------------
(***************************************************************************)
(* The reverter on the deliveries of MCReverter, and the cluster function  *)
(* it calls on every small input, in one model: part says which of them a  *)
(* behaviour is about.  The other one stays as it began.                   *)
(***************************************************************************)
EXTENDS MCReverter, MCFindingClusters

VARIABLE part

fixVars == <<part, vars, callVars>>

ReverterRests == Init /\ \A e \in Event : e \in GitHubEvent <=> handler[e].pc = "idle"

FixInit ==
  \/ part = "reverter" /\ Init /\ given = << >> /\ returned = << >>
  \/ part = "clusters" /\ ReverterRests /\ CallInit

FixNext ==
  \/ part = "reverter" /\ Next /\ UNCHANGED <<part, callVars>>
  \/ part = "clusters" /\ Build /\ UNCHANGED <<part, vars>>

FixSpec == FixInit /\ [][FixNext]_fixVars
=============================================================================

------------------------------ MODULE MCGates ------------------------------
(***************************************************************************)
(* The two gates of the command line, each on the inputs of its MC module, *)
(* in one model: the diff gate of a pull request and the content gate of a *)
(* prompt.  part says which of them a behaviour is about; the other one    *)
(* stays as it began, on one of its inputs.                                *)
(***************************************************************************)
EXTENDS MCDiffGate, MCContentPolicy

VARIABLE part

gateVars == <<part, vars, policyVars>>

ARestingJob == CHOOSE j \in Inputs : TRUE
ARestingDoc == CHOOSE d \in Docs : TRUE
ARestingBudget == CHOOSE b \in Budgets : TRUE

DiffRests == job = ARestingJob /\ decisionFile = NoFile /\ Init

ContentRests ==
  /\ doc = ARestingDoc
  /\ options = [calls |-> ARestingBudget, prefilter |-> NoPrefilter]
  /\ PolicyInit

GateInit ==
  \/ part = "diff" /\ Init /\ ContentRests
  \/ part = "content" /\ DiffRests /\ PolicyInit

GateNext ==
  \/ part = "diff" /\ Next /\ UNCHANGED <<part, policyVars>>
  \/ part = "content" /\ PolicyNext /\ UNCHANGED <<part, vars>>

GateSpec == GateInit /\ [][GateNext]_gateVars
=============================================================================

------------------------------ MODULE MCEngine ------------------------------
(***************************************************************************)
(* The two ways to scan that the engine has, in one model: part says which *)
(* of them a behaviour is about.  The other one rests.                     *)
(***************************************************************************)
EXTENDS MCOrchestrator, MCMultiDomainScan

VARIABLE part

engineVars == <<part, vars, scanVars>>

OrchestratorRests ==
  /\ elementIter = FALSE /\ emitter = "null" /\ pc = "init" /\ order = << >>
  /\ heard = [l \in Hearing |-> << >>] /\ seq = 0
  /\ running = {} /\ findings = [d \in Domain |-> NoFindings]
  /\ disposed = FALSE /\ disposing = {} /\ disposals = [a \in Analyzer |-> 0]
  /\ attentive = {}

MultiDomainRests ==
  /\ call = [c \in Call |-> [report |-> NoReport, exit |-> Running]]
  /\ slot = << >> /\ mixed = {}

EngineInit ==
  \/ part = "orchestrator" /\ Init /\ MultiDomainRests
  \/ part = "multi-domain" /\ ScanInit /\ OrchestratorRests

EngineNext ==
  \/ part = "orchestrator" /\ Next /\ UNCHANGED <<part, scanVars>>
  \/ part = "multi-domain" /\ ScanNext /\ UNCHANGED <<part, vars>>

EngineSpec == EngineInit /\ [][EngineNext]_engineVars /\ Fairness
=============================================================================

----------------------------- MODULE MCOrchestrator ----------------------------
(***************************************************************************)
(* Small instances of Orchestrator: three analyzers, two of them of one    *)
(* domain, two listeners of which one may throw.                           *)
(***************************************************************************)
EXTENDS Orchestrator, TLC

CONSTANTS x1, x2, x3, d1, d2, l1, l2

MCDomainOf == (x1 :> d1) @@ (x2 :> d2) @@ (x3 :> d2)
================================================================================

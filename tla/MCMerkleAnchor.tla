---------------------------- MODULE MCMerkleAnchor -----------------------------
(***************************************************************************)
(* Days of up to seven leaves: every shape a tree of depth three has, with   *)
(* a promoted node at the first level, at the second, and at both.         *)
(***************************************************************************)
EXTENDS MerkleAnchor

CONSTANTS h1, h2
================================================================================

----------------------------- MODULE MCScanBackend -----------------------------
(***************************************************************************)
(* Small instances of ScanBackend.  The script is that of a scan of which  *)
(* a listener throws on the end (orchestrator.ts:124-142); as any of its   *)
(* events may not be delivered, it stands for the shorter ones too.        *)
(***************************************************************************)
EXTENDS ScanBackend, TLC

CONSTANTS s1, s2, p1, p2, p3

MCScripts == {<<Started, Complete, Failure>>}

Permuting == Permutations(Scan) \union Permutations(Attempt)
================================================================================

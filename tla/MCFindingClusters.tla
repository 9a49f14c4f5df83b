------------------------- MODULE MCFindingClusters -------------------------
(***************************************************************************)
(* ClusterCall on every sequence of up to three findings over two rules    *)
(* and two files of four lines: blocks that are extended, closed and       *)
(* nested, groups that interleave, and the cap.                            *)
(***************************************************************************)
EXTENDS ClusterCall
=============================================================================

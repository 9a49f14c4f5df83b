------------------------------ MODULE MCBlamer ------------------------------
(***************************************************************************)
(* Three heads: at the threshold of 60% by two agents, whose shares of 0.2 *)
(* and 0.4 add up to 0.6000000000000001 in floating point; above it by     *)
(* files a page holds; and without a text file.  A webhook of the first    *)
(* and one of the second head, and a deployment beside them.               *)
(***************************************************************************)
EXTENDS Blamer, TLC

CONSTANTS p1, p2, d1

MCHeadOf == p1 :> 1 @@ p2 :> 2
MCDiff == <<<<"claude", "human", "binary", "copilot", "copilot", "unsure">>,
            <<"claude", "copilot", "human", "binary">>,
            <<"binary">>>>
=============================================================================

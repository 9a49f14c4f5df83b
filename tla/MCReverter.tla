----------------------------- MODULE MCReverter -----------------------------
(***************************************************************************)
(* Check runs of one installation, and a deployment whose webhook comes    *)
(* twice, with findings that make several clusters: two files for one      *)
(* rule, and another rule.                                                 *)
(***************************************************************************)
EXTENDS Reverter

CONSTANTS e1, e2, v1, v2, i1, r1, r2, f1, f2, s1, s2

F(n, rule, file, line) ==
  [fingerprint |-> n, rule |-> rule, wcagSc |-> rule, file |-> file, start |-> line, end |-> line]

A == F(1, r1, f1, 1)
B == F(2, r1, f2, 1)
C == F(3, r2, f1, 1)
D == F(4, r1, f1, 9)

(* The two deliveries of the deployment bear one deployment id.            *)
MCInstallationOf == [e \in Event |-> IF e \in GitHubEvent THEN i1 ELSE v1]

MCHeadShaOf == [e \in Event |-> IF e = e2 THEN s2 ELSE s1]

(* Two check runs, a check run and a deployment of one commit, and the *)
(* deployment whose webhook comes twice.                               *)
MCDeliveries == {{e1, e2}, {e1, v1}, {v1, v2}}

MCFindingsOf == [e \in Event |-> CASE e = e1 -> <<A, C, B>>
                                   [] e = e2 -> <<C, D>>
                                   [] OTHER -> <<B, A>>]
=============================================================================

----------------------------- MODULE ClusterCall ----------------------------
(***************************************************************************)
(* One call of buildFindingClusters, on any sequence of up to MaxFindings  *)
(* findings that a scanner can report.                                     *)
(***************************************************************************)
EXTENDS FindingClusters

CONSTANTS MaxFindings, \* the longest input
          LastLineNo,  \* the last line of a file
          Rules, Files

ASSUME CallAssumption == MaxFindings \in Nat /\ LastLineNo \in Nat

VARIABLES given,   \* the argument
          returned \* what the call has returned, << >> before it

callVars == <<given, returned>>

(* What the scanner says of one element.  A finding may lack its file, or *)
(* its lines, or its last line; one criterion goes with each rule.        *)
WithLines == {[rule |-> r, wcagSc |-> r, file |-> f, start |-> s, end |-> e] :
                r \in Rules, f \in Files, s \in 1..LastLineNo, e \in 0..LastLineNo}
Shapes == {f \in WithLines : f.end = NoLine \/ f.end >= f.start}
            \cup {[rule |-> r, wcagSc |-> r, file |-> f, start |-> NoLine, end |-> NoLine] :
                    r \in Rules, f \in Files \cup {NoFile}}

(* A fingerprint names the place of a finding in the input. *)
Finding(i, shape) ==
  [fingerprint |-> i, rule |-> shape.rule, wcagSc |-> shape.wcagSc,
   file |-> shape.file, start |-> shape.start, end |-> shape.end]

CallInit ==
  /\ \E n \in 1..MaxFindings : \E s \in [1..n -> Shapes] :
       given = [i \in 1..n |-> Finding(i, s[i])]
  /\ returned = << >>

Build ==
  /\ returned = << >>
  /\ returned' = BuildFindingClusters(given)
  /\ returned' # << >>
  /\ UNCHANGED given

CallSpec == CallInit /\ [][Build]_callVars

-----------------------------------------------------------------------------

(* The places of a fingerprint: which cluster, and where in it. *)
InCluster(i, c) == \E n \in DOMAIN c.fingerprints : c.fingerprints[n] = i

InOneCluster(i, clusters) ==
  \E k \in DOMAIN clusters : \E n \in DOMAIN clusters[k].fingerprints :
    /\ clusters[k].fingerprints[n] = i
    /\ \A l \in DOMAIN clusters : \A m \in DOMAIN clusters[l].fingerprints :
         clusters[l].fingerprints[m] = i => l = k /\ m = n

(* Below the cap every finding with a file is in one cluster, once, so no *)
(* finding is left without a fix and none is fixed by two pull requests:  *)
(* neither grouping, nor a new block, nor the last flush loses any.       *)
EachFindingInOneCluster ==
  (returned # << >> /\ Len(returned) < MaxClusters) =>
    \A i \in DOMAIN given :
      IF given[i].file = NoFile
      THEN ~ \E k \in DOMAIN returned : InCluster(i, returned[k])
      ELSE InOneCluster(i, returned)

(* A pull request speaks for the findings it claims to fix: they are of its *)
(* rule and its file, and its lines, which its body quotes, cover theirs.   *)
ClusterCoversItsFindings ==
  \A k \in DOMAIN returned : \A i \in DOMAIN given :
    InCluster(i, returned[k]) =>
      /\ given[i].rule = returned[k].rule /\ given[i].file = returned[k].file
      /\ given[i].start # NoLine =>
           returned[k].start <= FirstLine(given[i]) /\ LastLine(given[i]) <= returned[k].end
=============================================================================

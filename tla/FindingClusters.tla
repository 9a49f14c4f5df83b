-------------------------- MODULE FindingClusters --------------------------
(***************************************************************************)
(* How the reverter cuts the findings of one scan into clusters, one       *)
(* fix-PR each: buildFindingClusters of ariada-reverter-adapter.           *)
(*                                                                         *)
(* A finding is a record of its fingerprint, rule, success criterion and   *)
(* source file with its first and last line; NoFile and NoLine stand for   *)
(* the fields the scanner may leave out.  The module has no state: it      *)
(* gives BuildFindingClusters, which Reverter uses for every event.        *)
(***************************************************************************)
EXTENDS Integers, Sequences, FiniteSets

CONSTANTS MaxClusterLines,  \* MAX_CLUSTER_LINES
          MaxClusters,      \* MAX_CLUSTERS_PER_SCAN
          NoFile

NoLine == 0

ASSUME ClusterBoundsAssumption ==
  /\ MaxClusterLines \in Nat \ {0}
  /\ MaxClusters \in Nat \ {0}

(* What Array.prototype.sort makes of a set with a total order: its k-th    *)
(* member has k-1 members before it.                                        *)
Listing(S, before) ==
  [k \in 1..Cardinality(S) |->
     CHOOSE x \in S : Cardinality({y \in S : <<y, x>> \in before}) = k - 1]

(* A group is the set of the places of its findings, each with a file; the  *)
(* groups come in the order of their first findings.                        *)
GroupKey(f) == <<f.rule, f.file, f.wcagSc>>
Located(findings) == {i \in DOMAIN findings : findings[i].file # NoFile}
GroupAt(findings, i) == {j \in Located(findings) : GroupKey(findings[j]) = GroupKey(findings[i])}

Groups(findings) ==
  LET heads   == {i \in Located(findings) : \A j \in GroupAt(findings, i) : i <= j}
      earlier == {p \in heads \X heads : p[1] < p[2]}
      ordered == Listing(heads, earlier)
  IN  [k \in DOMAIN ordered |-> GroupAt(findings, ordered[k])]

(* The sort is stable; a finding without a line counts as on line infinity. *)
Earlier(f, g) == f.start # NoLine /\ (g.start = NoLine \/ f.start < g.start)

SortedByLine(findings, group) ==
  LET before == {p \in group \X group :
                   \/ Earlier(findings[p[1]], findings[p[2]])
                   \/ ~Earlier(findings[p[2]], findings[p[1]]) /\ p[1] < p[2]}
      ordered == Listing(group, before)
  IN  [k \in DOMAIN ordered |-> findings[ordered[k]]]

FirstLine(f) == IF f.start = NoLine THEN 1 ELSE f.start
LastLine(f)  == IF f.end = NoLine THEN FirstLine(f) ELSE f.end

(***************************************************************************)
(* The loop over a sorted group.  Its state is the clusters made so far    *)
(* and the open block: the findings in it and its line range.              *)
(***************************************************************************)
OpenBlock(loop, f) ==
  [loop EXCEPT !.slice = <<f>>, !.start = FirstLine(f), !.end = LastLine(f)]

FitsBlock(loop, f) ==
  /\ FirstLine(f) <= loop.end + MaxClusterLines
  /\ LastLine(f) - loop.start <= MaxClusterLines

(* Mutant: a short finding inside the block pulls its end up. *)
ExtendBlock_LastEnds(loop, f) ==
  [loop EXCEPT !.slice = Append(@, f), !.end = LastLine(f)]

ExtendBlock(loop, f) ==
  [loop EXCEPT !.slice = Append(@, f), !.end = IF LastLine(f) > @ THEN LastLine(f) ELSE @]

Flush(loop) ==
  IF loop.slice = << >> THEN loop.clusters
  ELSE Append(loop.clusters,
              [rule |-> loop.slice[1].rule, wcagSc |-> loop.slice[1].wcagSc,
               file |-> loop.slice[1].file, start |-> loop.start, end |-> loop.end,
               fingerprints |-> [i \in DOMAIN loop.slice |-> loop.slice[i].fingerprint]])

(* A new block closes the open one; at the cap the loop is left for good, *)
(* with the block it has just flushed still the open one.                 *)
StartBlock(loop, f) ==
  LET flushed == [loop EXCEPT !.clusters = Flush(loop)]
  IN  IF Len(flushed.clusters) >= MaxClusters
      THEN [flushed EXCEPT !.left = TRUE]
      ELSE OpenBlock(flushed, f)

BlockStep(loop, f) ==
  CASE loop.left                              -> loop
    [] ~loop.left /\ loop.slice = << >>       -> OpenBlock(loop, f)
    [] OTHER -> IF FitsBlock(loop, f) THEN ExtendBlock(loop, f) ELSE StartBlock(loop, f)

BlockLoop(clusters, group) ==
  LET loop[k \in 0..Len(group)] ==
        IF k = 0 THEN [clusters |-> clusters, slice |-> << >>, start |-> 1, end |-> 1, left |-> FALSE]
        ELSE BlockStep(loop[k - 1], group[k])
  IN  loop

(* Mutant: the last open block of a group is never flushed. *)
AddGroup_NoLastFlush(clusters, group) == BlockLoop(clusters, group)[Len(group)].clusters

(* One group's clusters, after those of the groups before it. *)
AddGroup(clusters, group) ==
  IF Len(clusters) >= MaxClusters THEN clusters
  ELSE Flush(BlockLoop(clusters, group)[Len(group)])

GroupLoop(findings, groups) ==
  LET made[k \in 0..Len(groups)] ==
        IF k = 0 THEN << >> ELSE AddGroup(made[k - 1], SortedByLine(findings, groups[k]))
  IN  made

BuildFindingClusters(findings) ==
  LET groups == Groups(findings) IN GroupLoop(findings, groups)[Len(groups)]
=============================================================================

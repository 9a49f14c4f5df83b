------------------------------- MODULE GateProofs ------------------------------
(***************************************************************************)
(* Proofs about the two gates: the differential gate of a pull request and *)
(* the content gate of a published surface.                                *)
(*                                                                         *)
(* The differential gate, for any number of findings, tags and             *)
(* jurisdictions and every policy.  Two halves.  The script: what it ends  *)
(* with was decided in this job, in whatever state the files were when it  *)
(* began.  The decision: a group is judged like the first of its members   *)
(* that has a tag with a rule, and like all of them if none has, so that a *)
(* finding is judged as it would be alone, or as a tagged one of its group. *)
(*                                                                         *)
(* The content gate, for any text, profile, rules, budget, depth and size  *)
(* of a snippet.  The chunker loses no span of the lines it is given,      *)
(* which takes an induction over the rounds of each of its loops; so while *)
(* a prompt is judged each of its spans is heard, or still to come on some *)
(* level, or the rule is going to be listed as not evaluated.              *)
(***************************************************************************)
EXTENDS DiffGate, ContentPolicy, SequenceTheorems, WellFoundedInduction, TLAPS

Below == {p \in Nat \X Nat : p[1] < p[2]}

(* A set of naturals that is not empty has a least member. *)
LEMMA Least ==
  ASSUME NEW T, T \subseteq Nat, T # {}
  PROVE  \E x \in T : \A y \in T : x <= y
<1>1. Below = OpToRel(<, Nat)  BY Zenon DEF Below, OpToRel
<1>2. PICK x \in T : \A y \in T : <<y, x>> \notin Below
  BY <1>1, NatLessThanWellFounded, WFMin, Zenon
<1>3. ASSUME NEW y \in T, y < x PROVE FALSE
  <2>1. <<y, x>> \in Below  BY <1>3 DEF Below
  <2> QED  BY <1>2, <2>1
<1> QED  BY <1>3

(* Which Min finds. *)
LEMMA MinIsAMember ==
  ASSUME NEW S, S \subseteq Nat, S # {}
  PROVE  Min(S) \in S
BY Least DEF Min

LEMMA MinOfOne == ASSUME NEW n \in Nat PROVE Min({n}) = n
<1>1. {n} \subseteq Nat /\ {n} # {}  OBVIOUS
<1>2. Min({n}) \in {n}  BY <1>1, MinIsAMember
<1> QED  BY <1>2

-----------------------------------------------------------------------------
(* A rule for a group and for each of its members.                         *)

(* What a finding is given alone. *)
OwnRule(policy, bucket, severity, f) ==
  IF TagsWithRule(policy, bucket, severity, f) # {}
  THEN PickRule(policy.jurisdictions[f.tags[Min(TagsWithRule(policy, bucket, severity, f))]][bucket], severity)
  ELSE IF HasRule(policy.defaults[bucket], severity)
       THEN PickRule(policy.defaults[bucket], severity)
       ELSE "info"

LEMMA RuleForOne ==
  ASSUME NEW policy, NEW bucket, NEW severity, NEW f
  PROVE  RuleFor(policy, bucket, severity, <<f>>) = OwnRule(policy, bucket, severity, f)
<1> DEFINE tagged == {i \in DOMAIN <<f>> : TagsWithRule(policy, bucket, severity, <<f>>[i]) # {}}
<1>1. DOMAIN <<f>> = {1} /\ <<f>>[1] = f  OBVIOUS
<1>2. CASE TagsWithRule(policy, bucket, severity, f) # {}
  <2>1. tagged = {1}  BY <1>1, <1>2
  <2>2. Min(tagged) = 1  BY <2>1, MinOfOne
  <2> QED  BY <1>1, <1>2, <2>1, <2>2 DEF RuleFor, OwnRule
<1>3. CASE TagsWithRule(policy, bucket, severity, f) = {}
  <2>1. tagged = {}  BY <1>1, <1>3
  <2> QED  BY <1>3, <2>1 DEF RuleFor, OwnRule
<1> QED  BY <1>2, <1>3

(* A group is judged like a member with a tag that has a rule, or else     *)
(* like every member.                                                      *)
LEMMA RuleForGroup ==
  ASSUME NEW policy, NEW bucket, NEW severity, NEW group,
         DOMAIN group \subseteq Nat, NEW i \in DOMAIN group
  PROVE  \E k \in DOMAIN group :
           /\ RuleFor(policy, bucket, severity, group) = OwnRule(policy, bucket, severity, group[k])
           /\ k = i \/ TagsWithRule(policy, bucket, severity, group[k]) # {}
<1> DEFINE tagged == {k \in DOMAIN group : TagsWithRule(policy, bucket, severity, group[k]) # {}}
<1>1. CASE tagged # {}
  <2>1. Min(tagged) \in tagged
    <3>1. tagged \subseteq Nat  OBVIOUS
    <3> HIDE DEF tagged
    <3> QED  BY <1>1, <3>1, MinIsAMember
  <2>2. RuleFor(policy, bucket, severity, group) = OwnRule(policy, bucket, severity, group[Min(tagged)])
    BY <1>1, <2>1 DEF RuleFor, OwnRule
  <2> QED  BY <2>1, <2>2
<1>2. CASE tagged = {}
  <2>1. \A k \in DOMAIN group : TagsWithRule(policy, bucket, severity, group[k]) = {}
    BY <1>2
  <2> QED  BY <1>2, <2>1 DEF RuleFor, OwnRule
<1> QED  BY <1>1, <1>2

-----------------------------------------------------------------------------
(* Judging groups and judging findings.                                    *)

(* What the group of the i-th finding is given, and what a finding is given alone. *)
GroupVerdict(policy, bucket, scan, i) ==
  ResolvePolicy(policy, bucket, scan[i].severity, scan[i].review,
                Group(scan, scan[i].severity, scan[i].review))

OwnVerdict(policy, bucket, f) == ResolvePolicy(policy, bucket, f.severity, f.review, <<f>>)

(* What a finding is given is what it is given alone, or what another of   *)
(* its group is, one that has a tag with a rule.                           *)
LEMMA GroupsAreLikeAMember ==
  ASSUME NEW policy, NEW bucket, NEW scan, DOMAIN scan \subseteq Nat,
         NEW i \in DOMAIN scan
  PROVE  \E k \in DOMAIN scan :
           /\ GroupVerdict(policy, bucket, scan, i) = OwnVerdict(policy, bucket, scan[k])
           /\ scan[k].severity = scan[i].severity /\ scan[k].review = scan[i].review
           /\ k = i \/ TagsWithRule(policy, bucket, scan[k].severity, scan[k]) # {}
<1> DEFINE severity == scan[i].severity
           review == scan[i].review
           group == Group(scan, severity, review)
<1>1. /\ DOMAIN group \subseteq DOMAIN scan /\ i \in DOMAIN group
      /\ \A k \in DOMAIN group : /\ group[k] = scan[k]
                                 /\ scan[k].severity = severity
                                 /\ scan[k].review = review
  BY DEF Group, Restrict
<1> HIDE DEF group, severity, review
<1>2. PICK k \in DOMAIN group :
        /\ RuleFor(policy, bucket, severity, group) = OwnRule(policy, bucket, severity, group[k])
        /\ k = i \/ TagsWithRule(policy, bucket, severity, group[k]) # {}
  BY <1>1, RuleForGroup
<1>3. RuleFor(policy, bucket, severity, group) = RuleFor(policy, bucket, severity, <<scan[k]>>)
  BY <1>1, <1>2, RuleForOne
<1>4. ResolvePolicy(policy, bucket, severity, review, group)
        = ResolvePolicy(policy, bucket, severity, review, <<scan[k]>>)
  BY <1>3, Zenon DEF ResolvePolicy
<1>5. GroupVerdict(policy, bucket, scan, i) = OwnVerdict(policy, bucket, scan[k])
  BY <1>1, <1>2, <1>4 DEF group, severity, review, GroupVerdict, OwnVerdict
<1> QED  BY <1>1, <1>2, <1>5 DEF severity, review

LEMMA WorstIs ==
  ASSUME NEW actions
  PROVE  /\ Worst(actions) = "fail" <=> "fail" \in actions
         /\ Worst(actions) = "pass" <=> "fail" \notin actions /\ "warn" \notin actions
  BY DEF Worst

(* The actions of a diff are the verdicts on the groups of its findings.   *)
LEMMA ActionsAreVerdicts ==
  ASSUME NEW diff, NEW policy, NEW action
  PROVE  action \in Actions(diff, policy) <=>
           \E b \in Bucket : \E i \in DOMAIN diff[b] : action = GroupVerdict(policy, b, diff[b], i)
<1> DEFINE judged(b, f) == ResolvePolicy(policy, b, f.severity, f.review, Group(diff[b], f.severity, f.review))
<1>1. \A b : \A i \in DOMAIN diff[b] : judged(b, diff[b][i]) = GroupVerdict(policy, b, diff[b], i)
  BY Zenon DEF GroupVerdict
<1>2. Actions(diff, policy) = UNION {{judged(b, f) : f \in Range(diff[b])} : b \in Bucket}
  BY Zenon DEF Actions
<1> HIDE DEF judged
<1>3. action \in Actions(diff, policy) <=> \E b \in Bucket : \E f \in Range(diff[b]) : action = judged(b, f)
  <2>1. ASSUME action \in Actions(diff, policy)
        PROVE  \E b \in Bucket : \E f \in Range(diff[b]) : action = judged(b, f)
    <3>1. PICK b \in Bucket : action \in {judged(b, f) : f \in Range(diff[b])}  BY <1>2, <2>1
    <3> QED  BY <3>1
  <2>2. ASSUME NEW b \in Bucket, NEW f \in Range(diff[b]), action = judged(b, f)
        PROVE  action \in Actions(diff, policy)
    <3>1. action \in {judged(b, g) : g \in Range(diff[b])}  BY <2>2
    <3> QED  BY <1>2, <3>1
  <2> QED  BY <2>1, <2>2
<1>4. ASSUME NEW b
      PROVE  (\E f \in Range(diff[b]) : action = judged(b, f))
               <=> \E i \in DOMAIN diff[b] : action = GroupVerdict(policy, b, diff[b], i)
  BY <1>1, Zenon DEF Range
<1> QED  BY <1>3, <1>4, Zenon

-----------------------------------------------------------------------------
(* The findings of the job and the diff made of them.                      *)

Diff == ClassifyStub(job.head, job.base)
Decision == BuildGateDecision(Diff, job.policy)

(* The buckets hold findings of the job at positions.                      *)
LEMMA BucketsHold ==
  ASSUME job \in Inputs, NEW b \in Bucket
  PROVE  DOMAIN Diff[b] \subseteq Nat
<1>1. job.head \in Seq(Range(job.head)) /\ job.base \in Seq(Range(job.base))
  BY InputsAssumption
<1>2. DOMAIN job.head \subseteq Nat /\ DOMAIN job.base \subseteq Nat  BY <1>1
<1>3. CASE b = "new"
  BY <1>1, <1>2, <1>3 DEF Diff, ClassifyStub, Restrict, Known
<1>4. CASE b = "pre_existing"
  BY <1>1, <1>2, <1>4 DEF Diff, ClassifyStub, Restrict, Known
<1>5. CASE b = "resolved"
  BY <1>1, <1>2, <1>5 DEF Diff, ClassifyStub, Restrict, Known
<1> QED  BY <1>3, <1>4, <1>5 DEF Bucket

(* The findings of the head are those in the first two buckets. *)
LEMMA BucketsAreOfTheHead ==
  ASSUME NEW b \in {"new", "pre_existing"}, NEW i \in DOMAIN Diff[b]
  PROVE  <<b, Diff[b][i]>> \in HeadFindings
<1>1. CASE b = "new"
  BY <1>1 DEF Diff, ClassifyStub, Restrict, Known, HeadFindings, Range
<1>2. CASE b = "pre_existing"
  BY <1>2 DEF Diff, ClassifyStub, Restrict, Known, HeadFindings, Range
<1> QED  BY <1>1, <1>2

LEMMA TheHeadIsInBuckets ==
  ASSUME NEW x \in HeadFindings
  PROVE  x[1] \in {"new", "pre_existing"} /\ \E i \in DOMAIN Diff[x[1]] : Diff[x[1]][i] = x[2]
<1>1. x[1] \in {"new", "pre_existing"} /\ x[2] \in Range(job.head)  BY DEF HeadFindings
<1>2. PICK i \in DOMAIN job.head : job.head[i] = x[2]  BY <1>1 DEF Range
<1>3. CASE x[1] = "new"
  <2>1. i \notin Known(job.head, job.base)  BY <1>2, <1>3 DEF HeadFindings, Known
  <2> QED  BY <1>1, <1>2, <1>3, <2>1 DEF Diff, ClassifyStub, Restrict
<1>4. CASE x[1] = "pre_existing"
  <2>1. i \in Known(job.head, job.base)  BY <1>2, <1>4 DEF HeadFindings, Known
  <2> QED  BY <1>1, <1>2, <1>4, <2>1 DEF Diff, ClassifyStub, Restrict
<1> QED  BY <1>1, <1>3, <1>4

(* If the decision gives none of the actions, a finding of the head that   *)
(* would be given one alone is spared for another of its group.            *)
LEMMA OthersSpare ==
  ASSUME job \in Inputs, NEW actions, actions \cap Actions(Diff, job.policy) = {}
  PROVE  SparedForAnother(actions)
<1> SUFFICES ASSUME NEW x \in HeadFindings, Alone(x[1], x[2]) \in actions
             PROVE  \E y \in GroupOf(x) :
                      /\ TagsWithRule(job.policy, y[1], y[2].severity, y[2]) # {}
                      /\ Alone(y[1], y[2]) \notin actions
  BY DEF SparedForAnother
<1>1. x[1] \in {"new", "pre_existing"}  BY TheHeadIsInBuckets
<1>2. PICK i \in DOMAIN Diff[x[1]] : Diff[x[1]][i] = x[2]  BY TheHeadIsInBuckets
<1> DEFINE b == x[1]
           scan == Diff[b]
<1>3. b \in Bucket /\ DOMAIN scan \subseteq Nat
  <2>1. b \in Bucket  BY <1>1 DEF Bucket
  <2> QED  BY <2>1, BucketsHold
<1>4. PICK k \in DOMAIN scan :
        /\ GroupVerdict(job.policy, b, scan, i) = OwnVerdict(job.policy, b, scan[k])
        /\ scan[k].severity = scan[i].severity /\ scan[k].review = scan[i].review
        /\ k = i \/ TagsWithRule(job.policy, b, scan[k].severity, scan[k]) # {}
  BY <1>2, <1>3, GroupsAreLikeAMember
<1>5. \A f : Alone(b, f) = OwnVerdict(job.policy, b, f)  BY Zenon DEF Alone, OwnVerdict
<1>6. GroupVerdict(job.policy, b, scan, i) \in Actions(Diff, job.policy)
  BY <1>2, <1>3, ActionsAreVerdicts
<1>7. Alone(b, scan[k]) \notin actions  BY <1>4, <1>5, <1>6
<1> DEFINE y == <<b, scan[k]>>
<1>8. y \in HeadFindings  BY <1>1, <1>4, BucketsAreOfTheHead
<1>9. y[1] = b /\ y[2] = scan[k]  OBVIOUS
<1> HIDE DEF y
<1>10. y \in GroupOf(x)  BY <1>2, <1>4, <1>8, <1>9 DEF GroupOf
<1>11. k # i  BY <1>2, <1>7
<1>12. TagsWithRule(job.policy, b, scan[k].severity, scan[k]) # {}  BY <1>4, <1>11
<1> QED  BY <1>7, <1>9, <1>10, <1>12

(* A decision that fails was made on a finding that fails alone. *)
LEMMA FailsAreOfAFinding ==
  ASSUME job \in Inputs, "fail" \in Actions(Diff, job.policy)
  PROVE  \E b \in Bucket : \E i \in DOMAIN Diff[b] : Alone(b, Diff[b][i]) = "fail"
<1>1. PICK b \in Bucket : \E i \in DOMAIN Diff[b] : "fail" = GroupVerdict(job.policy, b, Diff[b], i)
  BY ActionsAreVerdicts
<1>2. PICK i \in DOMAIN Diff[b] : "fail" = GroupVerdict(job.policy, b, Diff[b], i)  BY <1>1
<1>3. DOMAIN Diff[b] \subseteq Nat  BY BucketsHold
<1>4. PICK k \in DOMAIN Diff[b] :
        GroupVerdict(job.policy, b, Diff[b], i) = OwnVerdict(job.policy, b, Diff[b][k])
  BY <1>2, <1>3, GroupsAreLikeAMember
<1>5. Alone(b, Diff[b][k]) = OwnVerdict(job.policy, b, Diff[b][k])  BY Zenon DEF Alone, OwnVerdict
<1> QED  BY <1>2, <1>4, <1>5

-----------------------------------------------------------------------------
(***************************************************************************)
(* The script.  A step that is past the gate, and one that ended with 0 on *)
(* two scans or with 1 on a failure, has a decision of this job behind it: *)
(* whatever the decision file held when the job began has been replaced.   *)
(***************************************************************************)
Judged == GateDecides /\ diffFile = Diff /\ decisionFile = Decision

Ended ==
  /\ exit = 0 /\ job.cliOnPath /\ job.scansGiven => Judged /\ Decision.result # "fail"
  /\ exit = 1 /\ ~job.failOnWarn => Judged /\ Decision.result = "fail"
  /\ out.result = "pass" => /\ exit = 0 /\ Judged
                            /\ Decision.result = "pass" /\ out.newCount = Decision.newCount

IInv ==
  /\ job \in Inputs
  /\ pc \in {"start", "classify", "gate", "verdict", "done"}
  /\ pc # "done" => out = [result |-> None, newCount |-> NoNumber]
  /\ pc = "gate" => diffFile = Diff
  /\ pc \in {"classify", "gate", "verdict"} => job.cliOnPath /\ job.scansGiven
  /\ pc = "verdict" => Judged /\ Decision.result # "fail"
  /\ pc = "done" => Ended

LEMMA DecisionsAre ==
  /\ DOMAIN Decision = {"result", "newCount"}
  /\ Decision.result \in {"pass", "warn", "fail"}
  /\ Decision.result = "fail" <=> "fail" \in Actions(Diff, job.policy)
  /\ Decision.result = "pass" => /\ "fail" \notin Actions(Diff, job.policy)
                                 /\ "warn" \notin Actions(Diff, job.policy)
  /\ Decision.newCount = Cardinality(DOMAIN Diff.new)
<1> DEFINE actions == Actions(Diff, job.policy)
<1>1. /\ DOMAIN Decision = {"result", "newCount"}
      /\ Decision.result = Worst(actions)
      /\ Decision.newCount = Cardinality(DOMAIN Diff.new)
  BY DEF Decision, BuildGateDecision
<1> HIDE DEF actions
<1>2. Worst(actions) \in {"pass", "warn", "fail"}  BY DEF Worst
<1> QED  BY <1>1, <1>2, WorstIs DEF actions

(* A step keeps the job, and so what the job's diff and decision are. *)
LEMMA TheJobIsKept ==
  ASSUME job' = job
  PROVE  Diff' = Diff /\ Decision' = Decision /\ GateDecides' = GateDecides
  BY DEF Diff, Decision, GateDecides

(* What the script ends with is backed by a decision of this job.          *)
THEOREM Invariance == Spec => []IInv
<1>1. Init => IInv  BY DEF Init, IInv
<1>2. ASSUME IInv, [Next]_vars PROVE IInv'
  <2>0. job' = job
    BY <1>2 DEF Next, Start, Classify, Gate, Verdict, vars
  <2>k. Diff' = Diff /\ Decision' = Decision /\ GateDecides' = GateDecides
    BY <2>0, TheJobIsKept
  <2>1. CASE Start
    <3>1. CASE job.engine = "canonical" /\ ~job.token
      BY <1>2, <2>0, <2>1, <3>1 DEF IInv, Start, Emit, Exit, Ended, None, NoNumber
    <3>2. CASE ~(job.engine = "canonical" /\ ~job.token)
      BY <1>2, <2>0, <2>1, <3>2 DEF IInv, Start, Emit, Exit, Ended, None, NoNumber
    <3> QED  BY <3>1, <3>2
  <2>2. CASE Classify
    <3>1. CASE diffFile' = Diff /\ pc' = "gate" /\ UNCHANGED <<out, exit>>
      BY <1>2, <2>0, <2>k, <2>2, <3>1 DEF IInv, Classify
    <3>2. CASE Emit("fail") /\ Exit(IF job.engine = "canonical" THEN 2 ELSE 3)
      BY <1>2, <2>0, <2>2, <3>2 DEF IInv, Classify, Emit, Exit, Ended, None, NoNumber
    <3> QED  BY <2>2, <3>1, <3>2 DEF Classify, Diff
  <2>3. CASE Gate
    <3>1. pc = "gate" /\ diffFile = Diff /\ diffFile' = Diff  BY <1>2, <2>3 DEF Gate, IInv
    <3>2. CASE GateDecides /\ decisionFile' = Decision /\ Decision.result = "fail" /\ Emit("fail") /\ Exit(1)
      BY <1>2, <2>0, <2>k, <3>1, <3>2 DEF IInv, Emit, Exit, Ended, Judged, None, NoNumber
    <3>3. CASE GateDecides /\ decisionFile' = Decision /\ Decision.result # "fail"
               /\ pc' = "verdict" /\ UNCHANGED <<out, exit>>
      BY <1>2, <2>0, <2>k, <3>1, <3>3 DEF IInv, Judged
    <3>4. CASE Emit("fail") /\ (Exit(2) \/ Exit(3))
      BY <1>2, <2>0, <3>1, <3>4 DEF IInv, Emit, Exit, Ended, None, NoNumber
    <3>5. BuildGateDecision(diffFile, job.policy) = Decision  BY <3>1 DEF Decision
    <3> QED  BY <2>3, <3>2, <3>3, <3>4, <3>5 DEF Gate
  <2>4. CASE Verdict
    <3>1. /\ pc = "verdict" /\ Judged /\ Decision.result # "fail"
          /\ out' = Decision /\ pc' = "done" /\ Judged'
          /\ exit' = CASE Decision.result = "pass" -> 0
                       [] Decision.result = "warn" /\ ~job.failOnWarn -> 0
                       [] OTHER -> 1
      BY <1>2, <2>k, <2>4 DEF Verdict, Exit, IInv, Judged
    <3>2. /\ Decision.result = "pass" => exit' = 0
          /\ exit' = 1 => job.failOnWarn
      BY <3>1, DecisionsAre
    <3>3. Ended'
      BY <2>0, <2>k, <3>1, <3>2 DEF Ended
    <3> QED  BY <1>2, <2>0, <3>1, <3>3 DEF IInv
  <2>5. CASE UNCHANGED vars
    BY <1>2, <2>0, <2>k, <2>5 DEF IInv, Ended, Judged, vars
  <2> QED  BY <1>2, <2>1, <2>2, <2>3, <2>4, <2>5 DEF Next
<1> QED  BY <1>1, <1>2, PTL DEF Spec

(* A finding that fails on its own is let through only for another of its  *)
(* group, whose jurisdiction has a laxer rule: not by an earlier step's    *)
(* leftovers, nor by a command that fails.                                 *)
THEOREM FailingFindingsBlock == Spec => []FailingFindingBlocks
<1>1. ASSUME IInv PROVE FailingFindingBlocks
  <2> SUFFICES ASSUME LetThrough, ReachedTheGate
               PROVE  GateDecides /\ SparedForAnother({"fail"})
    BY DEF FailingFindingBlocks
  <2>1. job \in Inputs /\ Judged /\ Decision.result # "fail"
    BY <1>1 DEF IInv, Ended, LetThrough, Done, ReachedTheGate
  <2>2. "fail" \notin Actions(Diff, job.policy)  BY <2>1, DecisionsAre
  <2>3. {"fail"} \cap Actions(Diff, job.policy) = {}  BY <2>2
  <2> QED  BY <2>1, <2>3, OthersSpare DEF Judged
<1> QED  BY <1>1, Invariance, PTL

(* When the gate forbids the merge, some finding of the scan fails alone.  *)
THEOREM FailsHaveACulprit == Spec => []FailHasACulprit
<1>1. ASSUME IInv PROVE FailHasACulprit
  <2> SUFFICES ASSUME Done, exit = 1, ~job.failOnWarn
               PROVE  \/ \E x \in HeadFindings : Alone(x[1], x[2]) = "fail"
                      \/ \E i \in DOMAIN diffFile.resolved : Alone("resolved", diffFile.resolved[i]) = "fail"
    BY DEF FailHasACulprit
  <2>1. job \in Inputs /\ Judged /\ Decision.result = "fail"
    BY <1>1 DEF IInv, Ended, Done
  <2>2. PICK b \in Bucket : \E i \in DOMAIN Diff[b] : Alone(b, Diff[b][i]) = "fail"
    BY <2>1, DecisionsAre, FailsAreOfAFinding
  <2>0. PICK i \in DOMAIN Diff[b] : Alone(b, Diff[b][i]) = "fail"  BY <2>2
  <2>3. CASE b = "resolved"
    <3>1. diffFile = Diff  BY <2>1 DEF Judged
    <3> QED  BY <2>0, <2>3, <3>1
  <2>4. CASE b \in {"new", "pre_existing"}
    <3> DEFINE x == <<b, Diff[b][i]>>
    <3>1. x \in HeadFindings  BY <2>0, <2>4, BucketsAreOfTheHead
    <3>2. Alone(x[1], x[2]) = "fail"  BY <2>0
    <3> HIDE DEF x
    <3> QED  BY <3>1, <3>2
  <2> QED  BY <2>3, <2>4 DEF Bucket
<1> QED  BY <1>1, Invariance, PTL

(* A pass that is published was decided by this policy on these scans,     *)
(* with nothing in the head that even warns on its own but what is spared  *)
(* for another of its group.                                               *)
THEOREM PassesAreEarned == Spec => []PassIsEarned
<1>1. ASSUME IInv PROVE PassIsEarned
  <2> SUFFICES ASSUME Done, out.result = "pass"
               PROVE  /\ exit = 0 /\ GateDecides
                      /\ out.newCount = Cardinality({i \in DOMAIN job.head :
                           Fingerprint(job.head[i]) \notin FingerprintsOf(job.base)})
                      /\ SparedForAnother({"fail", "warn"})
    BY DEF PassIsEarned
  <2>1. /\ job \in Inputs /\ exit = 0 /\ Judged
        /\ Decision.result = "pass" /\ out.newCount = Decision.newCount
    BY <1>1 DEF IInv, Ended, Done
  <2>2. out.newCount = Cardinality(DOMAIN Diff.new)  BY <2>1, DecisionsAre
  <2>3. DOMAIN Diff.new = {i \in DOMAIN job.head :
                             Fingerprint(job.head[i]) \notin FingerprintsOf(job.base)}
    BY DEF Diff, ClassifyStub, Restrict, Known
  <2>4. {"fail", "warn"} \cap Actions(Diff, job.policy) = {}  BY <2>1, DecisionsAre
  <2>5. SparedForAnother({"fail", "warn"})  BY <2>1, <2>4, OthersSpare
  <2> QED  BY <2>1, <2>2, <2>3, <2>5 DEF Judged
<1> QED  BY <1>1, Invariance, PTL

-----------------------------------------------------------------------------
(***************************************************************************)
(* Loops.  What holds before the first round, and after a round if it did  *)
(* before, holds after every round: the first round after which it did not *)
(* would follow one after which it did.                                    *)
(***************************************************************************)
LEMMA EveryRound ==
  ASSUME NEW n \in Nat, NEW Held, 0 \in Held,
         \A k \in 1 .. n : k - 1 \in Held => k \in Held
  PROVE  \A k \in 0 .. n : k \in Held
<1> DEFINE T == {k \in 0 .. n : k \notin Held}
<1> SUFFICES ASSUME T # {} PROVE FALSE
  OBVIOUS
<1>1. PICK k \in T : \A j \in T : k <= j
  <2>1. T \subseteq Nat  OBVIOUS
  <2> QED  BY <2>1, Least
<1>2. k \in 0 .. n /\ k \notin Held  OBVIOUS
<1>3. k \in 1 .. n /\ k - 1 \in 0 .. n /\ ~ (k <= k - 1)  BY <1>2
<1>4. k - 1 \in Held  BY <1>1, <1>3
<1> QED  BY <1>2, <1>3, <1>4

(* A loop of n rounds from the state first, a step for each round, comes    *)
(* to an end: there is a function of the states after each round.           *)
IsLoop(f, n, first, step) ==
  f = [k \in 0 .. n |-> IF k = 0 THEN first ELSE step[k][f[k - 1]]]

LEMMA LoopsEnd ==
  ASSUME NEW n \in Nat, NEW S, NEW first \in S, NEW step \in [1 .. n -> [S -> S]]
  PROVE  \E f \in [0 .. n -> S] : IsLoop(f, n, first, step)
<1> DEFINE Held == {m \in 0 .. n : \E f \in [0 .. m -> S] : IsLoop(f, m, first, step)}
<1>1. 0 \in Held
  <2> DEFINE f == [k \in 0 .. 0 |-> first]
  <2>1. f \in [0 .. 0 -> S]  OBVIOUS
  <2>2. IsLoop(f, 0, first, step)  BY DEF IsLoop
  <2> QED  BY <2>1, <2>2
<1>2. ASSUME NEW m \in 1 .. n, m - 1 \in Held PROVE m \in Held
  <2>1. PICK f \in [0 .. m - 1 -> S] : IsLoop(f, m - 1, first, step)
    BY <1>2
  <2> DEFINE h == [k \in 0 .. m |-> IF k = 0 THEN first ELSE step[k][f[k - 1]]]
  <2>2. \A k \in 1 .. m : k \in 1 .. n /\ k - 1 \in 0 .. m - 1
    OBVIOUS
  <2>3. h \in [0 .. m -> S]
    <3>1. ASSUME NEW k \in 0 .. m, k # 0 PROVE step[k][f[k - 1]] \in S
      <4>1. k \in 1 .. n /\ k - 1 \in 0 .. m - 1  BY <3>1, <2>2
      <4>2. step[k] \in [S -> S] /\ f[k - 1] \in S  BY <4>1
      <4> QED  BY <4>2
    <3> QED  BY <3>1
  <2>4. ASSUME NEW k \in 0 .. m - 1 PROVE h[k] = f[k]
    <3>1. f[k] = IF k = 0 THEN first ELSE step[k][f[k - 1]]
      BY <2>1 DEF IsLoop
    <3>2. k \in 0 .. m  OBVIOUS
    <3> QED  BY <3>1, <3>2
  <2>5. ASSUME NEW k \in 0 .. m PROVE h[k] = IF k = 0 THEN first ELSE step[k][h[k - 1]]
    <3>1. CASE k = 0  BY <3>1
    <3>2. CASE k # 0
      <4>1. k - 1 \in 0 .. m - 1  BY <3>2
      <4>2. h[k - 1] = f[k - 1]  BY <4>1, <2>4
      <4> HIDE DEF h
      <4>3. h[k] = step[k][f[k - 1]]  BY <3>2 DEF h
      <4> QED  BY <3>2, <4>2, <4>3
    <3> QED  BY <3>1, <3>2
  <2>6. IsLoop(h, m, first, step)
    <3> HIDE DEF h
    <3>1. h = [k \in 0 .. m |-> h[k]]  BY <2>3
    <3> QED  BY <2>5, <3>1, Zenon DEF IsLoop
  <2>7. m \in 0 .. n  OBVIOUS
  <2> HIDE DEF h
  <2> QED  BY <2>3, <2>6, <2>7
<1>3. n \in Held
  <2> HIDE DEF Held
  <2>1. n \in 0 .. n  OBVIOUS
  <2> QED  BY <1>1, <1>2, <2>1, EveryRound
<1> QED  BY <1>3

AllOf(new, n) == UNION {new[k] : k \in 1 .. n}

(* A loop that adds to a set in each round has, in the end, added it all. *)
LEMMA Accumulated ==
  ASSUME NEW n \in Nat, NEW has, NEW new,
         \A k \in 1 .. n : has[k] = has[k - 1] \cup new[k]
  PROVE  has[n] = has[0] \cup AllOf(new, n)
<1> DEFINE Held == {m \in 0 .. n : has[m] = has[0] \cup AllOf(new, m)}
<1>1. 0 \in Held
  <2>1. AllOf(new, 0) = {}  BY DEF AllOf
  <2> QED  BY <2>1
<1>2. ASSUME NEW m \in 1 .. n, m - 1 \in Held PROVE m \in Held
  <2>1. has[m] = has[m - 1] \cup new[m]  OBVIOUS
  <2>2. has[m - 1] = has[0] \cup AllOf(new, m - 1)  BY <1>2
  <2>3. AllOf(new, m) = AllOf(new, m - 1) \cup new[m]
    <3>1. \A k : k \in 1 .. m <=> k \in 1 .. m - 1 \/ k = m  OBVIOUS
    <3>2. ASSUME NEW x PROVE (\E k \in 1 .. m : x \in new[k])
                               <=> (\E k \in 1 .. m - 1 : x \in new[k]) \/ x \in new[m]
      BY <3>1, Zenon
    <3>3. ASSUME NEW x, NEW j PROVE x \in AllOf(new, j) <=> \E k \in 1 .. j : x \in new[k]
      BY DEF AllOf
    <3>4. ASSUME NEW x PROVE x \in AllOf(new, m) <=> x \in AllOf(new, m - 1) \/ x \in new[m]
      BY ONLY <3>2, <3>3
    <3> QED  BY ONLY <3>4
  <2>4. m \in 0 .. n  OBVIOUS
  <2> QED  BY <2>1, <2>2, <2>3, <2>4
<1>3. n \in Held
  <2> HIDE DEF Held
  <2>1. n \in 0 .. n  OBVIOUS
  <2> QED  BY <1>1, <1>2, <2>1, EveryRound
<1> QED  BY <1>3

(* So a loop whose states stay in S, and whose rounds add to what a state  *)
(* is worth, ends in S with all of it.                                     *)
RoundsAdd(f, n, S, worth, new) ==
  /\ f[0] \in S
  /\ \A k \in 1 .. n : f[k - 1] \in S =>
       f[k] \in S /\ worth[f[k]] = worth[f[k - 1]] \cup new[k]

LEMMA LoopAdds ==
  ASSUME NEW n \in Nat, NEW f, NEW S, NEW worth, NEW new, RoundsAdd(f, n, S, worth, new)
  PROVE  f[n] \in S /\ worth[f[n]] = worth[f[0]] \cup AllOf(new, n)
<1> DEFINE Held == {k \in 0 .. n : f[k] \in S}
           has == [k \in 0 .. n |-> worth[f[k]]]
<1>1. \A k \in 0 .. n : f[k] \in S
  <2>1. 0 \in Held  BY DEF RoundsAdd
  <2>2. \A k \in 1 .. n : k - 1 \in Held => k \in Held  BY DEF RoundsAdd
  <2>3. \A k \in 0 .. n : k \in Held
    <3> HIDE DEF Held
    <3> QED  BY <2>1, <2>2, EveryRound
  <2> QED  BY <2>3
<1>2. ASSUME NEW k \in 1 .. n PROVE has[k] = has[k - 1] \cup new[k]
  <2>1. k \in 0 .. n /\ k - 1 \in 0 .. n  OBVIOUS
  <2> QED  BY <1>1, <2>1 DEF RoundsAdd
<1>3. has[n] = worth[f[n]] /\ has[0] = worth[f[0]] /\ n \in 0 .. n  OBVIOUS
<1>4. has[n] = has[0] \cup AllOf(new, n)
  <2> HIDE DEF has
  <2> QED  BY <1>2, Accumulated
<1> HIDE DEF has
<1> QED  BY <1>1, <1>3, <1>4

-----------------------------------------------------------------------------
(***************************************************************************)
(* The content gate.  A decision is honest: each finding is an offence of  *)
(* the text against a rule of the profile, each span of a pattern is       *)
(* found, and each span of a prompt that the prefilter passes too, unless  *)
(* the rule is listed as not evaluated.                                    *)
(***************************************************************************)
RulesOf(p) == UNION {ToSet(Packs[k]) : k \in ToSet(p.packs) \cap DOMAIN Packs}

Owed(text, p, about) == (SpansOf(text) \ p.allow) \cap about

Sound(found, text, p) ==
  \A f \in found : \E r \in RulesOf(p) :
    f.rule = r.id /\ f.span \in Owed(text, p, r.patterns \cup r.prompt)

Finds(found, r, spans) == \A s \in spans : \E f \in found : f.rule = r.id /\ f.span = s

(* What is found, but for the rules in open and those listed. *)
Honest(found, listed, open, text, p, prefilter) ==
  /\ Sound(found, text, p)
  /\ \A r \in RulesOf(p) :
       /\ Finds(found, r, Owed(text, p, r.patterns))
       /\ \/ r \in open \/ r.id \in listed
          \/ Finds(found, r, Owed(text, p, Asked(prefilter, r)))

Snippets == [lines : Seq(Text), offset : Int]
Chunking == [out : Seq(Snippets), open : Snippets]
OpenLevel == [snippets : Seq(Snippets), base : Int, next : Nat \ {0}]

SnippetSpans(snippets) == UNION {SpansOf(snippets[k].lines) : k \in DOMAIN snippets}
SpansIn(s) == SnippetSpans(s.out) \cup SpansOf(s.open.lines)

PolicyTypes ==
  /\ doc \in Seq(Text)
  /\ options \in [calls : Budgets, prefilter : Prefilters]
  /\ unjudged \in Seq(Rules)
  /\ levels \in Seq(OpenLevel)
  /\ budget \in [left : Nat, exhausted : BOOLEAN, start : Nat]
  /\ decisions \in Seq(ToSet(decisions))

Decided ==
  \A i \in DOMAIN decisions :
    LET d == decisions[i]
    IN  Honest(d.findings, d.unevaluated, {}, d.doc, d.profile, options.prefilter)

(* A span is still to come: some snippet that is not read yet has it. *)
ToCome(ls, s) ==
  \E j \in DOMAIN ls : \E k \in ls[j].next .. Len(ls[j].snippets) :
    s \in SpansOf(ls[j].snippets[k].lines)

(* While a prompt is judged, each of its spans that the prefilter passes is *)
(* heard, or still to come, or the rule is going to be listed.             *)
Heard(ls, heard, leaves, spans, r, prefilter) ==
  /\ \A j \in DOMAIN ls : SnippetSpans(ls[j].snippets) \subseteq spans
  /\ \A h \in heard : h.span \in spans \cap r.prompt
  /\ \/ leaves
     \/ \A s \in spans \cap Asked(prefilter, r) : ToCome(ls, s) \/ \E h \in heard : h.span = s

Judging ==
  stage = "level" =>
    /\ unjudged # << >> /\ levels # << >>
    /\ Heard(levels, hits, LeavesContent, SpansOf(doc), unjudged[1], options.prefilter)

Evaluating ==
  stage \in {"rules", "level"} =>
    /\ profile \in Profiles
    /\ ToSet(unjudged) \subseteq RulesOf(profile)
    /\ Honest(findings, unevaluated, ToSet(unjudged), doc, profile, options.prefilter)

Watched ==
  stage = "watched" =>
    /\ Len(decisions) = 2
    /\ regressions = DetectRegression(BuildBaseline(decisions[1], decisions[2]))

PolicyInv == PolicyTypes /\ Decided /\ Evaluating /\ Judging /\ Watched

-----------------------------------------------------------------------------
(***************************************************************************)
(* The chunker loses no span and makes none up: what its snippets have is  *)
(* what the lines have that it was given.                                  *)
(***************************************************************************)
LEMMA InSpansOf ==
  ASSUME NEW lines, NEW s
  PROVE  s \in SpansOf(lines) <=> \E i \in DOMAIN lines : s \in lines[i].spans
BY DEF SpansOf

LEMMA InSnippetSpans ==
  ASSUME NEW q, NEW s
  PROVE  s \in SnippetSpans(q) <=> \E k \in DOMAIN q : s \in SpansOf(q[k].lines)
BY DEF SnippetSpans

(* What Append does to a sequence. *)
LEMMA Appended ==
  ASSUME NEW S, NEW q \in Seq(S), NEW x \in S
  PROVE  /\ Append(q, x) \in Seq(S)
         /\ Len(q) \in Nat /\ DOMAIN q = 1 .. Len(q)
         /\ DOMAIN Append(q, x) = DOMAIN q \cup {Len(q) + 1} /\ Len(Append(q, x)) = Len(q) + 1
         /\ \A i \in DOMAIN q : Append(q, x)[i] = q[i]
         /\ Append(q, x)[Len(q) + 1] = x
<1>1. Len(q) \in Nat /\ DOMAIN q = 1 .. Len(q)  BY LenProperties
<1>2. /\ Append(q, x) \in Seq(S) /\ Len(Append(q, x)) = Len(q) + 1
      /\ \A i \in 1 .. Len(q) : Append(q, x)[i] = q[i]
      /\ Append(q, x)[Len(q) + 1] = x
  BY AppendProperties
<1>3. DOMAIN Append(q, x) = 1 .. Len(q) + 1  BY <1>2, LenProperties
<1> QED  BY <1>1, <1>2, <1>3

LEMMA SpansOfAppended ==
  ASSUME NEW lines \in Seq(Text), NEW l \in Text
  PROVE  /\ Append(lines, l) \in Seq(Text)
         /\ SpansOf(Append(lines, l)) = SpansOf(lines) \cup l.spans
<1> DEFINE longer == Append(lines, l)
<1>1. /\ longer \in Seq(Text) /\ DOMAIN longer = DOMAIN lines \cup {Len(lines) + 1}
      /\ \A i \in DOMAIN lines : longer[i] = lines[i]
      /\ longer[Len(lines) + 1] = l
  BY Appended
<1> HIDE DEF longer
<1>2. ASSUME NEW s PROVE s \in SpansOf(longer) <=> s \in SpansOf(lines) \/ s \in l.spans
  <2>1. s \in SpansOf(longer) <=> \E i \in DOMAIN lines \cup {Len(lines) + 1} : s \in longer[i].spans
    BY <1>1, InSpansOf
  <2>2. s \in SpansOf(lines) <=> \E i \in DOMAIN lines : s \in lines[i].spans
    BY InSpansOf
  <2> QED  BY ONLY <1>1, <2>1, <2>2
<1>3. SpansOf(longer) = SpansOf(lines) \cup l.spans
  BY ONLY <1>2
<1> QED  BY <1>1, <1>3 DEF longer

LEMMA SpansOfJoined ==
  ASSUME NEW a \in Seq(Text), NEW b \in Seq(Text)
  PROVE  /\ a \o b \in Seq(Text)
         /\ SpansOf(a \o b) = SpansOf(a) \cup SpansOf(b)
<1> DEFINE c == a \o b
<1>1. /\ c \in Seq(Text) /\ Len(c) = Len(a) + Len(b)
      /\ \A i \in 1 .. Len(a) + Len(b) : c[i] = IF i <= Len(a) THEN a[i] ELSE b[i - Len(a)]
  BY ConcatProperties
<1>2. /\ DOMAIN a = 1 .. Len(a) /\ DOMAIN b = 1 .. Len(b) /\ DOMAIN c = 1 .. Len(a) + Len(b)
      /\ Len(a) \in Nat /\ Len(b) \in Nat
  BY <1>1, LenProperties
<1> HIDE DEF c
<1>3. ASSUME NEW s PROVE s \in SpansOf(c) <=> s \in SpansOf(a) \/ s \in SpansOf(b)
  <2>1. ASSUME NEW i \in DOMAIN c, s \in c[i].spans PROVE s \in SpansOf(a) \/ s \in SpansOf(b)
    <3>1. CASE i <= Len(a)
      <4>1. i \in DOMAIN a /\ c[i] = a[i]  BY <1>1, <1>2, <3>1
      <4> QED  BY <2>1, <4>1, InSpansOf
    <3>2. CASE ~ (i <= Len(a))
      <4>1. i - Len(a) \in DOMAIN b /\ c[i] = b[i - Len(a)]  BY <1>1, <1>2, <3>2
      <4> QED  BY <2>1, <4>1, InSpansOf
    <3> QED  BY <3>1, <3>2
  <2>2. ASSUME NEW i \in DOMAIN a, s \in a[i].spans PROVE s \in SpansOf(c)
    <3>1. i \in DOMAIN c /\ c[i] = a[i]  BY <1>1, <1>2
    <3> QED  BY <2>2, <3>1, InSpansOf
  <2>3. ASSUME NEW i \in DOMAIN b, s \in b[i].spans PROVE s \in SpansOf(c)
    <3>1. i + Len(a) \in 1 .. Len(a) + Len(b) /\ ~ (i + Len(a) <= Len(a)) /\ (i + Len(a)) - Len(a) = i
      BY <1>2
    <3>2. i + Len(a) \in DOMAIN c /\ c[i + Len(a)] = b[i]  BY <1>1, <1>2, <3>1
    <3> QED  BY <2>3, <3>2, InSpansOf
  <2> QED  BY <2>1, <2>2, <2>3, InSpansOf
<1> QED  BY <1>1, <1>3 DEF c

LEMMA SpansOfPart ==
  ASSUME NEW lines \in Seq(Text), NEW m \in 1 .. Len(lines) + 1
  PROVE  /\ SubSeq(lines, m, Len(lines)) \in Seq(Text)
         /\ SpansOf(SubSeq(lines, m, Len(lines))) \subseteq SpansOf(lines)
<1> DEFINE part == SubSeq(lines, m, Len(lines))
<1>1. Len(lines) \in Nat /\ DOMAIN lines = 1 .. Len(lines)  BY LenProperties
<1>2. /\ part \in Seq(Text)
      /\ Len(part) = IF m <= Len(lines) THEN Len(lines) - m + 1 ELSE 0
      /\ \A i \in 1 .. Len(lines) - m + 1 : part[i] = lines[m + i - 1]
  BY <1>1, SubSeqProperties
<1>3. DOMAIN part = 1 .. Len(part)  BY <1>2, LenProperties
<1> HIDE DEF part
<1>4. ASSUME NEW i \in DOMAIN part PROVE m + i - 1 \in DOMAIN lines /\ part[i] = lines[m + i - 1]
  <2>1. m \in Nat \ {0} /\ Len(lines) \in Nat  BY <1>1
  <2>2. i \in 1 .. Len(part)  BY <1>3, <1>4
  <2>3. i \in 1 .. Len(lines) - m + 1  BY ONLY <1>2, <2>1, <2>2
  <2>4. m + i - 1 \in 1 .. Len(lines)  BY ONLY <2>1, <2>3
  <2> QED  BY <1>1, <1>2, <2>3, <2>4
<1>5. ASSUME NEW s \in SpansOf(part) PROVE s \in SpansOf(lines)
  <2>1. PICK i \in DOMAIN part : s \in part[i].spans  BY InSpansOf
  <2> QED  BY <1>4, <2>1, InSpansOf
<1> QED  BY <1>2, <1>5 DEF part

LEMMA SnippetAppended ==
  ASSUME NEW q \in Seq(Snippets), NEW x \in Snippets
  PROVE  /\ Append(q, x) \in Seq(Snippets)
         /\ SnippetSpans(Append(q, x)) = SnippetSpans(q) \cup SpansOf(x.lines)
<1> DEFINE longer == Append(q, x)
<1>1. /\ longer \in Seq(Snippets) /\ DOMAIN longer = DOMAIN q \cup {Len(q) + 1}
      /\ \A i \in DOMAIN q : longer[i] = q[i]
      /\ longer[Len(q) + 1] = x
  BY Appended
<1> HIDE DEF longer
<1>2. ASSUME NEW s PROVE s \in SnippetSpans(longer) <=> s \in SnippetSpans(q) \/ s \in SpansOf(x.lines)
  <2>1. s \in SnippetSpans(longer)
          <=> \E i \in DOMAIN q \cup {Len(q) + 1} : s \in SpansOf(longer[i].lines)
    BY <1>1, InSnippetSpans
  <2>2. s \in SnippetSpans(q) <=> \E i \in DOMAIN q : s \in SpansOf(q[i].lines)
    BY InSnippetSpans
  <2> QED  BY ONLY <1>1, <2>1, <2>2
<1>3. SnippetSpans(longer) = SnippetSpans(q) \cup SpansOf(x.lines)
  BY ONLY <1>2
<1> QED  BY <1>1, <1>3 DEF longer

(* What a loop of the chunker does to its state. *)
LEMMA Reopened ==
  ASSUME NEW q \in Seq(Snippets), NEW offset \in Int
  PROVE  Reopen(q, offset) \in Chunking /\ SpansIn(Reopen(q, offset)) = SnippetSpans(q)
<1>1. << >> \in Seq(Text) /\ SpansOf(<< >>) = {}
  <2>1. DOMAIN << >> = {}  OBVIOUS
  <2>2. << >> \in Seq(Text)  OBVIOUS
  <2> QED  BY <2>1, <2>2 DEF SpansOf
<1>2. Snippet(<< >>, offset) \in Snippets /\ Snippet(<< >>, offset).lines = << >>
  BY <1>1 DEF Snippet, Snippets
<1>3. /\ Reopen(q, offset) \in Chunking
      /\ Reopen(q, offset).out = q /\ Reopen(q, offset).open = Snippet(<< >>, offset)
  BY <1>2 DEF Reopen, Chunking
<1> QED  BY <1>1, <1>2, <1>3 DEF SpansIn

LEMMA OutPut ==
  ASSUME NEW s \in Chunking
  PROVE  PutOut(s) \in Seq(Snippets) /\ SnippetSpans(PutOut(s)) = SpansIn(s)
<1>1. s.out \in Seq(Snippets) /\ s.open \in Snippets  BY DEF Chunking
<1>2. CASE s.open.lines = << >>
  <2>1. DOMAIN << >> = {}  OBVIOUS
  <2>2. SpansOf(s.open.lines) = {}  BY <1>2, <2>1 DEF SpansOf
  <2>3. PutOut(s) = s.out  BY <1>2 DEF PutOut
  <2> QED  BY <1>1, <2>2, <2>3 DEF SpansIn
<1>3. CASE s.open.lines # << >>
  <2>1. PutOut(s) = Append(s.out, s.open)  BY <1>3 DEF PutOut
  <2>2. /\ Append(s.out, s.open) \in Seq(Snippets)
        /\ SnippetSpans(Append(s.out, s.open)) = SnippetSpans(s.out) \cup SpansOf(s.open.lines)
    BY <1>1, SnippetAppended
  <2> QED  BY <2>1, <2>2 DEF SpansIn
<1> QED  BY <1>2, <1>3

LEMMA WithOpenLines ==
  ASSUME NEW s \in Chunking, NEW lines \in Seq(Text)
  PROVE  /\ [s EXCEPT !.open.lines = lines] \in Chunking
         /\ SpansIn([s EXCEPT !.open.lines = lines]) = SnippetSpans(s.out) \cup SpansOf(lines)
<1> DEFINE t == [s EXCEPT !.open.lines = lines]
<1>1. s.out \in Seq(Snippets) /\ s.open \in Snippets  BY DEF Chunking
<1>2. /\ t \in Chunking /\ t.out = s.out /\ t.open.lines = lines
  BY <1>1 DEF Chunking, Snippets
<1> HIDE DEF t
<1>3. SpansIn(t) = SnippetSpans(s.out) \cup SpansOf(lines)  BY <1>2 DEF SpansIn
<1> QED  BY <1>2, <1>3 DEF t

LEMMA WithOpen ==
  ASSUME NEW s \in Chunking, NEW snippet \in Snippets
  PROVE  /\ [s EXCEPT !.open = snippet] \in Chunking
         /\ SpansIn([s EXCEPT !.open = snippet]) = SnippetSpans(s.out) \cup SpansOf(snippet.lines)
<1> DEFINE t == [s EXCEPT !.open = snippet]
<1>1. t \in Chunking /\ t.out = s.out /\ t.open = snippet  BY DEF Chunking
<1> HIDE DEF t
<1>2. SpansIn(t) = SnippetSpans(s.out) \cup SpansOf(snippet.lines)  BY <1>1 DEF SpansIn
<1> QED  BY <1>1, <1>2 DEF t

(* A line, and a block, are taken whole: each adds its spans. *)
LEMMA LineRead ==
  ASSUME NEW s \in Chunking, NEW line \in Text, NEW i \in Int
  PROVE  ReadLine(s, line, i) \in Chunking /\ SpansIn(ReadLine(s, line, i)) = SpansIn(s) \cup line.spans
<1>1. CASE line.size = 0
  <2>1. line.spans = {}  BY <1>1, PolicyAssumption
  <2>2. ReadLine(s, line, i) = Reopen(PutOut(s), i)  BY <1>1 DEF ReadLine
  <2>3. PutOut(s) \in Seq(Snippets) /\ SnippetSpans(PutOut(s)) = SpansIn(s)  BY OutPut
  <2>4. /\ Reopen(PutOut(s), i) \in Chunking
        /\ SpansIn(Reopen(PutOut(s), i)) = SnippetSpans(PutOut(s))
    BY <2>3, Reopened
  <2> QED  BY <2>1, <2>2, <2>3, <2>4
<1>2. CASE line.size # 0
  <2> DEFINE longer == Append(s.open.lines, line)
  <2>1. ReadLine(s, line, i) = [s EXCEPT !.open.lines = longer]  BY <1>2 DEF ReadLine
  <2>2. s.open.lines \in Seq(Text)  BY DEF Chunking, Snippets
  <2>3. longer \in Seq(Text) /\ SpansOf(longer) = SpansOf(s.open.lines) \cup line.spans
    BY <2>2, SpansOfAppended
  <2> HIDE DEF longer
  <2>4. /\ ReadLine(s, line, i) \in Chunking
        /\ SpansIn(ReadLine(s, line, i)) = SnippetSpans(s.out) \cup SpansOf(longer)
    BY <2>1, <2>3, WithOpenLines
  <2> QED  BY <2>3, <2>4 DEF SpansIn
<1> QED  BY <1>1, <1>2

LEMMA LineTaken ==
  ASSUME NEW s \in Chunking, NEW line \in Text
  PROVE  Take(s, line) \in Chunking /\ SpansIn(Take(s, line)) = SpansIn(s) \cup line.spans
<1> DEFINE taken == Snippet(Append(s.open.lines, line), s.open.offset)
<1>1. s.out \in Seq(Snippets) /\ s.open.lines \in Seq(Text) /\ s.open.offset \in Int
  BY DEF Chunking, Snippets
<1>2. /\ Append(s.open.lines, line) \in Seq(Text)
      /\ SpansOf(Append(s.open.lines, line)) = SpansOf(s.open.lines) \cup line.spans
  BY <1>1, SpansOfAppended
<1>3. /\ taken \in Snippets /\ taken.offset \in Int /\ taken.lines \in Seq(Text)
      /\ SpansOf(taken.lines) = SpansOf(s.open.lines) \cup line.spans
  BY <1>1, <1>2 DEF Snippet, Snippets
<1>4. \/ Take(s, line) = Reopen(Append(s.out, taken), taken.offset + Len(taken.lines))
      \/ Take(s, line) = [s EXCEPT !.open = taken]
  BY DEF Take
<1> HIDE DEF taken
<1>5. CASE Take(s, line) = Reopen(Append(s.out, taken), taken.offset + Len(taken.lines))
  <2>1. Len(taken.lines) \in Nat  BY <1>3, LenProperties
  <2>2. taken.offset + Len(taken.lines) \in Int  BY <1>3, <2>1
  <2>3. /\ Append(s.out, taken) \in Seq(Snippets)
        /\ SnippetSpans(Append(s.out, taken)) = SnippetSpans(s.out) \cup SpansOf(taken.lines)
    BY <1>1, <1>3, SnippetAppended
  <2>4. /\ Take(s, line) \in Chunking
        /\ SpansIn(Take(s, line)) = SnippetSpans(Append(s.out, taken))
    BY <1>5, <2>2, <2>3, Reopened
  <2> QED  BY <1>3, <2>3, <2>4 DEF SpansIn
<1>6. CASE Take(s, line) = [s EXCEPT !.open = taken]
  <2>1. /\ Take(s, line) \in Chunking
        /\ SpansIn(Take(s, line)) = SnippetSpans(s.out) \cup SpansOf(taken.lines)
    BY <1>3, <1>6, WithOpen
  <2> QED  BY <1>3, <2>1 DEF SpansIn
<1> QED  BY <1>4, <1>5, <1>6

LEMMA NothingOpen == Reopen(<< >>, 0) \in Chunking /\ SpansIn(Reopen(<< >>, 0)) = {}
<1>1. << >> \in Seq(Snippets) /\ SnippetSpans(<< >>) = {}  BY DEF SnippetSpans
<1>2. 0 \in Int  OBVIOUS
<1> QED  BY <1>1, <1>2, Reopened

(* Each loop of the chunker, over lines or over blocks. *)
LEMMA BlocksExtracted ==
  ASSUME NEW lines \in Seq(Text)
  PROVE  ExtractBlocks(lines) \in Seq(Snippets) /\ SnippetSpans(ExtractBlocks(lines)) = SpansOf(lines)
<1> DEFINE n == Len(lines)
           first == Reopen(<< >>, 0)
           step == [k \in 1 .. n |-> [s \in Chunking |-> ReadLine(s, lines[k], k)]]
           Is(f) == f = [k \in 0 .. n |-> IF k = 0 THEN first ELSE ReadLine(f[k - 1], lines[k], k)]
           read == CHOOSE f : Is(f)
<1>1. n \in Nat /\ DOMAIN lines = 1 .. n /\ \A k \in 1 .. n : lines[k] \in Text
  BY LenProperties, ElementOfSeq
<1>2. first \in Chunking /\ SpansIn(first) = {}
  BY NothingOpen
<1>3. ASSUME NEW k \in 1 .. n, NEW s \in Chunking
      PROVE  /\ ReadLine(s, lines[k], k) \in Chunking
             /\ SpansIn(ReadLine(s, lines[k], k)) = SpansIn(s) \cup lines[k].spans
  BY <1>1, LineRead
<1>4. ExtractBlocks(lines) = PutOut(read[n])
  BY DEF ExtractBlocks
<1> HIDE DEF n, first
<1>5. \E f \in [0 .. n -> Chunking] : Is(f)
  <2>1. step \in [1 .. n -> [Chunking -> Chunking]]  BY <1>3
  <2>2. PICK f \in [0 .. n -> Chunking] : IsLoop(f, n, first, step)
    <3> HIDE DEF step
    <3> QED  BY <1>1, <1>2, <2>1, LoopsEnd
  <2>3. ASSUME NEW k \in 1 .. n PROVE step[k][f[k - 1]] = ReadLine(f[k - 1], lines[k], k)
    <3>1. k - 1 \in 0 .. n  BY <1>1
    <3> QED  BY <3>1
  <2>4. f = [k \in 0 .. n |-> IF k = 0 THEN first ELSE ReadLine(f[k - 1], lines[k], k)]
    <3> HIDE DEF step
    <3>1. \A k \in 0 .. n : k = 0 \/ k \in 1 .. n  BY <1>1
    <3> QED  BY <2>2, <2>3, <3>1, Zenon DEF IsLoop
  <2> QED  BY <2>4
<1>6. Is(read)  BY <1>5, Zenon
<1> HIDE DEF read
<1> DEFINE worth == [s \in Chunking |-> SpansIn(s)]
           new == [k \in 1 .. n |-> lines[k].spans]
<1>7. ASSUME NEW k \in 1 .. n, read[k - 1] \in Chunking
      PROVE  read[k] \in Chunking /\ worth[read[k]] = worth[read[k - 1]] \cup new[k]
  <2>1. k \in 0 .. n /\ k # 0  BY <1>1
  <2>2. read[k] = ReadLine(read[k - 1], lines[k], k)  BY <1>6, <2>1
  <2> QED  BY <1>3, <1>7, <2>2
<1>8. read[0] = first  BY <1>1, <1>6
<1>9. read[n] \in Chunking /\ worth[read[n]] = worth[read[0]] \cup AllOf(new, n)
  <2> HIDE DEF worth, new
  <2>1. n \in Nat /\ RoundsAdd(read, n, Chunking, worth, new)
    BY <1>1, <1>2, <1>7, <1>8 DEF RoundsAdd
  <2> QED  BY <2>1, LoopAdds
<1>10. SpansIn(read[n]) = AllOf(new, n)  BY <1>2, <1>8, <1>9
<1>11. AllOf(new, n) = SpansOf(lines)  BY <1>1 DEF SpansOf, AllOf
<1> QED  BY <1>4, <1>9, <1>10, <1>11, OutPut

LEMMA BlockSplit ==
  ASSUME NEW snippets \in Seq(Snippets), NEW block \in Snippets
  PROVE  /\ SplitOversizedBlock(snippets, block) \in Seq(Snippets)
         /\ SnippetSpans(SplitOversizedBlock(snippets, block))
              = SnippetSpans(snippets) \cup SpansOf(block.lines)
<1> DEFINE n == Len(block.lines)
           first == Reopen(snippets, block.offset)
           step == [k \in 1 .. n |-> [s \in Chunking |-> Take(s, block.lines[k])]]
           Is(f) == f = [k \in 0 .. n |-> IF k = 0 THEN first ELSE Take(f[k - 1], block.lines[k])]
           cut == CHOOSE f : Is(f)
<1>1. /\ block.lines \in Seq(Text) /\ block.offset \in Int
      /\ n \in Nat /\ DOMAIN block.lines = 1 .. n /\ \A k \in 1 .. n : block.lines[k] \in Text
  <2>1. block.lines \in Seq(Text) /\ block.offset \in Int  BY DEF Snippets
  <2> QED  BY <2>1, LenProperties, ElementOfSeq
<1>2. first \in Chunking /\ SpansIn(first) = SnippetSpans(snippets)
  BY <1>1, Reopened
<1>3. ASSUME NEW k \in 1 .. n, NEW s \in Chunking
      PROVE  /\ Take(s, block.lines[k]) \in Chunking
             /\ SpansIn(Take(s, block.lines[k])) = SpansIn(s) \cup block.lines[k].spans
  BY <1>1, LineTaken
<1>4. SplitOversizedBlock(snippets, block) = PutOut(cut[n])
  BY DEF SplitOversizedBlock
<1> HIDE DEF n, first
<1>5. \E f \in [0 .. n -> Chunking] : Is(f)
  <2>1. step \in [1 .. n -> [Chunking -> Chunking]]  BY <1>3
  <2>2. PICK f \in [0 .. n -> Chunking] : IsLoop(f, n, first, step)
    <3> HIDE DEF step
    <3> QED  BY <1>1, <1>2, <2>1, LoopsEnd
  <2>3. ASSUME NEW k \in 1 .. n PROVE step[k][f[k - 1]] = Take(f[k - 1], block.lines[k])
    <3>1. k - 1 \in 0 .. n  BY <1>1
    <3> QED  BY <3>1
  <2>4. f = [k \in 0 .. n |-> IF k = 0 THEN first ELSE Take(f[k - 1], block.lines[k])]
    <3> HIDE DEF step
    <3>1. \A k \in 0 .. n : k = 0 \/ k \in 1 .. n  BY <1>1
    <3> QED  BY <2>2, <2>3, <3>1, Zenon DEF IsLoop
  <2> QED  BY <2>4
<1>6. Is(cut)  BY <1>5, Zenon
<1> HIDE DEF cut
<1> DEFINE worth == [s \in Chunking |-> SpansIn(s)]
           new == [k \in 1 .. n |-> block.lines[k].spans]
<1>7. ASSUME NEW k \in 1 .. n, cut[k - 1] \in Chunking
      PROVE  cut[k] \in Chunking /\ worth[cut[k]] = worth[cut[k - 1]] \cup new[k]
  <2>1. k \in 0 .. n /\ k # 0  BY <1>1
  <2>2. cut[k] = Take(cut[k - 1], block.lines[k])  BY <1>6, <2>1
  <2> QED  BY <1>3, <1>7, <2>2
<1>8. cut[0] = first  BY <1>1, <1>6
<1>9. cut[n] \in Chunking /\ worth[cut[n]] = worth[cut[0]] \cup AllOf(new, n)
  <2> HIDE DEF worth, new
  <2>1. n \in Nat /\ RoundsAdd(cut, n, Chunking, worth, new)
    BY <1>1, <1>2, <1>7, <1>8 DEF RoundsAdd
  <2> QED  BY <2>1, LoopAdds
<1>10. SpansIn(cut[n]) = SnippetSpans(snippets) \cup AllOf(new, n)  BY <1>2, <1>8, <1>9
<1>11. AllOf(new, n) = SpansOf(block.lines)  BY <1>1 DEF SpansOf, AllOf
<1> QED  BY <1>4, <1>9, <1>10, <1>11, OutPut

LEMMA BlockMerged ==
  ASSUME NEW s \in Chunking, NEW block \in Snippets
  PROVE  Merge(s, block) \in Chunking /\ SpansIn(Merge(s, block)) = SpansIn(s) \cup SpansOf(block.lines)
<1> DEFINE both == s.open.lines \o block.lines
<1>1. /\ s.out \in Seq(Snippets) /\ s.open \in Snippets
      /\ s.open.lines \in Seq(Text) /\ block.lines \in Seq(Text)
  BY DEF Chunking, Snippets
<1>2. both \in Seq(Text) /\ SpansOf(both) = SpansOf(s.open.lines) \cup SpansOf(block.lines)
  BY <1>1, SpansOfJoined
<1>3. \/ Merge(s, block) = Reopen(SplitOversizedBlock(PutOut(s), block), 0)
      \/ s.open.lines = << >> /\ Merge(s, block) = [s EXCEPT !.open = block]
      \/ Merge(s, block) = [out |-> Append(s.out, s.open), open |-> block]
      \/ Merge(s, block) = [s EXCEPT !.open.lines = both]
  BY DEF Merge
<1> HIDE DEF both
<1>4. CASE Merge(s, block) = Reopen(SplitOversizedBlock(PutOut(s), block), 0)
  <2> DEFINE q == SplitOversizedBlock(PutOut(s), block)
  <2>1. PutOut(s) \in Seq(Snippets) /\ SnippetSpans(PutOut(s)) = SpansIn(s)  BY OutPut
  <2>2. q \in Seq(Snippets) /\ SnippetSpans(q) = SnippetSpans(PutOut(s)) \cup SpansOf(block.lines)
    BY <2>1, BlockSplit
  <2> HIDE DEF q
  <2>3. 0 \in Int  OBVIOUS
  <2>4. Reopen(q, 0) \in Chunking /\ SpansIn(Reopen(q, 0)) = SnippetSpans(q)
    BY <2>2, <2>3, Reopened
  <2> QED  BY <1>4, <2>1, <2>2, <2>4 DEF q
<1>5. CASE s.open.lines = << >> /\ Merge(s, block) = [s EXCEPT !.open = block]
  <2>1. DOMAIN << >> = {}  OBVIOUS
  <2>2. SpansOf(s.open.lines) = {}  BY <1>5, <2>1 DEF SpansOf
  <2>3. /\ Merge(s, block) \in Chunking
        /\ SpansIn(Merge(s, block)) = SnippetSpans(s.out) \cup SpansOf(block.lines)
    BY <1>5, WithOpen
  <2> QED  BY <2>2, <2>3 DEF SpansIn
<1>6. CASE Merge(s, block) = [out |-> Append(s.out, s.open), open |-> block]
  <2> DEFINE q == Append(s.out, s.open)
  <2>1. q \in Seq(Snippets) /\ SnippetSpans(q) = SnippetSpans(s.out) \cup SpansOf(s.open.lines)
    BY <1>1, SnippetAppended
  <2>2. Merge(s, block) = [out |-> q, open |-> block]  BY <1>6
  <2> HIDE DEF q
  <2>3. /\ Merge(s, block) \in Chunking
        /\ Merge(s, block).out = q /\ Merge(s, block).open = block
    BY <2>1, <2>2 DEF Chunking
  <2> QED  BY <2>1, <2>3 DEF SpansIn
<1>7. CASE Merge(s, block) = [s EXCEPT !.open.lines = both]
  <2>1. /\ Merge(s, block) \in Chunking
        /\ SpansIn(Merge(s, block)) = SnippetSpans(s.out) \cup SpansOf(both)
    BY <1>2, <1>7, WithOpenLines
  <2> QED  BY <1>2, <2>1 DEF SpansIn
<1> QED  BY <1>3, <1>4, <1>5, <1>6, <1>7

LEMMA BlocksMerged ==
  ASSUME NEW blocks \in Seq(Snippets)
  PROVE  /\ MergeBlocks(blocks) \in Seq(Snippets)
         /\ SnippetSpans(MergeBlocks(blocks)) = SnippetSpans(blocks)
<1> DEFINE n == Len(blocks)
           first == Reopen(<< >>, 0)
           step == [k \in 1 .. n |-> [s \in Chunking |-> Merge(s, blocks[k])]]
           Is(f) == f = [k \in 0 .. n |-> IF k = 0 THEN first ELSE Merge(f[k - 1], blocks[k])]
           merged == CHOOSE f : Is(f)
<1>1. n \in Nat /\ DOMAIN blocks = 1 .. n /\ \A k \in 1 .. n : blocks[k] \in Snippets
  BY LenProperties, ElementOfSeq
<1>2. first \in Chunking /\ SpansIn(first) = {}
  BY NothingOpen
<1>3. ASSUME NEW k \in 1 .. n, NEW s \in Chunking
      PROVE  /\ Merge(s, blocks[k]) \in Chunking
             /\ SpansIn(Merge(s, blocks[k])) = SpansIn(s) \cup SpansOf(blocks[k].lines)
  BY <1>1, BlockMerged
<1>4. MergeBlocks(blocks) = PutOut(merged[n])
  BY DEF MergeBlocks
<1> HIDE DEF n, first
<1>5. \E f \in [0 .. n -> Chunking] : Is(f)
  <2>1. step \in [1 .. n -> [Chunking -> Chunking]]  BY <1>3
  <2>2. PICK f \in [0 .. n -> Chunking] : IsLoop(f, n, first, step)
    <3> HIDE DEF step
    <3> QED  BY <1>1, <1>2, <2>1, LoopsEnd
  <2>3. ASSUME NEW k \in 1 .. n PROVE step[k][f[k - 1]] = Merge(f[k - 1], blocks[k])
    <3>1. k - 1 \in 0 .. n  BY <1>1
    <3> QED  BY <3>1
  <2>4. f = [k \in 0 .. n |-> IF k = 0 THEN first ELSE Merge(f[k - 1], blocks[k])]
    <3> HIDE DEF step
    <3>1. \A k \in 0 .. n : k = 0 \/ k \in 1 .. n  BY <1>1
    <3> QED  BY <2>2, <2>3, <3>1, Zenon DEF IsLoop
  <2> QED  BY <2>4
<1>6. Is(merged)  BY <1>5, Zenon
<1> HIDE DEF merged
<1> DEFINE worth == [s \in Chunking |-> SpansIn(s)]
           new == [k \in 1 .. n |-> SpansOf(blocks[k].lines)]
<1>7. ASSUME NEW k \in 1 .. n, merged[k - 1] \in Chunking
      PROVE  merged[k] \in Chunking /\ worth[merged[k]] = worth[merged[k - 1]] \cup new[k]
  <2>1. k \in 0 .. n /\ k # 0  BY <1>1
  <2>2. merged[k] = Merge(merged[k - 1], blocks[k])  BY <1>6, <2>1
  <2> QED  BY <1>3, <1>7, <2>2
<1>8. merged[0] = first  BY <1>1, <1>6
<1>9. merged[n] \in Chunking /\ worth[merged[n]] = worth[merged[0]] \cup AllOf(new, n)
  <2> HIDE DEF worth, new
  <2>1. n \in Nat /\ RoundsAdd(merged, n, Chunking, worth, new)
    BY <1>1, <1>2, <1>7, <1>8 DEF RoundsAdd
  <2> QED  BY <2>1, LoopAdds
<1>10. SpansIn(merged[n]) = AllOf(new, n)  BY <1>2, <1>8, <1>9
<1>11. AllOf(new, n) = SnippetSpans(blocks)  BY <1>1 DEF SnippetSpans, AllOf
<1> QED  BY <1>4, <1>9, <1>10, <1>11, OutPut

-----------------------------------------------------------------------------
(***************************************************************************)
(* The rules of a profile are those of its packs.                          *)
(***************************************************************************)
LEMMA InToSet ==
  ASSUME NEW q, NEW x
  PROVE  x \in ToSet(q) <=> \E i \in DOMAIN q : q[i] = x
BY DEF ToSet

LEMMA OneMoreInToSet ==
  ASSUME NEW S, NEW q \in Seq(S), NEW x \in S
  PROVE  Append(q, x) \in Seq(S) /\ ToSet(Append(q, x)) = ToSet(q) \cup {x}
<1> DEFINE longer == Append(q, x)
<1>1. /\ longer \in Seq(S) /\ DOMAIN longer = DOMAIN q \cup {Len(q) + 1}
      /\ \A i \in DOMAIN q : longer[i] = q[i]
      /\ longer[Len(q) + 1] = x
  BY Appended
<1> HIDE DEF longer
<1>2. ASSUME NEW y PROVE y \in ToSet(longer) <=> y \in ToSet(q) \/ y = x
  <2>1. y \in ToSet(longer) <=> \E i \in DOMAIN q \cup {Len(q) + 1} : longer[i] = y
    BY <1>1, InToSet
  <2>2. y \in ToSet(q) <=> \E i \in DOMAIN q : q[i] = y
    BY InToSet
  <2> QED  BY ONLY <1>1, <2>1, <2>2
<1>3. ToSet(longer) = ToSet(q) \cup {x}  BY ONLY <1>2
<1> QED  BY <1>1, <1>3 DEF longer

LEMMA RuleAdded ==
  ASSUME NEW rules \in Seq(Rules), NEW r \in Rules
  PROVE  AddRule(rules, r) \in Seq(Rules) /\ ToSet(AddRule(rules, r)) = ToSet(rules) \cup {r}
<1>1. CASE \E i \in DOMAIN rules : rules[i].id = r.id
  <2>1. AddRule(rules, r) = rules  BY <1>1 DEF AddRule
  <2>2. PICK i \in DOMAIN rules : rules[i].id = r.id  BY <1>1
  <2>3. rules[i] \in Rules  BY ElementOfSeq, LenProperties
  <2>4. rules[i] = r  BY <2>2, <2>3, PolicyAssumption
  <2>5. r \in ToSet(rules)  BY <2>4, InToSet
  <2> QED  BY <2>1, <2>5
<1>2. CASE ~ \E i \in DOMAIN rules : rules[i].id = r.id
  <2>1. AddRule(rules, r) = Append(rules, r)  BY <1>2 DEF AddRule
  <2> QED  BY <2>1, OneMoreInToSet
<1> QED  BY <1>1, <1>2

LEMMA PackAdded ==
  ASSUME NEW rules \in Seq(Rules), NEW p \in DOMAIN Packs
  PROVE  /\ AddPack(rules, Packs[p]) \in Seq(Rules)
         /\ ToSet(AddPack(rules, Packs[p])) = ToSet(rules) \cup ToSet(Packs[p])
<1> DEFINE pack == Packs[p]
<1> DEFINE n == Len(pack)
           first == rules
           step == [k \in 1 .. n |-> [s \in Seq(Rules) |-> AddRule(s, pack[k])]]
           Is(f) == f = [k \in 0 .. n |-> IF k = 0 THEN first ELSE AddRule(f[k - 1], pack[k])]
           added == CHOOSE f : Is(f)
<1>1. n \in Nat /\ DOMAIN pack = 1 .. n /\ \A k \in 1 .. n : pack[k] \in Rules
  <2>1. pack \in Seq(ToSet(pack))  BY PolicyAssumption
  <2>2. n \in Nat /\ DOMAIN pack = 1 .. n  BY <2>1, LenProperties
  <2>3. \A k \in 1 .. n : pack[k] \in ToSet(pack)  BY <2>2, InToSet
  <2>4. ToSet(pack) \subseteq Rules  BY DEF Rules
  <2> QED  BY <2>2, <2>3, <2>4
<1>2. first \in Seq(Rules) /\ ToSet(first) = ToSet(rules)
  OBVIOUS
<1>3. ASSUME NEW k \in 1 .. n, NEW s \in Seq(Rules)
      PROVE  /\ AddRule(s, pack[k]) \in Seq(Rules)
             /\ ToSet(AddRule(s, pack[k])) = ToSet(s) \cup {pack[k]}
  BY <1>1, RuleAdded
<1>4. AddPack(rules, pack) = added[n]
  BY DEF AddPack
<1> HIDE DEF n, first
<1>5. \E f \in [0 .. n -> Seq(Rules)] : Is(f)
  <2>1. step \in [1 .. n -> [Seq(Rules) -> Seq(Rules)]]  BY <1>3
  <2>2. PICK f \in [0 .. n -> Seq(Rules)] : IsLoop(f, n, first, step)
    <3> HIDE DEF step
    <3> QED  BY <1>1, <1>2, <2>1, LoopsEnd
  <2>3. ASSUME NEW k \in 1 .. n PROVE step[k][f[k - 1]] = AddRule(f[k - 1], pack[k])
    <3>1. k - 1 \in 0 .. n  BY <1>1
    <3> QED  BY <3>1
  <2>4. f = [k \in 0 .. n |-> IF k = 0 THEN first ELSE AddRule(f[k - 1], pack[k])]
    <3> HIDE DEF step
    <3>1. \A k \in 0 .. n : k = 0 \/ k \in 1 .. n  BY <1>1
    <3> QED  BY <2>2, <2>3, <3>1, Zenon DEF IsLoop
  <2> QED  BY <2>4
<1>6. Is(added)  BY <1>5, Zenon
<1> HIDE DEF added
<1> DEFINE worth == [s \in Seq(Rules) |-> ToSet(s)]
           new == [k \in 1 .. n |-> {pack[k]}]
<1>7. ASSUME NEW k \in 1 .. n, added[k - 1] \in Seq(Rules)
      PROVE  added[k] \in Seq(Rules) /\ worth[added[k]] = worth[added[k - 1]] \cup new[k]
  <2>1. k \in 0 .. n /\ k # 0  BY <1>1
  <2>2. added[k] = AddRule(added[k - 1], pack[k])  BY <1>6, <2>1
  <2> QED  BY <1>3, <1>7, <2>2
<1>8. added[0] = first  BY <1>1, <1>6
<1>9. added[n] \in Seq(Rules) /\ worth[added[n]] = worth[added[0]] \cup AllOf(new, n)
  <2> HIDE DEF worth, new
  <2>1. n \in Nat /\ RoundsAdd(added, n, Seq(Rules), worth, new)
    BY <1>1, <1>2, <1>7, <1>8 DEF RoundsAdd
  <2> QED  BY <2>1, LoopAdds
<1>10. ToSet(added[n]) = ToSet(rules) \cup AllOf(new, n)  BY <1>2, <1>8, <1>9
<1>11. AllOf(new, n) = ToSet(pack)  BY <1>1 DEF ToSet, AllOf
<1> QED  BY <1>4, <1>9, <1>10, <1>11

LEMMA RulesResolved ==
  ASSUME NEW p \in Profiles
  PROVE  ResolveRules(p) \in Seq(Rules) /\ ToSet(ResolveRules(p)) = RulesOf(p)
<1> DEFINE ids == p.packs
           Once(s, k) == IF ids[k] \notin DOMAIN Packs THEN s ELSE AddPack(s, Packs[ids[k]])
           Named(k) == IF ids[k] \notin DOMAIN Packs THEN {} ELSE ToSet(Packs[ids[k]])
<1> DEFINE n == Len(ids)
           first == << >>
           step == [k \in 1 .. n |-> [s \in Seq(Rules) |-> Once(s, k)]]
           Is(f) == f = [k \in 0 .. n |-> IF k = 0 THEN first ELSE Once(f[k - 1], k)]
           resolved == CHOOSE f : Is(f)
<1>1. n \in Nat /\ DOMAIN ids = 1 .. n
  <2>1. ids \in Seq(ToSet(ids))  BY PolicyAssumption
  <2> QED  BY <2>1, LenProperties
<1>2. first \in Seq(Rules) /\ ToSet(first) = {}
  BY DEF ToSet
<1>3. ASSUME NEW k \in 1 .. n, NEW s \in Seq(Rules)
      PROVE  /\ Once(s, k) \in Seq(Rules)
             /\ ToSet(Once(s, k)) = ToSet(s) \cup Named(k)
  BY PackAdded
<1>4. ResolveRules(p) = resolved[n]
  BY DEF ResolveRules
<1> HIDE DEF n, first
<1>5. \E f \in [0 .. n -> Seq(Rules)] : Is(f)
  <2>1. step \in [1 .. n -> [Seq(Rules) -> Seq(Rules)]]  BY <1>3
  <2>2. PICK f \in [0 .. n -> Seq(Rules)] : IsLoop(f, n, first, step)
    <3> HIDE DEF step
    <3> QED  BY <1>1, <1>2, <2>1, LoopsEnd
  <2>3. ASSUME NEW k \in 1 .. n PROVE step[k][f[k - 1]] = Once(f[k - 1], k)
    <3>1. k - 1 \in 0 .. n  BY <1>1
    <3> QED  BY <3>1
  <2>4. f = [k \in 0 .. n |-> IF k = 0 THEN first ELSE Once(f[k - 1], k)]
    <3> HIDE DEF step
    <3>1. \A k \in 0 .. n : k = 0 \/ k \in 1 .. n  BY <1>1
    <3> QED  BY <2>2, <2>3, <3>1, Zenon DEF IsLoop
  <2> QED  BY <2>4
<1>6. Is(resolved)  BY <1>5, Zenon
<1> HIDE DEF resolved
<1> DEFINE worth == [s \in Seq(Rules) |-> ToSet(s)]
           new == [k \in 1 .. n |-> Named(k)]
<1>7. ASSUME NEW k \in 1 .. n, resolved[k - 1] \in Seq(Rules)
      PROVE  resolved[k] \in Seq(Rules) /\ worth[resolved[k]] = worth[resolved[k - 1]] \cup new[k]
  <2>1. k \in 0 .. n /\ k # 0  BY <1>1
  <2>2. resolved[k] = Once(resolved[k - 1], k)  BY <1>6, <2>1
  <2> QED  BY <1>3, <1>7, <2>2
<1>8. resolved[0] = first  BY <1>1, <1>6
<1>9. resolved[n] \in Seq(Rules) /\ worth[resolved[n]] = worth[resolved[0]] \cup AllOf(new, n)
  <2> HIDE DEF worth, new
  <2>1. n \in Nat /\ RoundsAdd(resolved, n, Seq(Rules), worth, new)
    BY <1>1, <1>2, <1>7, <1>8 DEF RoundsAdd
  <2> QED  BY <2>1, LoopAdds
<1>10. ToSet(resolved[n]) = AllOf(new, n)  BY <1>2, <1>8, <1>9
<1>11. ASSUME NEW r PROVE r \in AllOf(new, n) <=> r \in RulesOf(p)
  <2>1. r \in AllOf(new, n) <=> \E k \in 1 .. n : r \in Named(k)  BY DEF AllOf
  <2>2. r \in RulesOf(p) <=> \E j \in ToSet(ids) \cap DOMAIN Packs : r \in ToSet(Packs[j])
    BY DEF RulesOf
  <2>3. \A j : j \in ToSet(ids) <=> \E k \in 1 .. n : ids[k] = j  BY <1>1, InToSet
  <2> QED  BY ONLY <2>1, <2>2, <2>3
<1> QED  BY <1>4, <1>9, <1>10, <1>11

LEMMA RulesPrompted ==
  ASSUME NEW rules \in Seq(Rules)
  PROVE  /\ Prompted(rules) \in Seq(Rules)
         /\ ToSet(Prompted(rules)) = {r \in ToSet(rules) : r.prompt # {}}
<1> DEFINE Once(s, k) == IF rules[k].prompt = {} THEN s ELSE Append(s, rules[k])
           Taken(k) == IF rules[k].prompt = {} THEN {} ELSE {rules[k]}
<1> DEFINE n == Len(rules)
           first == << >>
           step == [k \in 1 .. n |-> [s \in Seq(Rules) |-> Once(s, k)]]
           Is(f) == f = [k \in 0 .. n |-> IF k = 0 THEN first ELSE Once(f[k - 1], k)]
           kept == CHOOSE f : Is(f)
<1>1. n \in Nat /\ DOMAIN rules = 1 .. n /\ \A k \in 1 .. n : rules[k] \in Rules
  BY LenProperties, ElementOfSeq
<1>2. first \in Seq(Rules) /\ ToSet(first) = {}
  BY DEF ToSet
<1>3. ASSUME NEW k \in 1 .. n, NEW s \in Seq(Rules)
      PROVE  /\ Once(s, k) \in Seq(Rules)
             /\ ToSet(Once(s, k)) = ToSet(s) \cup Taken(k)
  BY <1>1, OneMoreInToSet
<1>4. Prompted(rules) = kept[n]
  BY DEF Prompted
<1> HIDE DEF n, first
<1>5. \E f \in [0 .. n -> Seq(Rules)] : Is(f)
  <2>1. step \in [1 .. n -> [Seq(Rules) -> Seq(Rules)]]  BY <1>3
  <2>2. PICK f \in [0 .. n -> Seq(Rules)] : IsLoop(f, n, first, step)
    <3> HIDE DEF step
    <3> QED  BY <1>1, <1>2, <2>1, LoopsEnd
  <2>3. ASSUME NEW k \in 1 .. n PROVE step[k][f[k - 1]] = Once(f[k - 1], k)
    <3>1. k - 1 \in 0 .. n  BY <1>1
    <3> QED  BY <3>1
  <2>4. f = [k \in 0 .. n |-> IF k = 0 THEN first ELSE Once(f[k - 1], k)]
    <3> HIDE DEF step
    <3>1. \A k \in 0 .. n : k = 0 \/ k \in 1 .. n  BY <1>1
    <3> QED  BY <2>2, <2>3, <3>1, Zenon DEF IsLoop
  <2> QED  BY <2>4
<1>6. Is(kept)  BY <1>5, Zenon
<1> HIDE DEF kept
<1> DEFINE worth == [s \in Seq(Rules) |-> ToSet(s)]
           new == [k \in 1 .. n |-> Taken(k)]
<1>7. ASSUME NEW k \in 1 .. n, kept[k - 1] \in Seq(Rules)
      PROVE  kept[k] \in Seq(Rules) /\ worth[kept[k]] = worth[kept[k - 1]] \cup new[k]
  <2>1. k \in 0 .. n /\ k # 0  BY <1>1
  <2>2. kept[k] = Once(kept[k - 1], k)  BY <1>6, <2>1
  <2> QED  BY <1>3, <1>7, <2>2
<1>8. kept[0] = first  BY <1>1, <1>6
<1>9. kept[n] \in Seq(Rules) /\ worth[kept[n]] = worth[kept[0]] \cup AllOf(new, n)
  <2> HIDE DEF worth, new
  <2>1. n \in Nat /\ RoundsAdd(kept, n, Seq(Rules), worth, new)
    BY <1>1, <1>2, <1>7, <1>8 DEF RoundsAdd
  <2> QED  BY <2>1, LoopAdds
<1>10. ToSet(kept[n]) = AllOf(new, n)  BY <1>2, <1>8, <1>9
<1>11. ASSUME NEW r PROVE r \in AllOf(new, n) <=> r \in ToSet(rules) /\ r.prompt # {}
  <2>1. r \in AllOf(new, n) <=> \E k \in 1 .. n : r \in Taken(k)  BY DEF AllOf
  <2>2. r \in ToSet(rules) <=> \E k \in 1 .. n : rules[k] = r  BY <1>1, InToSet
  <2> QED  BY ONLY <2>1, <2>2
<1> QED  BY <1>4, <1>9, <1>10, <1>11

-----------------------------------------------------------------------------
(* The overlap repeats the last lines of the snippet before. *)
LEMMA MinOfTwo ==
  ASSUME NEW a \in Nat, NEW b \in Nat
  PROVE  Min({a, b}) \in Nat /\ Min({a, b}) <= b
<1>1. {a, b} \subseteq Nat /\ {a, b} # {}  OBVIOUS
<1>2. \E x \in {a, b} : \A y \in {a, b} : x <= y  BY <1>1, Least
<1> QED  BY <1>1, <1>2 DEF Min

LEMMA OneOverlap ==
  ASSUME NEW snippets \in Seq(Snippets), NEW k \in DOMAIN snippets
  PROVE  /\ AddOverlap(snippets)[k] \in Snippets
         /\ SpansOf(snippets[k].lines) \subseteq SpansOf(AddOverlap(snippets)[k].lines)
         /\ SpansOf(AddOverlap(snippets)[k].lines) \subseteq SnippetSpans(snippets)
<1>1. Len(snippets) \in Nat /\ DOMAIN snippets = 1 .. Len(snippets)  BY LenProperties
<1>2. snippets[k] \in Snippets  BY <1>1, ElementOfSeq
<1>3. SpansOf(snippets[k].lines) \subseteq SnippetSpans(snippets)  BY InSnippetSpans
<1>4. CASE k = 1
  <2>1. AddOverlap(snippets)[k] = snippets[k]  BY <1>4 DEF AddOverlap
  <2> QED  BY <1>2, <1>3, <2>1
<1>5. CASE k # 1
  <2> DEFINE before == snippets[k - 1]
             n == Min({OverlapLines, Len(before.lines)})
             L == Len(before.lines)
             part == SubSeq(before.lines, L - n + 1, L)
             lines == part \o snippets[k].lines
  <2>1. k - 1 \in DOMAIN snippets  BY <1>1, <1>5
  <2>2. before \in Snippets  BY <1>1, <2>1, ElementOfSeq
  <2>3. SpansOf(before.lines) \subseteq SnippetSpans(snippets)  BY <2>1, InSnippetSpans
  <2>4. AddOverlap(snippets)[k] = Snippet(lines, before.offset + L - n)
    BY <1>5 DEF AddOverlap
  <2> HIDE DEF before
  <2>5. before.lines \in Seq(Text) /\ before.offset \in Int  BY <2>2 DEF Snippets
  <2>6. L \in Nat  BY <2>5, LenProperties
  <2>7. n \in Nat /\ n <= L
    <3>1. OverlapLines \in Nat  BY PolicyAssumption
    <3> QED  BY <2>6, <3>1, MinOfTwo
  <2> HIDE DEF n, L
  <2>8. L - n + 1 \in 1 .. L + 1 /\ before.offset + L - n \in Int
    BY ONLY <2>5, <2>6, <2>7
  <2>9. part \in Seq(Text) /\ SpansOf(part) \subseteq SpansOf(before.lines)
    BY <2>5, <2>8, SpansOfPart DEF L
  <2>10. snippets[k].lines \in Seq(Text)  BY <1>2 DEF Snippets
  <2> HIDE DEF part
  <2>11. lines \in Seq(Text) /\ SpansOf(lines) = SpansOf(part) \cup SpansOf(snippets[k].lines)
    BY <2>9, <2>10, SpansOfJoined
  <2> HIDE DEF lines
  <2>12. AddOverlap(snippets)[k] \in Snippets /\ AddOverlap(snippets)[k].lines = lines
    BY <2>4, <2>8, <2>11 DEF Snippet, Snippets
  <2> QED  BY <1>3, <2>3, <2>9, <2>11, <2>12
<1> QED  BY <1>4, <1>5

LEMMA OverlapAdded ==
  ASSUME NEW snippets \in Seq(Snippets)
  PROVE  /\ AddOverlap(snippets) \in Seq(Snippets)
         /\ SnippetSpans(AddOverlap(snippets)) = SnippetSpans(snippets)
<1> DEFINE longer == AddOverlap(snippets)
<1>1. Len(snippets) \in Nat /\ DOMAIN snippets = 1 .. Len(snippets)  BY LenProperties
<1>2. DOMAIN longer = DOMAIN snippets /\ longer = [k \in DOMAIN snippets |-> longer[k]]
  BY DEF AddOverlap
<1>3. \A k \in DOMAIN snippets :
        /\ longer[k] \in Snippets
        /\ SpansOf(snippets[k].lines) \subseteq SpansOf(longer[k].lines)
        /\ SpansOf(longer[k].lines) \subseteq SnippetSpans(snippets)
  BY OneOverlap
<1> HIDE DEF longer
<1>4. longer \in Seq(Snippets)
  <2>1. longer \in [1 .. Len(snippets) -> Snippets]  BY <1>1, <1>2, <1>3
  <2> QED  BY <1>1, <2>1, SeqDef
<1>5. ASSUME NEW s PROVE s \in SnippetSpans(longer) <=> s \in SnippetSpans(snippets)
  BY <1>2, <1>3, InSnippetSpans
<1>6. SnippetSpans(longer) = SnippetSpans(snippets)  BY ONLY <1>5
<1> QED  BY <1>4, <1>6 DEF longer

(* A text of blank lines only is one block, and any other is its blocks. *)
LEMMA Chunked ==
  ASSUME NEW lines \in Seq(Text)
  PROVE  Chunk(lines) \in Seq(Snippets) /\ SnippetSpans(Chunk(lines)) = SpansOf(lines)
<1> DEFINE blocks == ExtractBlocks(lines)
           all == IF blocks = << >> THEN <<Snippet(lines, 0)>> ELSE blocks
<1>1. blocks \in Seq(Snippets) /\ SnippetSpans(blocks) = SpansOf(lines)  BY BlocksExtracted
<1>2. Chunk(lines) = AddOverlap(MergeBlocks(all))  BY DEF Chunk
<1> HIDE DEF blocks
<1>3. all \in Seq(Snippets) /\ SnippetSpans(all) = SpansOf(lines)
  <2>1. CASE blocks = << >>
    <3> DEFINE one == Snippet(lines, 0)
    <3>1. one \in Snippets /\ one.lines = lines  BY DEF Snippet, Snippets
    <3>2. all = <<one>>  BY <2>1
    <3> HIDE DEF one, all
    <3>3. <<one>> \in Seq(Snippets) /\ DOMAIN <<one>> = {1} /\ <<one>>[1] = one  BY <3>1
    <3>4. ASSUME NEW s PROVE s \in SnippetSpans(<<one>>) <=> s \in SpansOf(lines)
      BY <3>1, <3>3, InSnippetSpans
    <3>5. SnippetSpans(<<one>>) = SpansOf(lines)  BY ONLY <3>4
    <3> QED  BY <3>2, <3>3, <3>5
  <2>2. CASE blocks # << >>
    BY <1>1, <2>2
  <2> QED  BY <2>1, <2>2
<1> HIDE DEF all
<1>4. MergeBlocks(all) \in Seq(Snippets) /\ SnippetSpans(MergeBlocks(all)) = SnippetSpans(all)
  BY <1>3, BlocksMerged
<1>5. /\ AddOverlap(MergeBlocks(all)) \in Seq(Snippets)
      /\ SnippetSpans(AddOverlap(MergeBlocks(all))) = SnippetSpans(MergeBlocks(all))
  BY <1>4, OverlapAdded
<1> QED  BY <1>2, <1>3, <1>4, <1>5

-----------------------------------------------------------------------------
(***************************************************************************)
(* One evaluation.  First what the patterns find.                          *)
(***************************************************************************)
LEMMA FoundByPatterns ==
  ASSUME NEW p \in Profiles, NEW f
  PROVE  f \in EvaluateContent(p) <=>
           \E r \in RulesOf(p) : \E i \in DOMAIN doc :
             \E s \in (doc[i].spans \cap r.patterns) \ p.allow : f = FindingOf(r, s, i)
<1> DEFINE Of(r, i) == {FindingOf(r, s, i) : s \in (doc[i].spans \cap r.patterns) \ p.allow}
           R == ToSet(ResolveRules(p))
<1>1. EvaluateContent(p) = UNION {Of(r, i) : r \in R, i \in DOMAIN doc}
  BY DEF EvaluateContent
<1>2. R = RulesOf(p)  BY RulesResolved
<1>3. ASSUME NEW r, NEW i
      PROVE  f \in Of(r, i) <=>
               \E s \in (doc[i].spans \cap r.patterns) \ p.allow : f = FindingOf(r, s, i)
  OBVIOUS
<1> HIDE DEF Of, R
<1>4. f \in UNION {Of(r, i) : r \in R, i \in DOMAIN doc}
        <=> \E r \in R : \E i \in DOMAIN doc : f \in Of(r, i)
  OBVIOUS
<1> QED  BY ONLY <1>1, <1>2, <1>3, <1>4

LEMMA FindingIs ==
  ASSUME NEW r, NEW s, NEW i
  PROVE  FindingOf(r, s, i).rule = r.id /\ FindingOf(r, s, i).span = s
BY DEF FindingOf

LEMMA PatternsAreHonest ==
  ASSUME NEW p \in Profiles
  PROVE  Honest(EvaluateContent(p), {}, ToSet(Prompted(ResolveRules(p))), doc, p, options.prefilter)
<1> DEFINE found == EvaluateContent(p)
           open == ToSet(Prompted(ResolveRules(p)))
<1>1. \A r : r \in open <=> r \in RulesOf(p) /\ r.prompt # {}
  BY RulesResolved, RulesPrompted
<1>2. Sound(found, doc, p)
  <2>1. SUFFICES ASSUME NEW f \in found
                 PROVE  \E r \in RulesOf(p) :
                          f.rule = r.id /\ f.span \in Owed(doc, p, r.patterns \cup r.prompt)
    BY DEF Sound
  <2>2. PICK r \in RulesOf(p), i \in DOMAIN doc :
               \E s \in (doc[i].spans \cap r.patterns) \ p.allow : f = FindingOf(r, s, i)
    BY <2>1, FoundByPatterns
  <2>3. PICK s \in (doc[i].spans \cap r.patterns) \ p.allow : f = FindingOf(r, s, i)
    BY <2>2
  <2>4. f.rule = r.id /\ f.span = s  BY <2>3, FindingIs
  <2>5. s \in SpansOf(doc)  BY InSpansOf
  <2> QED  BY <2>4, <2>5 DEF Owed
<1>3. ASSUME NEW r \in RulesOf(p)
      PROVE  /\ Finds(found, r, Owed(doc, p, r.patterns))
             /\ r \in open \/ Finds(found, r, Owed(doc, p, Asked(options.prefilter, r)))
  <2>1. ASSUME NEW s \in Owed(doc, p, r.patterns)
        PROVE  \E f \in found : f.rule = r.id /\ f.span = s
    <3>1. s \in SpansOf(doc) /\ s \notin p.allow /\ s \in r.patterns  BY DEF Owed
    <3>2. PICK i \in DOMAIN doc : s \in doc[i].spans  BY <3>1, InSpansOf
    <3>3. s \in (doc[i].spans \cap r.patterns) \ p.allow  BY <3>1, <3>2
    <3>4. FindingOf(r, s, i) \in found  BY <3>3, FoundByPatterns
    <3> QED  BY <3>4, FindingIs
  <2>2. r.prompt = {} => Owed(doc, p, Asked(options.prefilter, r)) = {}  BY DEF Owed, Asked
  <2>3. r \in open \/ r.prompt = {}  BY <1>1
  <2> HIDE DEF found, open
  <2> QED  BY <2>1, <2>2, <2>3 DEF Finds
<1> HIDE DEF found, open
<1>4. Honest(found, {}, open, doc, p, options.prefilter)  BY <1>2, <1>3 DEF Honest
<1> QED  BY <1>4 DEF found, open

(* What the levels have to come, as they advance, descend and ascend. *)
LEMMA AtHere ==
  ASSUME levels \in Seq(OpenLevel), levels # << >>
  PROVE  /\ Len(levels) \in Nat \ {0} /\ DOMAIN levels = 1 .. Len(levels)
         /\ \A j \in DOMAIN levels : levels[j] \in OpenLevel
         /\ Level = levels[Len(levels)]
<1>1. Len(levels) \in Nat /\ DOMAIN levels = 1 .. Len(levels)
      /\ \A j \in DOMAIN levels : levels[j] \in OpenLevel
  BY LenProperties, ElementOfSeq
<1>2. Len(levels) # 0  BY EmptySeq
<1> QED  BY <1>1, <1>2 DEF Level, Last

LEMMA Advancing ==
  ASSUME levels \in Seq(OpenLevel), levels # << >>, AtSnippet
  PROVE  /\ Here \in Snippets
         /\ SpansOf(Here.lines) \subseteq SnippetSpans(Level.snippets)
         /\ Level.base \in Int /\ Level.next \in Nat
         /\ Advanced \in Seq(OpenLevel) /\ Advanced # << >>
         /\ DOMAIN Advanced = DOMAIN levels
         /\ \A j \in DOMAIN levels : Advanced[j].snippets = levels[j].snippets
         /\ \A s : ToCome(levels, s) => ToCome(Advanced, s) \/ s \in SpansOf(Here.lines)
<1> DEFINE n == Len(levels)
           top == levels[n]
           moved == [top EXCEPT !.next = @ + 1]
<1>1. /\ n \in Nat \ {0} /\ DOMAIN levels = 1 .. n /\ n \in DOMAIN levels
      /\ \A j \in DOMAIN levels : levels[j] \in OpenLevel
      /\ Level = top
  BY AtHere
<1>2. /\ top.snippets \in Seq(Snippets) /\ top.base \in Int /\ top.next \in Nat \ {0}
      /\ top \in OpenLevel
  BY <1>1 DEF OpenLevel
<1>3. Len(top.snippets) \in Nat /\ DOMAIN top.snippets = 1 .. Len(top.snippets)
      /\ \A k \in DOMAIN top.snippets : top.snippets[k] \in Snippets
  BY <1>2, LenProperties, ElementOfSeq
<1>4. top.next <= Len(top.snippets)  BY <1>1 DEF AtSnippet
<1>5. top.next \in DOMAIN top.snippets  BY <1>2, <1>3, <1>4
<1>6. Here = top.snippets[top.next]  BY <1>1 DEF Here
<1>7. /\ moved \in OpenLevel /\ moved.snippets = top.snippets /\ moved.next = top.next + 1
  <2>1. top.next + 1 \in Nat \ {0}  BY ONLY <1>2
  <2> HIDE DEF top
  <2> QED  BY ONLY <1>2, <2>1 DEF OpenLevel, moved
<1>8. Advanced = [levels EXCEPT ![n] = moved]  BY DEF Advanced
<1> HIDE DEF moved, top, n
<1>9. /\ DOMAIN Advanced = 1 .. n /\ Advanced = [j \in 1 .. n |-> Advanced[j]]
      /\ Advanced[n] = moved
      /\ \A j \in 1 .. n : j # n => Advanced[j] = levels[j]
  BY <1>1, <1>8
<1>10. Advanced \in Seq(OpenLevel) /\ Advanced # << >>
  <2>1. \A j \in 1 .. n : Advanced[j] \in OpenLevel  BY <1>1, <1>7, <1>9
  <2>2. Advanced \in [1 .. n -> OpenLevel]  BY <1>9, <2>1
  <2>3. DOMAIN << >> = {}  OBVIOUS
  <2> QED  BY <1>1, <1>9, <2>2, <2>3, SeqDef
<1>11. \A j \in DOMAIN levels : Advanced[j].snippets = levels[j].snippets
  BY <1>1, <1>7, <1>9 DEF top
<1>12. ASSUME NEW s, ToCome(levels, s) PROVE ToCome(Advanced, s) \/ s \in SpansOf(Here.lines)
  <2>1. PICK j \in DOMAIN levels : \E k \in levels[j].next .. Len(levels[j].snippets) :
               s \in SpansOf(levels[j].snippets[k].lines)
    BY <1>12 DEF ToCome
  <2>2. PICK k \in levels[j].next .. Len(levels[j].snippets) :
               s \in SpansOf(levels[j].snippets[k].lines)
    BY <2>1
  <2>3. CASE j # n
    <3>1. Advanced[j] = levels[j] /\ j \in DOMAIN Advanced  BY <1>1, <1>9, <2>3
    <3> QED  BY <2>2, <3>1 DEF ToCome
  <2>4. CASE j = n /\ k = top.next
    <3>1. levels[j] = top  BY <2>4 DEF top
    <3> QED  BY <1>6, <2>2, <2>4, <3>1
  <2>5. CASE j = n /\ k # top.next
    <3>1. levels[j] = top  BY <2>5 DEF top
    <3>2. k \in top.next .. Len(top.snippets)  BY <2>2, <3>1
    <3>3. k \in top.next + 1 .. Len(top.snippets)  BY ONLY <1>2, <1>3, <2>5, <3>2
    <3>4. /\ n \in DOMAIN Advanced /\ Advanced[n].next = top.next + 1
          /\ Advanced[n].snippets = top.snippets
      BY <1>1, <1>7, <1>9
    <3>5. s \in SpansOf(top.snippets[k].lines)  BY <2>2, <3>1
    <3> QED  BY <3>3, <3>4, <3>5 DEF ToCome
  <2> QED  BY <2>3, <2>4, <2>5
<1>13. Here \in Snippets  BY <1>3, <1>5, <1>6
<1>14. SpansOf(Here.lines) \subseteq SnippetSpans(Level.snippets)
  BY <1>1, <1>5, <1>6, InSnippetSpans DEF top
<1>15. Level.base \in Int /\ Level.next \in Nat  BY <1>1, <1>2 DEF top
<1> QED  BY <1>1, <1>9, <1>10, <1>11, <1>12, <1>13, <1>14, <1>15

(* A step within a level changes the levels, the hits and the budget. *)
StepsWithin ==
  /\ stage' = stage
  /\ UNCHANGED <<doc, profile, options, unjudged, findings, unevaluated, decisions, regressions>>

LEMMA WithinLevel ==
  ASSUME PolicyInv, stage = "level", StepsWithin,
         levels' \in Seq(OpenLevel), levels' # << >>,
         budget' \in [left : Nat, exhausted : BOOLEAN, start : Nat],
         Heard(levels', hits', LeavesContent', SpansOf(doc), unjudged[1], options.prefilter)
  PROVE  PolicyInv'
<1>1. PolicyTypes'  BY DEF PolicyInv, PolicyTypes, StepsWithin
<1>2. Decided'  BY DEF PolicyInv, Decided, StepsWithin
<1>3. Evaluating'  BY DEF PolicyInv, Evaluating, StepsWithin
<1>4. Judging'  BY DEF PolicyInv, Judging, StepsWithin
<1>5. Watched'  BY DEF Watched, StepsWithin
<1> QED  BY <1>1, <1>2, <1>3, <1>4, <1>5 DEF PolicyInv

(* What holds within a level, and of the snippet a step reads. *)
LEMMA InLevel ==
  ASSUME PolicyInv, stage = "level"
  PROVE  /\ levels \in Seq(OpenLevel) /\ levels # << >>
         /\ doc \in Seq(Text) /\ options.calls \in Nat /\ options.prefilter \in Prefilters
         /\ budget \in [left : Nat, exhausted : BOOLEAN, start : Nat]
         /\ unjudged \in Seq(Rules) /\ unjudged # << >> /\ unjudged[1] \in Rules
         /\ unjudged[1] \in ToSet(unjudged)
         /\ Heard(levels, hits, LeavesContent, SpansOf(doc), unjudged[1], options.prefilter)
<1>1. PolicyTypes /\ Judging  BY DEF PolicyInv
<1>2. unjudged \in Seq(Rules) /\ unjudged # << >>  BY <1>1 DEF PolicyTypes, Judging
<1>3. unjudged[1] \in Rules /\ 1 \in DOMAIN unjudged
  <2>1. Len(unjudged) \in Nat /\ DOMAIN unjudged = 1 .. Len(unjudged)  BY <1>2, LenProperties
  <2>2. Len(unjudged) # 0  BY <1>2, EmptySeq
  <2> QED  BY <1>2, <2>1, <2>2, ElementOfSeq
<1>4. unjudged[1] \in ToSet(unjudged)  BY <1>3, InToSet
<1>5. options.calls \in Budgets /\ Budgets \subseteq Nat  BY <1>1, PolicyAssumption DEF PolicyTypes
<1> QED  BY <1>1, <1>2, <1>3, <1>4, <1>5 DEF PolicyTypes, Judging

(* Where a step leaves the snippet it is at behind. *)
LEMMA SnippetLeft ==
  ASSUME PolicyInv, AtSnippet, NEW heard, NEW leaves, LeavesContent => leaves,
         hits \subseteq heard,
         \A h \in heard : h.span \in SpansOf(doc) \cap unjudged[1].prompt,
         \/ leaves
         \/ \A s \in SpansOf(Here.lines) \cap Asked(options.prefilter, unjudged[1]) :
              \E h \in heard : h.span = s
  PROVE  Heard(Advanced, heard, leaves, SpansOf(doc), unjudged[1], options.prefilter)
<1>1. stage = "level"  BY DEF AtSnippet
<1>2. Heard(levels, hits, LeavesContent, SpansOf(doc), unjudged[1], options.prefilter)  BY <1>1, InLevel
<1>3. /\ DOMAIN Advanced = DOMAIN levels
      /\ \A j \in DOMAIN levels : Advanced[j].snippets = levels[j].snippets
      /\ \A s : ToCome(levels, s) => ToCome(Advanced, s) \/ s \in SpansOf(Here.lines)
  BY <1>1, InLevel, Advancing
<1>4. \A j \in DOMAIN Advanced : SnippetSpans(Advanced[j].snippets) \subseteq SpansOf(doc)
  BY <1>2, <1>3 DEF Heard
<1>5. ASSUME ~ leaves, NEW s \in SpansOf(doc) \cap Asked(options.prefilter, unjudged[1])
      PROVE  ToCome(Advanced, s) \/ \E h \in heard : h.span = s
  <2>1. ToCome(levels, s) \/ \E h \in hits : h.span = s  BY <1>2, <1>5 DEF Heard
  <2> QED  BY <1>3, <1>5, <2>1
<1> QED  BY <1>4, <1>5 DEF Heard

LEMMA SkipPreserves == ASSUME PolicyInv, SkipSnippet PROVE PolicyInv'
<1>1. stage = "level" /\ AtSnippet /\ ~ Promising  BY DEF SkipSnippet, AtSnippet
<1>2. StepsWithin /\ levels' = Advanced /\ budget' = budget /\ hits' = hits
  BY DEF SkipSnippet, StepsWithin
<1>3. Advanced \in Seq(OpenLevel) /\ Advanced # << >>  BY <1>1, InLevel, Advancing
<1>4. Heard(levels, hits, LeavesContent, SpansOf(doc), unjudged[1], options.prefilter)  BY <1>1, InLevel
<1>5. ASSUME NEW s \in SpansOf(Here.lines) \cap Asked(options.prefilter, unjudged[1]) PROVE FALSE
  <2>1. options.prefilter # NoPrefilter /\ SpansOf(Here.lines) \cap options.prefilter = {}
    BY <1>1 DEF Promising
  <2> QED  BY <1>5, <2>1 DEF Asked
<1>6. \A h \in hits : h.span \in SpansOf(doc) \cap unjudged[1].prompt  BY <1>4 DEF Heard
<1>7. Heard(Advanced, hits, LeavesContent, SpansOf(doc), unjudged[1], options.prefilter)
  BY <1>1, <1>5, <1>6, SnippetLeft
<1>8. LeavesContent' = LeavesContent  BY <1>2 DEF LeavesContent
<1>9. budget \in [left : Nat, exhausted : BOOLEAN, start : Nat]  BY <1>1, InLevel
<1> QED  BY <1>1, <1>2, <1>3, <1>7, <1>8, <1>9, WithinLevel

LEMMA RefusePreserves == ASSUME PolicyInv, RefuseSnippet PROVE PolicyInv'
<1>1. stage = "level" /\ AtSnippet  BY DEF RefuseSnippet, AtSnippet
<1>2. StepsWithin /\ levels' = Advanced /\ hits' = hits  BY DEF RefuseSnippet, StepsWithin
<1>3. /\ Advanced \in Seq(OpenLevel) /\ Advanced # << >> /\ Level.next \in Nat
  BY <1>1, InLevel, Advancing
<1>4. /\ budget \in [left : Nat, exhausted : BOOLEAN, start : Nat]
      /\ Heard(levels, hits, LeavesContent, SpansOf(doc), unjudged[1], options.prefilter)
  BY <1>1, InLevel
<1>5. budget' \in [left : Nat, exhausted : BOOLEAN, start : Nat] /\ budget'.exhausted
  <2>1. budget' = [budget EXCEPT !.exhausted = TRUE,
                     !.start = IF @ = NotRefused /\ Len(levels) = 1 THEN Level.next ELSE @]
    BY DEF RefuseSnippet
  <2> QED  BY <1>3, <1>4, <2>1
<1>6. LeavesContent' = TRUE  BY <1>5 DEF LeavesContent
<1>7. \A h \in hits : h.span \in SpansOf(doc) \cap unjudged[1].prompt  BY <1>4 DEF Heard
<1>8. Heard(Advanced, hits, TRUE, SpansOf(doc), unjudged[1], options.prefilter)
  BY <1>1, <1>7, SnippetLeft
<1> QED  BY <1>1, <1>2, <1>3, <1>5, <1>6, <1>8, WithinLevel

LEMMA CallPreserves == ASSUME PolicyInv, CallLeaf PROVE PolicyInv'
<1> DEFINE prompt == unjudged[1].prompt
           heard == (SpansOf(Here.lines) \cap prompt) \ {h.span : h \in hits}
           Hit(s) == Remap(Level.base + Here.offset, Here.lines, s)
           all == hits \cup {Hit(s) : s \in heard}
<1>1. stage = "level" /\ AtSnippet  BY DEF CallLeaf, AtSnippet
<1>2. StepsWithin /\ levels' = Advanced /\ hits' = all /\ budget' = [budget EXCEPT !.left = @ - 1]
      /\ budget.left > 0
  BY DEF CallLeaf, StepsWithin
<1>3. /\ Advanced \in Seq(OpenLevel) /\ Advanced # << >>
      /\ SpansOf(Here.lines) \subseteq SnippetSpans(Level.snippets)
  BY <1>1, InLevel, Advancing
<1>4. /\ budget \in [left : Nat, exhausted : BOOLEAN, start : Nat]
      /\ Heard(levels, hits, LeavesContent, SpansOf(doc), unjudged[1], options.prefilter)
  BY <1>1, InLevel
<1>5. /\ budget' \in [left : Nat, exhausted : BOOLEAN, start : Nat]
      /\ budget'.exhausted = budget.exhausted /\ budget'.start = budget.start
  BY <1>2, <1>4
<1>6. LeavesContent' = LeavesContent  BY <1>5 DEF LeavesContent
<1>7. SpansOf(Here.lines) \subseteq SpansOf(doc)
  <2>1. Len(levels) \in DOMAIN levels /\ Level = levels[Len(levels)]  BY <1>1, InLevel, AtHere
  <2>2. SnippetSpans(levels[Len(levels)].snippets) \subseteq SpansOf(doc)
    BY <1>4, <2>1 DEF Heard
  <2> QED  BY <1>3, <2>1, <2>2
<1>8. ASSUME NEW s PROVE Hit(s).span = s  BY DEF Remap
<1> HIDE DEF Hit
<1>9. \A h \in all : h.span \in SpansOf(doc) \cap prompt
  <2>1. ASSUME NEW h \in hits PROVE h.span \in SpansOf(doc) \cap prompt  BY <1>4 DEF Heard
  <2>2. ASSUME NEW s \in heard PROVE Hit(s).span \in SpansOf(doc) \cap prompt  BY <1>7, <1>8
  <2> QED  BY <2>1, <2>2
<1>10. ASSUME NEW s \in SpansOf(Here.lines) \cap prompt PROVE \E h \in all : h.span = s
  <2>1. CASE s \in heard
    <3>1. Hit(s) \in all  BY <2>1
    <3> QED  BY <1>8, <3>1
  <2>2. CASE s \notin heard
    <3>1. \E h \in hits : h.span = s  BY <2>2
    <3> QED  BY <3>1
  <2> QED  BY <2>1, <2>2
<1>11. hits \subseteq all  OBVIOUS
<1> HIDE DEF all
<1>13. Asked(options.prefilter, unjudged[1]) \subseteq prompt  BY DEF Asked
<1>12. Heard(Advanced, all, LeavesContent, SpansOf(doc), unjudged[1], options.prefilter)
  BY <1>1, <1>9, <1>10, <1>11, <1>13, SnippetLeft
<1> QED  BY <1>1, <1>2, <1>3, <1>5, <1>6, <1>12, WithinLevel

(* The new level has all that the snippet had. *)
LEMMA DescendPreserves == ASSUME PolicyInv, Descend PROVE PolicyInv'
<1> DEFINE inner == Chunk(Here.lines)
           new == [snippets |-> inner, base |-> Level.base + Here.offset, next |-> 1]
           deeper == Append(Advanced, new)
           spans == SpansOf(doc)
           prompt == unjudged[1].prompt
<1>1. stage = "level" /\ AtSnippet  BY DEF Descend, AtSnippet
<1>2. StepsWithin /\ levels' = deeper /\ hits' = hits /\ budget' = budget
  BY DEF Descend, StepsWithin
<1>3. /\ Here \in Snippets /\ Level.base \in Int
      /\ SpansOf(Here.lines) \subseteq SnippetSpans(Level.snippets)
      /\ Advanced \in Seq(OpenLevel)
      /\ DOMAIN Advanced = DOMAIN levels
      /\ \A j \in DOMAIN levels : Advanced[j].snippets = levels[j].snippets
      /\ \A s : ToCome(levels, s) => ToCome(Advanced, s) \/ s \in SpansOf(Here.lines)
  BY <1>1, InLevel, Advancing
<1>4. /\ budget \in [left : Nat, exhausted : BOOLEAN, start : Nat]
      /\ Heard(levels, hits, LeavesContent, spans, unjudged[1], options.prefilter)
  BY <1>1, InLevel
<1>5. Here.lines \in Seq(Text) /\ Here.offset \in Int  BY <1>3 DEF Snippets
<1>6. inner \in Seq(Snippets) /\ SnippetSpans(inner) = SpansOf(Here.lines)  BY <1>5, Chunked
<1>7. /\ new \in OpenLevel /\ new.snippets = inner /\ new.next = 1
  <2>1. Level.base + Here.offset \in Int  BY <1>3, <1>5
  <2> HIDE DEF inner
  <2> QED  BY <1>6, <2>1 DEF OpenLevel
<1>8. SpansOf(Here.lines) \subseteq spans
  <2>1. Len(levels) \in DOMAIN levels /\ Level = levels[Len(levels)]  BY <1>1, InLevel, AtHere
  <2>2. SnippetSpans(levels[Len(levels)].snippets) \subseteq spans  BY <1>4, <2>1 DEF Heard
  <2> QED  BY <1>3, <2>1, <2>2
<1> HIDE DEF new
<1>9. /\ deeper \in Seq(OpenLevel) /\ Len(Advanced) \in Nat
      /\ DOMAIN deeper = DOMAIN Advanced \cup {Len(Advanced) + 1}
      /\ \A j \in DOMAIN Advanced : deeper[j] = Advanced[j]
      /\ deeper[Len(Advanced) + 1] = new
  BY <1>3, <1>7, Appended
<1> HIDE DEF deeper, inner
<1>10. deeper # << >>
  <2>1. DOMAIN << >> = {}  OBVIOUS
  <2> QED  BY <1>9, <2>1
<1>11. \A j \in DOMAIN deeper : SnippetSpans(deeper[j].snippets) \subseteq spans
  <2>1. ASSUME NEW j \in DOMAIN Advanced PROVE SnippetSpans(deeper[j].snippets) \subseteq spans
    <3>1. SnippetSpans(levels[j].snippets) \subseteq spans  BY <1>3, <1>4 DEF Heard
    <3> QED  BY <1>3, <1>9, <3>1
  <2> QED  BY <1>6, <1>7, <1>8, <1>9, <2>1
<1>12. ASSUME NEW s, ToCome(Advanced, s) PROVE ToCome(deeper, s)
  <2>1. PICK j \in DOMAIN Advanced : \E k \in Advanced[j].next .. Len(Advanced[j].snippets) :
               s \in SpansOf(Advanced[j].snippets[k].lines)
    BY <1>12 DEF ToCome
  <2> QED  BY <1>9, <2>1 DEF ToCome
<1>13. ASSUME NEW s, s \in SpansOf(Here.lines) PROVE ToCome(deeper, s)
  <2>1. PICK k \in DOMAIN inner : s \in SpansOf(inner[k].lines)  BY <1>6, <1>13, InSnippetSpans
  <2>2. k \in 1 .. Len(inner)  BY <1>6, LenProperties
  <2>3. /\ Len(Advanced) + 1 \in DOMAIN deeper
        /\ deeper[Len(Advanced) + 1].snippets = inner /\ deeper[Len(Advanced) + 1].next = 1
    BY <1>7, <1>9
  <2> QED  BY <2>1, <2>2, <2>3 DEF ToCome
<1>14. Heard(deeper, hits, LeavesContent, spans, unjudged[1], options.prefilter)
  <2>1. \A h \in hits : h.span \in spans \cap prompt  BY <1>4 DEF Heard
  <2>2. ASSUME ~ LeavesContent, NEW s \in spans \cap Asked(options.prefilter, unjudged[1])
        PROVE  ToCome(deeper, s) \/ \E h \in hits : h.span = s
    <3>1. ToCome(levels, s) \/ \E h \in hits : h.span = s  BY <1>4, <2>2 DEF Heard
    <3> QED  BY <1>3, <1>12, <1>13, <3>1
  <2> QED  BY <1>11, <2>1, <2>2 DEF Heard
<1>15. LeavesContent' = LeavesContent  BY <1>2 DEF LeavesContent
<1> QED  BY <1>1, <1>2, <1>4, <1>9, <1>10, <1>14, <1>15, WithinLevel

(* A level that is read to its end has nothing to come. *)
LEMMA NothingLeft ==
  ASSUME PolicyInv, stage = "level", ~ AtSnippet,
         NEW k \in levels[Len(levels)].next .. Len(levels[Len(levels)].snippets)
  PROVE  FALSE
<1>1. /\ levels \in Seq(OpenLevel) /\ levels # << >>  BY InLevel
<1>2. /\ Level = levels[Len(levels)] /\ Level \in OpenLevel  BY <1>1, AtHere
<1>3. Level.next \in Nat /\ Level.snippets \in Seq(Snippets)  BY <1>2 DEF OpenLevel
<1>4. Len(Level.snippets) \in Nat  BY <1>3, LenProperties
<1>5. ~ (Level.next <= Len(Level.snippets))  BY DEF AtSnippet
<1>6. k \in Level.next .. Len(Level.snippets)  BY <1>2
<1> QED  BY ONLY <1>3, <1>4, <1>5, <1>6

LEMMA AscendPreserves == ASSUME PolicyInv, Ascend PROVE PolicyInv'
<1> DEFINE n == Len(levels)
           rest == Front(levels)
           prompt == unjudged[1].prompt
<1>1. stage = "level" /\ ~ AtSnippet /\ n > 1  BY DEF Ascend
<1>2. StepsWithin /\ levels' = rest /\ hits' = hits /\ budget' = budget
  BY DEF Ascend, StepsWithin
<1>3. levels \in Seq(OpenLevel) /\ levels # << >>
      /\ budget \in [left : Nat, exhausted : BOOLEAN, start : Nat]
      /\ Heard(levels, hits, LeavesContent, SpansOf(doc), unjudged[1], options.prefilter)
  BY <1>1, InLevel
<1>4. n \in Nat /\ DOMAIN levels = 1 .. n  BY <1>3, AtHere
<1>5. rest = SubSeq(levels, 1, n - 1)  BY DEF Front
<1> HIDE DEF rest, n
<1>6. rest \in Seq(OpenLevel) /\ Len(rest) = n - 1 /\ \A j \in 1 .. n - 1 : rest[j] = levels[j]
  <2>1. 1 \in 1 .. n + 1 /\ n - 1 \in 1 - 1 .. n /\ n - 1 \in Nat  BY <1>1, <1>4
  <2>2. /\ SubSeq(levels, 1, n - 1) \in Seq(OpenLevel)
        /\ Len(SubSeq(levels, 1, n - 1)) = IF 1 <= n - 1 THEN n - 1 - 1 + 1 ELSE 0
        /\ \A i \in 1 .. n - 1 - 1 + 1 : SubSeq(levels, 1, n - 1)[i] = levels[1 + i - 1]
    BY <1>3, <2>1, SubSeqProperties DEF n
  <2>3. n - 1 - 1 + 1 = n - 1 /\ 1 <= n - 1 /\ \A i \in 1 .. n - 1 : 1 + i - 1 = i
    BY ONLY <1>1, <1>4
  <2> QED  BY <1>5, <2>2, <2>3
<1>7. DOMAIN rest = 1 .. n - 1 /\ rest # << >>
  <2>1. DOMAIN rest = 1 .. n - 1  BY <1>6, LenProperties
  <2>2. 1 \in 1 .. n - 1  BY ONLY <1>1, <1>4
  <2>3. DOMAIN << >> = {}  OBVIOUS
  <2> QED  BY <2>1, <2>2, <2>3
<1>8. \A j : j \in DOMAIN levels <=> j \in DOMAIN rest \/ j = n
  <2>1. \A j : j \in 1 .. n <=> j \in 1 .. n - 1 \/ j = n  BY ONLY <1>1, <1>4
  <2> QED  BY ONLY <1>4, <1>7, <2>1
<1>9. ASSUME NEW s, ToCome(levels, s) PROVE ToCome(rest, s)
  <2>1. PICK j \in DOMAIN levels : \E k \in levels[j].next .. Len(levels[j].snippets) :
               s \in SpansOf(levels[j].snippets[k].lines)
    BY <1>9 DEF ToCome
  <2>2. PICK k \in levels[j].next .. Len(levels[j].snippets) :
               s \in SpansOf(levels[j].snippets[k].lines)
    BY <2>1
  <2>3. j # n  BY <1>1, <2>2, NothingLeft DEF n
  <2>4. j \in DOMAIN rest  BY <1>8, <2>3
  <2>5. rest[j] = levels[j]  BY <1>6, <1>7, <2>4
  <2> QED  BY <2>2, <2>4, <2>5 DEF ToCome
<1>10. Heard(rest, hits, LeavesContent, SpansOf(doc), unjudged[1], options.prefilter)
  <2>1. \A j \in DOMAIN rest : SnippetSpans(rest[j].snippets) \subseteq SpansOf(doc)
    BY <1>3, <1>6, <1>7, <1>8 DEF Heard
  <2> QED  BY <1>3, <1>9, <2>1 DEF Heard
<1>11. LeavesContent' = LeavesContent  BY <1>2 DEF LeavesContent
<1> QED  BY <1>1, <1>2, <1>3, <1>6, <1>7, <1>10, <1>11, WithinLevel

(* The first of the rules to judge, and the others. *)
LEMMA RestOfRules ==
  ASSUME NEW rules \in Seq(Rules), rules # << >>
  PROVE  /\ Tail(rules) \in Seq(Rules)
         /\ \A r : r \in ToSet(rules) <=> r = rules[1] \/ r \in ToSet(Tail(rules))
<1> DEFINE rest == Tail(rules)
           n == Len(rules)
<1>1. n \in Nat /\ DOMAIN rules = 1 .. n  BY LenProperties
<1>2. n # 0  BY EmptySeq
<1>3. /\ rest \in Seq(Rules) /\ Len(rest) = n - 1
      /\ \A i \in 1 .. Len(rest) : rest[i] = rules[i + 1]
  BY HeadTailProperties
<1>4. DOMAIN rest = 1 .. n - 1  BY <1>3, LenProperties
<1> HIDE DEF rest, n
<1>5. ASSUME NEW r PROVE r \in ToSet(rules) <=> r = rules[1] \/ r \in ToSet(rest)
  <2>1. ASSUME NEW i \in DOMAIN rules, rules[i] = r, i # 1 PROVE r \in ToSet(rest)
    <3>1. i - 1 \in 1 .. n - 1 /\ (i - 1) + 1 = i  BY ONLY <1>1, <2>1
    <3>2. rest[i - 1] = r  BY <1>3, <2>1, <3>1
    <3> QED  BY <1>4, <3>1, <3>2, InToSet
  <2>2. ASSUME NEW i \in DOMAIN rest, rest[i] = r PROVE r \in ToSet(rules)
    <3>1. i \in 1 .. n - 1 /\ i + 1 \in 1 .. n  BY ONLY <1>1, <1>4, <2>2
    <3>2. rules[i + 1] = r  BY <1>3, <2>2, <3>1
    <3> QED  BY <1>1, <3>1, <3>2, InToSet
  <2>3. 1 \in DOMAIN rules  BY ONLY <1>1, <1>2
  <2> QED  BY <2>1, <2>2, <2>3, InToSet
<1> QED  BY <1>3, <1>5 DEF rest

(* A rule is judged: its prompt's spans are found, or the rule is listed. *)
LEMMA FinishPreserves == ASSUME PolicyInv, FinishRule PROVE PolicyInv'
<1> DEFINE r == unjudged[1]
           Told(h) == FindingOf(r, h.span, h.line)
           kept == {h \in hits : h.span \notin profile.allow}
           found == findings \cup {Told(h) : h \in kept}
           listed == IF LeavesContent THEN unevaluated \cup {r.id} ELSE unevaluated
           open == ToSet(Tail(unjudged))
<1>1. stage = "level" /\ ~ AtSnippet /\ Len(levels) = 1  BY DEF FinishRule
<1>2. /\ findings' = found /\ unevaluated' = listed
      /\ unjudged' = Tail(unjudged) /\ levels' = << >> /\ hits' = {} /\ stage' = "rules"
      /\ UNCHANGED <<doc, profile, options, budget, decisions, regressions>>
  BY DEF FinishRule
<1>3. /\ levels \in Seq(OpenLevel) /\ levels # << >>
      /\ unjudged \in Seq(Rules) /\ unjudged # << >> /\ r \in Rules /\ r \in ToSet(unjudged)
      /\ Heard(levels, hits, LeavesContent, SpansOf(doc), r, options.prefilter)
  BY <1>1, InLevel
<1>4. /\ profile \in Profiles /\ ToSet(unjudged) \subseteq RulesOf(profile)
      /\ Honest(findings, unevaluated, ToSet(unjudged), doc, profile, options.prefilter)
  BY <1>1 DEF PolicyInv, Evaluating
<1>5. Tail(unjudged) \in Seq(Rules) /\ \A q : q \in ToSet(unjudged) <=> q = r \/ q \in open
  BY <1>3, RestOfRules
<1>6. ASSUME ~ LeavesContent, NEW s \in SpansOf(doc) \cap Asked(options.prefilter, r)
      PROVE  \E h \in hits : h.span = s
  <2>1. ToCome(levels, s) \/ \E h \in hits : h.span = s  BY <1>3, <1>6 DEF Heard
  <2>2. ASSUME ToCome(levels, s) PROVE FALSE
    <3>1. DOMAIN levels = 1 .. Len(levels)  BY <1>3, AtHere
    <3>2. \A j \in DOMAIN levels : j = Len(levels)  BY <1>1, <3>1
    <3>3. PICK j \in DOMAIN levels : \E k \in levels[j].next .. Len(levels[j].snippets) :
                 s \in SpansOf(levels[j].snippets[k].lines)
      BY <2>2 DEF ToCome
    <3>4. PICK k \in levels[j].next .. Len(levels[j].snippets) :
                 s \in SpansOf(levels[j].snippets[k].lines)
      BY <3>3
    <3> QED  BY <1>1, <3>2, <3>4, NothingLeft
  <2> QED  BY <2>1, <2>2
<1>7. ASSUME NEW h PROVE Told(h).rule = r.id /\ Told(h).span = h.span  BY FindingIs
<1> HIDE DEF Told
<1>8. Sound(found, doc, profile)
  <2>1. ASSUME NEW f \in findings
        PROVE  \E q \in RulesOf(profile) :
                 f.rule = q.id /\ f.span \in Owed(doc, profile, q.patterns \cup q.prompt)
    BY <1>4 DEF Honest, Sound
  <2>2. ASSUME NEW h \in kept
        PROVE  \E q \in RulesOf(profile) :
                 Told(h).rule = q.id /\ Told(h).span \in Owed(doc, profile, q.patterns \cup q.prompt)
    <3>1. h.span \in SpansOf(doc) \cap r.prompt /\ h.span \notin profile.allow
      BY <1>3 DEF Heard
    <3>2. r \in RulesOf(profile)  BY <1>3, <1>4
    <3> QED  BY <1>7, <3>1, <3>2 DEF Owed
  <2> QED  BY <2>1, <2>2 DEF Sound
<1>9. ASSUME NEW q, NEW spans, Finds(findings, q, spans) PROVE Finds(found, q, spans)
  BY <1>9 DEF Finds
<1>10. r.id \in listed \/ Finds(found, r, Owed(doc, profile, Asked(options.prefilter, r)))
  <2>1. CASE LeavesContent  BY <2>1
  <2>2. CASE ~ LeavesContent
    <3>1. ASSUME NEW s \in Owed(doc, profile, Asked(options.prefilter, r))
          PROVE  \E f \in found : f.rule = r.id /\ f.span = s
      <4>1. s \in SpansOf(doc) \cap Asked(options.prefilter, r) /\ s \notin profile.allow
        BY DEF Owed
      <4>2. PICK h \in hits : h.span = s  BY <1>6, <2>2, <4>1
      <4>3. Told(h) \in found  BY <4>1, <4>2
      <4> QED  BY <1>7, <4>2, <4>3
    <3> HIDE DEF found
    <3> QED  BY <3>1 DEF Finds
  <2> QED  BY <2>1, <2>2
<1>11. unevaluated \subseteq listed  OBVIOUS
<1> HIDE DEF found, listed, open
<1>12. ASSUME NEW q \in RulesOf(profile)
       PROVE  /\ Finds(found, q, Owed(doc, profile, q.patterns))
              /\ \/ q \in open \/ q.id \in listed
                 \/ Finds(found, q, Owed(doc, profile, Asked(options.prefilter, q)))
  <2>1. /\ Finds(findings, q, Owed(doc, profile, q.patterns))
        /\ q \in ToSet(unjudged) \/ q.id \in unevaluated
             \/ Finds(findings, q, Owed(doc, profile, Asked(options.prefilter, q)))
    BY <1>4 DEF Honest
  <2> QED  BY <1>5, <1>9, <1>10, <1>11, <2>1
<1>13. Honest(found, listed, open, doc, profile, options.prefilter)  BY <1>8, <1>12 DEF Honest
<1>14. PolicyTypes'
  <2>1. << >> \in Seq(OpenLevel)  OBVIOUS
  <2> QED  BY <1>2, <1>5, <2>1 DEF PolicyInv, PolicyTypes
<1>15. Evaluating'
  <2>1. open \subseteq RulesOf(profile)  BY <1>4, <1>5
  <2> QED  BY <1>2, <1>4, <1>13, <2>1 DEF Evaluating, open
<1>16. Decided'  BY <1>2 DEF PolicyInv, Decided
<1>17. Judging' /\ Watched'  BY <1>2 DEF Judging, Watched
<1> QED  BY <1>14, <1>15, <1>16, <1>17 DEF PolicyInv

LEMMA BeginPreserves == ASSUME PolicyInv, BeginRule PROVE PolicyInv'
<1> DEFINE root == [snippets |-> Chunk(doc), base |-> 0, next |-> 1]
<1>1. /\ stage = "rules" /\ unjudged # << >> /\ stage' = "level"
      /\ budget' = FreshBudget /\ hits' = {} /\ levels' = <<root>>
      /\ UNCHANGED <<doc, profile, options, unjudged, findings, unevaluated, decisions, regressions>>
  BY DEF BeginRule
<1>2. doc \in Seq(Text) /\ options.calls \in Nat
  BY PolicyAssumption DEF PolicyInv, PolicyTypes
<1>3. Chunk(doc) \in Seq(Snippets) /\ SnippetSpans(Chunk(doc)) = SpansOf(doc)  BY <1>2, Chunked
<1>4. root \in OpenLevel /\ root.snippets = Chunk(doc) /\ root.next = 1  BY <1>3 DEF OpenLevel
<1> HIDE DEF root
<1>5. /\ <<root>> \in Seq(OpenLevel) /\ <<root>> # << >>
      /\ DOMAIN <<root>> = {1} /\ <<root>>[1] = root
  BY <1>4
<1>6. /\ FreshBudget \in [left : Nat, exhausted : BOOLEAN, start : Nat]
  BY <1>2 DEF FreshBudget, NotRefused
<1>7. ASSUME NEW s \in SpansOf(doc) PROVE ToCome(<<root>>, s)
  <2>1. PICK k \in DOMAIN Chunk(doc) : s \in SpansOf(Chunk(doc)[k].lines)
    BY <1>3, InSnippetSpans
  <2>2. k \in 1 .. Len(Chunk(doc))  BY <1>3, LenProperties
  <2> QED  BY <1>4, <1>5, <2>1, <2>2 DEF ToCome
<1>8. Heard(<<root>>, {}, LeavesContent', SpansOf(doc), unjudged[1], options.prefilter)
  BY <1>3, <1>4, <1>5, <1>7 DEF Heard
<1>9. PolicyTypes'  BY <1>1, <1>5, <1>6 DEF PolicyInv, PolicyTypes
<1>10. Judging'  BY <1>1, <1>5, <1>8 DEF Judging
<1>11. Evaluating' /\ Decided'  BY <1>1 DEF PolicyInv, Evaluating, Decided
<1>12. Watched'  BY <1>1 DEF Watched
<1> QED  BY <1>9, <1>10, <1>11, <1>12 DEF PolicyInv

LEMMA EvaluatePreserves == ASSUME PolicyInv, NEW p \in Profiles, Evaluate(p) PROVE PolicyInv'
<1>1. /\ stage' = "rules" /\ profile' = p
      /\ findings' = EvaluateContent(p) /\ unjudged' = Prompted(ResolveRules(p)) /\ unevaluated' = {}
      /\ UNCHANGED <<doc, options, levels, budget, hits, decisions, regressions>>
  BY DEF Evaluate
<1>2. /\ Prompted(ResolveRules(p)) \in Seq(Rules)
      /\ ToSet(Prompted(ResolveRules(p))) \subseteq RulesOf(p)
  BY RulesResolved, RulesPrompted
<1>3. Honest(EvaluateContent(p), {}, ToSet(Prompted(ResolveRules(p))), doc, p, options.prefilter)
  BY PatternsAreHonest
<1>4. PolicyTypes'  BY <1>1, <1>2 DEF PolicyInv, PolicyTypes
<1>5. Evaluating'  BY <1>1, <1>2, <1>3 DEF Evaluating
<1>6. Decided'  BY <1>1 DEF PolicyInv, Decided
<1>7. Judging' /\ Watched'  BY <1>1 DEF Judging, Watched
<1> QED  BY <1>4, <1>5, <1>6, <1>7 DEF PolicyInv

LEMMA DecidePreserves == ASSUME PolicyInv, Decide PROVE PolicyInv'
<1> DEFINE d == Aggregate
           longer == Append(decisions, d)
<1>1. /\ stage = "rules" /\ unjudged = << >> /\ stage' = "write" /\ decisions' = longer
      /\ UNCHANGED <<doc, evaluation, regressions>>
  BY DEF Decide
<1>2. /\ d.doc = doc /\ d.profile = profile /\ d.findings = findings /\ d.unevaluated = unevaluated
  BY DEF Aggregate
<1>3. ToSet(unjudged) = {}
  <2>1. DOMAIN << >> = {}  OBVIOUS
  <2> QED  BY <1>1, <2>1 DEF ToSet
<1>4. Honest(d.findings, d.unevaluated, {}, d.doc, d.profile, options.prefilter)
  BY <1>1, <1>2, <1>3 DEF PolicyInv, Evaluating
<1> HIDE DEF d
<1>5. /\ longer \in Seq(ToSet(decisions) \cup {d}) /\ ToSet(longer) = ToSet(decisions) \cup {d}
      /\ DOMAIN longer = DOMAIN decisions \cup {Len(decisions) + 1}
      /\ \A i \in DOMAIN decisions : longer[i] = decisions[i]
      /\ longer[Len(decisions) + 1] = d
  <2>1. decisions \in Seq(ToSet(decisions))  BY DEF PolicyInv, PolicyTypes
  <2>2. decisions \in Seq(ToSet(decisions) \cup {d}) /\ d \in ToSet(decisions) \cup {d}
    BY <2>1, SeqMonotonic
  <2> QED  BY <2>2, OneMoreInToSet, Appended
<1> HIDE DEF longer
<1>6. PolicyTypes'  BY <1>1, <1>5 DEF PolicyInv, PolicyTypes, evaluation
<1>7. Decided'
  <2>1. ASSUME NEW i \in DOMAIN longer
        PROVE  Honest(longer[i].findings, longer[i].unevaluated, {}, longer[i].doc, longer[i].profile,
                      options.prefilter)
    BY <1>4, <1>5 DEF PolicyInv, Decided
  <2> QED  BY <1>1, <2>1 DEF Decided, evaluation
<1>8. Evaluating' /\ Judging' /\ Watched'  BY <1>1 DEF Evaluating, Judging, Watched
<1> QED  BY <1>6, <1>7, <1>8 DEF PolicyInv

LEMMA EditPreserves == ASSUME PolicyInv, Edit PROVE PolicyInv'
<1>1. /\ stage = "write" /\ UNCHANGED <<stage, evaluation, decisions, regressions>>
  BY DEF Edit
<1>2. PICK i \in DOMAIN doc, l \in Lines : doc' = [doc EXCEPT ![i] = l]  BY DEF Edit
<1>3. doc' \in Seq(Text)
  <2>1. doc \in Seq(Text) /\ l \in Text  BY DEF PolicyInv, PolicyTypes, Text
  <2> QED  BY <1>2, <2>1, ExceptSeq, LenProperties
<1>4. PolicyTypes'  BY <1>1, <1>3 DEF PolicyInv, PolicyTypes, evaluation
<1>5. Decided'  BY <1>1 DEF PolicyInv, Decided, evaluation
<1>6. Evaluating' /\ Judging' /\ Watched'  BY <1>1 DEF Evaluating, Judging, Watched
<1> QED  BY <1>4, <1>5, <1>6 DEF PolicyInv

LEMMA ThrowPreserves == ASSUME PolicyInv, LeafThrows PROVE PolicyInv'
<1>1. stage' = "stopped" /\ UNCHANGED <<doc, evaluation, decisions, regressions>>
  BY DEF LeafThrows
<1>2. PolicyTypes' /\ Decided'
  BY <1>1 DEF PolicyInv, PolicyTypes, Decided, evaluation
<1>3. Evaluating' /\ Judging' /\ Watched'  BY <1>1 DEF Evaluating, Judging, Watched
<1> QED  BY <1>2, <1>3 DEF PolicyInv

LEMMA WatchPreserves == ASSUME PolicyInv, Watch PROVE PolicyInv'
<1>1. /\ stage' = "watched" /\ Len(decisions) = 2
      /\ regressions' = DetectRegression(BuildBaseline(decisions[1], decisions[2]))
      /\ UNCHANGED <<doc, evaluation, decisions>>
  BY DEF Watch
<1>2. PolicyTypes' /\ Decided'
  BY <1>1 DEF PolicyInv, PolicyTypes, Decided, evaluation
<1>3. Evaluating' /\ Judging'  BY <1>1 DEF Evaluating, Judging
<1>4. Watched'  BY <1>1 DEF Watched, DetectRegression, BuildBaseline
<1> QED  BY <1>2, <1>3, <1>4 DEF PolicyInv

(* Every step of the content gate keeps the invariant. *)
THEOREM PolicyInvariance == PolicySpec => []PolicyInv
<1>1. ASSUME PolicyInit PROVE PolicyInv
  <2>1. doc \in Seq(Text)
    <3>1. doc \in Docs  BY <1>1 DEF PolicyInit
    <3>2. doc \in Seq(ToSet(doc))  BY <3>1, PolicyAssumption
    <3>3. ToSet(doc) \subseteq Text  BY <3>1 DEF Text
    <3> QED  BY <3>2, <3>3, SeqMonotonic
  <2>2. options.calls \in Nat  BY <1>1, PolicyAssumption DEF PolicyInit
  <2>3. FreshBudget \in [left : Nat, exhausted : BOOLEAN, start : Nat]
    BY <2>2 DEF FreshBudget, NotRefused
  <2>4. PolicyTypes  BY <1>1, <2>1, <2>3 DEF PolicyInit, PolicyTypes
  <2>5. Decided  BY <1>1 DEF PolicyInit, Decided
  <2>6. Evaluating /\ Judging /\ Watched
    BY <1>1 DEF PolicyInit, Evaluating, Judging, Watched
  <2> QED  BY <2>4, <2>5, <2>6 DEF PolicyInv
<1>2. ASSUME PolicyInv, [PolicyNext]_policyVars PROVE PolicyInv'
  <2>1. CASE \E p \in Profiles : Evaluate(p)  BY <1>2, <2>1, EvaluatePreserves
  <2>2. CASE BeginRule  BY <1>2, <2>2, BeginPreserves
  <2>3. CASE SkipSnippet  BY <1>2, <2>3, SkipPreserves
  <2>4. CASE Descend  BY <1>2, <2>4, DescendPreserves
  <2>5. CASE RefuseSnippet  BY <1>2, <2>5, RefusePreserves
  <2>6. CASE CallLeaf  BY <1>2, <2>6, CallPreserves
  <2>7. CASE LeafThrows  BY <1>2, <2>7, ThrowPreserves
  <2>8. CASE Ascend  BY <1>2, <2>8, AscendPreserves
  <2>9. CASE FinishRule  BY <1>2, <2>9, FinishPreserves
  <2>10. CASE Decide  BY <1>2, <2>10, DecidePreserves
  <2>11. CASE Edit  BY <1>2, <2>11, EditPreserves
  <2>12. CASE Watch  BY <1>2, <2>12, WatchPreserves
  <2>13. CASE UNCHANGED policyVars
    <3>1. UNCHANGED <<doc, stage, evaluation, decisions, regressions>>
      BY <2>13 DEF policyVars
    <3>2. PolicyTypes' /\ Decided'
      BY <1>2, <3>1 DEF PolicyInv, PolicyTypes, Decided, evaluation
    <3>3. Evaluating'  BY <1>2, <3>1 DEF PolicyInv, Evaluating, evaluation
    <3>4. Judging'  BY <1>2, <3>1 DEF PolicyInv, Judging, LeavesContent, evaluation
    <3>5. Watched'
      <4>1. /\ doc' = doc /\ stage' = stage
            /\ decisions' = decisions /\ regressions' = regressions
        BY <3>1
      <4>2. DetectRegression(BuildBaseline(decisions[1], decisions[2]))'
              = DetectRegression(BuildBaseline(decisions[1], decisions[2]))
        BY <4>1 DEF DetectRegression, BuildBaseline
      <4> QED  BY <1>2, <4>1, <4>2 DEF PolicyInv, Watched
    <3> QED  BY <3>2, <3>3, <3>4, <3>5 DEF PolicyInv
  <2> QED
    BY <1>2, <2>1, <2>2, <2>3, <2>4, <2>5, <2>6, <2>7, <2>8, <2>9, <2>10, <2>11, <2>12, <2>13
    DEF PolicyNext
<1> QED  BY <1>1, <1>2, PTL DEF PolicySpec

(* A partial pass is never silently clean (recursive.ts, unevaluated): in  *)
(* every decision each offence is found or its rule listed, for any text,  *)
(* budget, depth and size of a snippet.                                    *)
THEOREM MissesAdmitted == PolicySpec => []MissesAreAdmitted
<1>1. ASSUME PolicyInv PROVE MissesAreAdmitted
  <2>1. SUFFICES ASSUME NEW d \in ToSet(decisions), NEW p \in DOMAIN Packs, NEW r \in ToSet(Packs[p])
                 PROVE  LET found == {f.span : f \in {x \in d.findings : x.rule = r.id}}
                            owed  == {s \in SpansOf(d.doc) : Offence(d, r, s)}
                        IN  /\ found \subseteq owed
                            /\ r.id \notin d.unevaluated =>
                                 owed \cap (r.patterns \cup Asked(options.prefilter, r)) \subseteq found
    BY DEF MissesAreAdmitted
  <2> DEFINE found == {f.span : f \in {x \in d.findings : x.rule = r.id}}
             owed  == {s \in SpansOf(d.doc) : Offence(d, r, s)}
  <2>2. Honest(d.findings, d.unevaluated, {}, d.doc, d.profile, options.prefilter)
    <3>1. PICK i \in DOMAIN decisions : decisions[i] = d  BY <2>1, InToSet
    <3> QED  BY <1>1, <3>1 DEF PolicyInv, Decided
  <2>3. r \in Rules  BY DEF Rules
  <2>4. RulesOf(d.profile) \subseteq Rules  BY DEF RulesOf, Rules
  <2>5. ASSUME NEW s
        PROVE  Offence(d, r, s) <=> /\ r \in RulesOf(d.profile)
                                    /\ s \in Owed(d.doc, d.profile, r.patterns \cup r.prompt)
    <3>1. ASSUME NEW k \in DOMAIN Packs PROVE Contains(Packs[k], r) <=> r \in ToSet(Packs[k])
      <4>1. Packs[k] \in Seq(ToSet(Packs[k]))  BY PolicyAssumption
      <4>2. DOMAIN Packs[k] = 1 .. Len(Packs[k])  BY <4>1, LenProperties
      <4> QED  BY <4>2, InToSet DEF Contains
    <3> QED  BY <3>1 DEF Offence, RulesOf, Owed
  <2>6. ASSUME NEW f \in d.findings, f.rule = r.id PROVE f.span \in owed
    <3>1. PICK q \in RulesOf(d.profile) :
                 f.rule = q.id /\ f.span \in Owed(d.doc, d.profile, q.patterns \cup q.prompt)
      BY <2>2 DEF Honest, Sound
    <3>2. q = r
      <4>1. q \in Rules /\ q.id = r.id  BY <2>4, <2>6, <3>1
      <4> QED  BY <2>3, <4>1, PolicyAssumption
    <3>3. f.span \in SpansOf(d.doc)  BY <3>1 DEF Owed
    <3> QED  BY <2>5, <3>1, <3>2, <3>3
  <2>7. ASSUME r.id \notin d.unevaluated, NEW s \in owed,
               s \in r.patterns \cup Asked(options.prefilter, r)
        PROVE  s \in found
    <3>1. r \in RulesOf(d.profile) /\ s \in Owed(d.doc, d.profile, r.patterns \cup r.prompt)
      BY <2>5
    <3>2. /\ Finds(d.findings, r, Owed(d.doc, d.profile, r.patterns))
          /\ Finds(d.findings, r, Owed(d.doc, d.profile, Asked(options.prefilter, r)))
      BY <2>2, <2>7, <3>1 DEF Honest
    <3>3. \/ s \in Owed(d.doc, d.profile, r.patterns)
          \/ s \in Owed(d.doc, d.profile, Asked(options.prefilter, r))
      BY <2>7, <3>1 DEF Owed
    <3>4. PICK f \in d.findings : f.rule = r.id /\ f.span = s  BY <3>2, <3>3 DEF Finds
    <3> QED  BY <3>4
  <2> HIDE DEF owed
  <2>8. found \subseteq owed  BY <2>6
  <2>9. r.id \notin d.unevaluated =>
          owed \cap (r.patterns \cup Asked(options.prefilter, r)) \subseteq found
    <3> HIDE DEF found
    <3> QED  BY <2>7
  <2> QED  BY <2>8, <2>9 DEF owed
<1> QED  BY <1>1, PolicyInvariance, PTL

(* What was removed is watched (reverter.ts, buildBaseline): a span that   *)
(* was found in the first version and is not in the second is reported     *)
(* when it is back, whatever became of its rule.                           *)
THEOREM RemovedAreWatched == PolicySpec => []RemovedSpansAreWatched
<1>1. ASSUME PolicyInv PROVE RemovedSpansAreWatched
  <2> DEFINE before == decisions[1]
             after == decisions[2]
  <2>1. SUFFICES ASSUME stage = "watched", NEW f \in before.findings,
                        f.span \notin SpansOf(after.doc), f.span \in SpansOf(doc)
                 PROVE  \E g \in regressions :
                          g.fingerprint = ContentFingerprint(f) /\ f.span \in doc[g.line].spans
    BY DEF RemovedSpansAreWatched
  <2>2. Len(decisions) = 2 /\ regressions = DetectRegression(BuildBaseline(before, after))
    BY <1>1, <2>1 DEF PolicyInv, Watched
  <2>3. Sound(after.findings, after.doc, after.profile)
    <3>1. decisions \in Seq(ToSet(decisions))  BY <1>1 DEF PolicyInv, PolicyTypes
    <3>2. 2 \in DOMAIN decisions  BY <2>2, <3>1, LenProperties
    <3> QED  BY <1>1, <3>2 DEF PolicyInv, Decided, Honest
  <2>4. doc \in Seq(Text)  BY <1>1 DEF PolicyInv, PolicyTypes
  <2> HIDE DEF before, after
  <2>5. f \in BuildBaseline(before, after)
    <3>1. ASSUME NEW x \in after.findings, ContentFingerprint(x) = ContentFingerprint(f) PROVE FALSE
      <4>1. x.span = f.span  BY <3>1 DEF ContentFingerprint
      <4>2. x.span \in SpansOf(after.doc)  BY <2>3 DEF Sound, Owed
      <4> QED  BY <2>1, <4>1, <4>2
    <3> QED  BY <2>1, <3>1 DEF BuildBaseline
  <2> DEFINE lines == {i \in DOMAIN doc : f.span \in doc[i].spans}
             g == [fingerprint |-> ContentFingerprint(f), line |-> Min(lines)]
  <2>6. g \in regressions
    BY <2>1, <2>2, <2>5 DEF DetectRegression
  <2>7. Min(lines) \in lines
    <3>1. lines \subseteq Nat  BY <2>4, LenProperties
    <3>2. lines # {}  BY <2>1, InSpansOf
    <3> HIDE DEF lines
    <3> QED  BY <3>1, <3>2, MinIsAMember
  <2>8. g.fingerprint = ContentFingerprint(f) /\ g.line = Min(lines)  OBVIOUS
  <2> HIDE DEF lines, g
  <2>9. f.span \in doc[g.line].spans  BY <2>7, <2>8 DEF lines
  <2> QED  BY <2>6, <2>8, <2>9
<1> QED  BY <1>1, PolicyInvariance, PTL
=============================================================================

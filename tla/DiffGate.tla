------------------------------ MODULE DiffGate ------------------------------
(***************************************************************************)
(* The differential gate that decides whether a pull request may merge:    *)
(* ariada-diff-action's run-diff.sh runs "ariada diff classify" on the     *)
(* findings of the head and of the base, and "ariada diff gate" on the     *)
(* result and the team's policy, each a process of its own that talks to   *)
(* the script by files and an exit code.                                   *)
(*                                                                         *)
(* A finding is its identity (place stands for rule, selector and role),   *)
(* its severity, the jurisdictions it is tagged with, in order, and        *)
(* whether it needs a manual review.  The gate command gives no path, so   *)
(* the policy's path overrides never apply and are left out.               *)
(***************************************************************************)
EXTENDS Integers, FiniteSets, FiniteSetsExt, Functions, SequencesExt

CONSTANTS Inputs,      \* what a job may run on: head, base, policy, action inputs
          MissingFile, \* the policy when there is no such file
          InvalidFile, \* the policy when the file has the wrong shape
          NoFile,      \* what a file is before it is written
          Leftovers    \* what decision.json may hold when the job starts

Bucket == {"new", "pre_existing", "resolved"}

(* Scans are lists of findings.  Of a policy nothing is assumed: its       *)
(* validation does not look at the rules.                                  *)
ASSUME InputsAssumption ==
  \A j \in Inputs : j.head \in Seq(Range(j.head)) /\ j.base \in Seq(Range(j.base))

(* An output not emitted, and the exit code of a step that still runs. *)
None == "none"
NoNumber == 0 - 1

VARIABLES
  job,          \* the job's inputs
  pc,           \* start, classify, gate, verdict, done
  diffFile,     \* diff.json
  decisionFile, \* decision.json
  out,          \* the action's outputs: gate-result and new-count
  exit          \* the exit code of the step, once it is done

vars == <<job, pc, diffFile, decisionFile, out, exit>>

-----------------------------------------------------------------------------
(* Classification.                                                         *)

(* The tags are sorted before hashing; needing a review is no part of it.  *)
Fingerprint(f) == <<f.place, f.severity, ToSet(f.tags)>>

FingerprintsOf(findings) == {Fingerprint(findings[i]) : i \in DOMAIN findings}

Known(findings, base) == {i \in DOMAIN findings : Fingerprint(findings[i]) \in FingerprintsOf(base)}

(* A bucket holds its findings at their positions in the scan. *)
ClassifyStub(head, base) ==
  [new          |-> Restrict(head, DOMAIN head \ Known(head, base)),
   pre_existing |-> Restrict(head, Known(head, base)),
   resolved     |-> Restrict(base, DOMAIN base \ Known(base, head))]

-----------------------------------------------------------------------------
(***************************************************************************)
(* Policy.  Rules map severities, and "any", to actions; the defaults have *)
(* rules for each bucket, and so has each jurisdiction with overrides.     *)
(***************************************************************************)

HasRule(rules, severity) == {severity, "any"} \cap DOMAIN rules # {}

PickRule(rules, severity) == IF severity \in DOMAIN rules THEN rules[severity] ELSE rules["any"]

Overrides(policy, bucket, severity, tag) ==
  /\ tag \in DOMAIN policy.jurisdictions
  /\ HasRule(policy.jurisdictions[tag][bucket], severity)

TagsWithRule(policy, bucket, severity, f) ==
  {k \in DOMAIN f.tags : Overrides(policy, bucket, severity, f.tags[k])}

(* The tags of a group are tried in the order they are met in it: the first *)
(* with a rule, else the defaults, else info.                              *)
RuleFor(policy, bucket, severity, group) ==
  LET tagged == {i \in DOMAIN group : TagsWithRule(policy, bucket, severity, group[i]) # {}}
      first == group[Min(tagged)]
      tag == first.tags[Min(TagsWithRule(policy, bucket, severity, first))]
  IN  CASE tagged # {} -> PickRule(policy.jurisdictions[tag][bucket], severity)
        [] tagged = {} /\ HasRule(policy.defaults[bucket], severity) ->
             PickRule(policy.defaults[bucket], severity)
        [] OTHER -> "info"

ResolvePolicy(policy, bucket, severity, review, group) ==
  LET action == RuleFor(policy, bucket, severity, group)
  IN  IF action = "fail" /\ (policy.warnOnly \/ (policy.profile = "balanced" /\ review))
      THEN "warn" ELSE action

DefaultPolicy ==
  [defaults |-> [new          |-> [critical |-> "fail", serious |-> "fail",
                                   moderate |-> "warn", minor |-> "warn"],
                 pre_existing |-> [critical |-> "warn", serious |-> "warn",
                                   moderate |-> "info", minor |-> "info"],
                 resolved     |-> [any |-> "info"]],
   jurisdictions |-> << >>, profile |-> "balanced", warnOnly |-> FALSE]

-----------------------------------------------------------------------------
(***************************************************************************)
(* The decision: the findings of a bucket that agree on severity and       *)
(* review are one group, judged once, under the tags of all of them.       *)
(***************************************************************************)

Group(findings, severity, review) ==
  Restrict(findings, {i \in DOMAIN findings :
                        findings[i].severity = severity /\ findings[i].review = review})

(* Mutant: one group per severity, in need of a review when a member is.   *)
Actions_GroupBySeverity(diff, policy) ==
  UNION {{LET group == Restrict(diff[b], {i \in DOMAIN diff[b] : diff[b][i].severity = f.severity})
          IN  ResolvePolicy(policy, b, f.severity, \E g \in Range(group) : g.review, group) :
            f \in Range(diff[b])} : b \in Bucket}

(* Mutant: what needs a review is judged like the rest of its severity. *)
Actions_IgnoreReview(diff, policy) ==
  UNION {{ResolvePolicy(policy, b, f.severity, FALSE, Group(diff[b], f.severity, f.review)) :
            f \in Range(diff[b])} : b \in Bucket}

Actions(diff, policy) ==
  UNION {{ResolvePolicy(policy, b, f.severity, f.review, Group(diff[b], f.severity, f.review)) :
            f \in Range(diff[b])} : b \in Bucket}

(* Any fail fails, else any warn warns. *)
Worst(actions) ==
  CASE "fail" \in actions -> "fail"
    [] "fail" \notin actions /\ "warn" \in actions -> "warn"
    [] OTHER -> "pass"

BuildGateDecision(diff, policy) ==
  [result |-> Worst(Actions(diff, policy)),
   newCount |-> Cardinality(DOMAIN diff.new)]

-----------------------------------------------------------------------------
(* The script.                                                             *)

Init ==
  /\ job \in Inputs
  /\ pc = "start"
  /\ diffFile = NoFile
  /\ decisionFile \in Leftovers
  /\ out = [result |-> None, newCount |-> NoNumber]
  /\ exit = NoNumber

Exit(code) == pc' = "done" /\ exit' = code

Emit(result) == out' = [out EXCEPT !.result = result]

(* No API token for the canonical engine; or nothing to run the diff on or *)
(* with, which lets the pull request through with a warning.               *)
Start ==
  /\ pc = "start"
  /\ IF job.engine = "canonical" /\ ~job.token THEN Emit("fail") /\ Exit(4)
     ELSE \/ ~job.cliOnPath /\ out' = [result |-> "warn", newCount |-> 0] /\ Exit(0)
          \/ job.cliOnPath /\ ~job.scansGiven /\ Emit("warn") /\ Exit(0)
          \/ job.cliOnPath /\ job.scansGiven /\ pc' = "classify" /\ UNCHANGED <<out, exit>>
  /\ UNCHANGED <<job, diffFile, decisionFile>>

(* The classifier's exit code becomes the step's: 2 for the engine that is *)
(* not there, 3 when a file cannot be read or written.                     *)
Classify ==
  /\ pc = "classify"
  /\ \/ /\ job.engine = "stub"
        /\ diffFile' = ClassifyStub(job.head, job.base)
        /\ pc' = "gate"
        /\ UNCHANGED <<out, exit>>
     \/ /\ UNCHANGED diffFile
        /\ Emit("fail")
        /\ Exit(IF job.engine = "canonical" THEN 2 ELSE 3)
  /\ UNCHANGED <<job, decisionFile>>

(* "ariada diff gate": the decision it makes and whether it gets as far as *)
(* writing it, and then its exit code.  It may fail after it has written.  *)
GateDecides == job.policy \notin {MissingFile, InvalidFile}

(* Mutant: the script goes on to the decision file whatever the gate says. *)
Gate_Unchecked ==
  /\ pc = "gate"
  /\ \/ GateDecides /\ decisionFile' = BuildGateDecision(diffFile, job.policy)
     \/ UNCHANGED decisionFile
  /\ pc' = "verdict"
  /\ UNCHANGED <<job, diffFile, out, exit>>

Gate ==
  /\ pc = "gate"
  /\ \/ /\ GateDecides
        /\ decisionFile' = BuildGateDecision(diffFile, job.policy)
        /\ IF decisionFile'.result = "fail" THEN Emit("fail") /\ Exit(1)
           ELSE pc' = "verdict" /\ UNCHANGED <<out, exit>>
     \/ /\ job.policy = InvalidFile
        /\ UNCHANGED decisionFile
        /\ Emit("fail") /\ Exit(2)
     \/ /\ \/ UNCHANGED decisionFile
           \/ GateDecides /\ decisionFile' = BuildGateDecision(diffFile, job.policy)
        /\ Emit("fail") /\ Exit(3)
  /\ UNCHANGED <<job, diffFile>>

Verdict ==
  /\ pc = "verdict"
  /\ out' = decisionFile
  /\ Exit(CASE decisionFile.result = "pass" -> 0
            [] decisionFile.result = "warn" /\ ~job.failOnWarn -> 0
            [] OTHER -> 1)
  /\ UNCHANGED <<job, diffFile, decisionFile>>

Next == Start \/ Classify \/ Gate \/ Verdict

Spec == Init /\ [][Next]_vars

-----------------------------------------------------------------------------

(* What a head finding would be given if it were the only one. *)
Alone(bucket, f) == ResolvePolicy(job.policy, bucket, f.severity, f.review, <<f>>)

HeadFindings == {x \in {"new", "pre_existing"} \X Range(job.head) :
                   x[1] = "new" <=> Fingerprint(x[2]) \notin FingerprintsOf(job.base)}

Done == pc = "done"
LetThrough == Done /\ exit = 0

ReachedTheGate == job.cliOnPath /\ job.scansGiven

(* The findings of the head that are judged together with x.               *)
GroupOf(x) ==
  {y \in HeadFindings : /\ y[1] = x[1] /\ y[2].severity = x[2].severity
                        /\ y[2].review = x[2].review}

(* The gate judges a group under one tag, the first with a rule, and so may *)
(* spare a finding that would be given one of the actions alone: but only   *)
(* for another of its group, which has an override and is given none of them. *)
SparedForAnother(actions) ==
  \A x \in HeadFindings :
    Alone(x[1], x[2]) \in actions =>
      \E y \in GroupOf(x) : /\ TagsWithRule(job.policy, y[1], y[2].severity, y[2]) # {}
                            /\ Alone(y[1], y[2]) \notin actions

(* A finding that fails on its own is let through only for another of its  *)
(* group, whose jurisdiction has a laxer rule, whatever an earlier step of *)
(* the job left in the files, once the script has a CLI and two scans to   *)
(* run on.                                                                 *)
FailingFindingBlocks ==
  (LetThrough /\ ReachedTheGate) => GateDecides /\ SparedForAnother({"fail"})

(* What the action's README says of definite violations: the ones whose    *)
(* own rule says fail are stopped by the gate.                             *)
DefiniteViolationsAreGated ==
  (LetThrough /\ ReachedTheGate) =>
    \A x \in HeadFindings : ~x[2].review => Alone(x[1], x[2]) # "fail"

(* When the gate reaches the verdict that the merge must not happen, some  *)
(* finding of the scan fails on its own: grouping never makes several      *)
(* findings worse than each, though a group is judged under all its tags.  *)
FailHasACulprit ==
  (Done /\ exit = 1 /\ ~job.failOnWarn) =>
    \/ \E x \in HeadFindings : Alone(x[1], x[2]) = "fail"
    \/ \E i \in DOMAIN diffFile.resolved : Alone("resolved", diffFile.resolved[i]) = "fail"

(* A pass that is published is one that was decided now: by this policy,   *)
(* on these scans, with nothing in the head that even warns on its own but *)
(* what is spared for another of its group.                                *)
PassIsEarned ==
  (Done /\ out.result = "pass") =>
    /\ exit = 0 /\ GateDecides
    /\ out.newCount = Cardinality({i \in DOMAIN job.head :
                        Fingerprint(job.head[i]) \notin FingerprintsOf(job.base)})
    /\ SparedForAnother({"fail", "warn"})
=============================================================================

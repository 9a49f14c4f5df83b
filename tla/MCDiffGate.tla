----------------------------- MODULE MCDiffGate -----------------------------
(***************************************************************************)
(* Jobs over two places, two severities and two jurisdictions, with up to  *)
(* MaxHead findings in the head and one in the base.                       *)
(***************************************************************************)
EXTENDS DiffGate, TLC

CONSTANTS MaxHead, Places, Severities, MCMissing, MCInvalid

Tags == {<< >>, <<"eu">>, <<"eu", "us">>, <<"us", "eu">>}

Finding == [place : Places, severity : Severities, tags : Tags, review : BOOLEAN]

(* Two findings with one fingerprint may differ in the order of the tags.  *)
(* The places have no order, so that the first one met is p1.              *)
Heads == {h \in BoundedSeq(Finding, MaxHead) : h = << >> \/ h[1].place = "p1"}
Bases == {<< >>} \cup
  {<<f>> : f \in [place : {"p1"}, severity : Severities, tags : Tags \ {<<"us", "eu">>}, review : {FALSE}]}

NoRules == [b \in Bucket |-> << >>]

(* Overrides that are laxer and stricter than the defaults for new ones.   *)
Lax    == [NoRules EXCEPT !["new"] = [critical |-> "warn"], !["pre_existing"] = [any |-> "info"]]
Strict == [NoRules EXCEPT !["new"] = [any |-> "fail"], !["pre_existing"] = [critical |-> "fail"]]

MCPolicies ==
  {DefaultPolicy,
   [DefaultPolicy EXCEPT !.profile = "strict"],
   [DefaultPolicy EXCEPT !.warnOnly = TRUE, !.profile = "strict"],
   [DefaultPolicy EXCEPT !.jurisdictions = [us |-> Lax], !.profile = "strict"],
   [DefaultPolicy EXCEPT !.jurisdictions = [us |-> Strict, eu |-> Lax]],
   [defaults |-> NoRules, jurisdictions |-> [eu |-> Strict], profile |-> "strict", warnOnly |-> FALSE]}

(* A job that reaches the gate, and the ways not to. *)
Job(h, b, p, e, t, c, s, w) ==
  [head |-> h, base |-> b, policy |-> p, engine |-> e, token |-> t,
   cliOnPath |-> c, scansGiven |-> s, failOnWarn |-> w]

MCInputs ==
  {Job(h, b, p, "stub", FALSE, TRUE, TRUE, FALSE) :
     h \in Heads, b \in Bases, p \in MCPolicies}
  \cup {Job(h, << >>, p, e, t, c, s, w) :
     h \in BoundedSeq(Finding, 1), p \in {DefaultPolicy, MCMissing, MCInvalid}, e \in {"stub", "canonical"},
     t \in BOOLEAN, c \in BOOLEAN, s \in BOOLEAN, w \in BOOLEAN}

MCLeftovers == {NoFile, [result |-> "pass", newCount |-> 0]}
=============================================================================

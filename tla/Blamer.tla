------------------------------- MODULE Blamer -------------------------------
(***************************************************************************)
(* The Blamer webhooks: blamer-github-app judges each head of a pull       *)
(* request by the share of it that an AI wrote and concludes a check run,  *)
(* blamer-vercel-integration comments on a deployment and may block it.    *)
(* Both ask the hosted attribution service through blamer-api-client.      *)
(*                                                                         *)
(* A diff is a list of files, each standing for what the service will say  *)
(* wrote it: "human", the name of an agent, "unsure" when it names nobody, *)
(* and "binary" for a file without a patch.  Deliveries are handled at     *)
(* once, and one may be repeated.                                          *)
(***************************************************************************)
EXTENDS Integers, FiniteSets, Sequences, Functions

CONSTANTS PullRequestEvent, \* deliveries of pull_request webhooks
          DeploymentEvent,  \* deliveries of deployment.succeeded
          HeadOf,           \* the head that a pull request event is about
          Diff,             \* the diff at each head, heads being 1, 2, ...
          Threshold,        \* thresholdFraction, in percent
          PageSize,         \* what the files endpoint returns of a diff
          EnableThresholdBlock

Event == PullRequestEvent \cup DeploymentEvent
Heads == DOMAIN Diff

ASSUME BlamerAssumption ==
  /\ PullRequestEvent \cap DeploymentEvent = {}
  /\ Diff # << >> /\ Diff \in Seq(Range(Diff))
  /\ \A h \in Heads : Diff[h] \in Seq(Range(Diff[h]))
  /\ HeadOf \in [PullRequestEvent -> Heads]
  /\ Threshold \in 0..100 /\ PageSize \in Nat

VARIABLES
  head,    \* the head of the pull request
  handler, \* [Event -> [pc, files, answer]]: place and local variables
  check,   \* [Event -> the check its handler created]
  comment  \* [Event -> what was commented]

vars == <<head, handler, check, comment>>

NoCheck == "no check"
NoComment == "no comment"

Init ==
  /\ head = 1
  /\ handler = [e \in Event |-> [pc |-> "waiting", files |-> << >>, answer |-> "none"]]
  /\ check = [e \in Event |-> NoCheck]
  /\ comment = [e \in Event |-> NoComment]

-----------------------------------------------------------------------------
(***************************************************************************)
(* The report.  Fractions are added per agent in floating point: a sum of  *)
(* several that equals the threshold may come out above it.  The files are *)
(* those of a diff that were sent, by their positions in it; the service   *)
(* is taken to judge each of them.                                         *)
(***************************************************************************)

ByAi(hunks) == {i \in DOMAIN hunks : hunks[i] \notin {"human", "unsure"}}

Verdicts(hunks) ==
  LET ai == Cardinality(ByAi(hunks)) * 100
      limit == Threshold * Cardinality(DOMAIN hunks)
  IN  {v \in {"violated", "kept"} :
         \/ ai > limit /\ v = "violated"
         \/ ai <= limit /\ v = "kept"
         \/ ai = limit /\ Cardinality({hunks[i] : i \in ByAi(hunks)}) > 1}

(* An empty diff is sent as a placeholder that the service judges somehow. *)
Placeholder == {<<"human">>, <<"unsure">>, <<"claude">>}

Errors == {"auth_failed", "quota_exceeded", "unavailable"}

-----------------------------------------------------------------------------

Go(e, pc) == handler' = [handler EXCEPT ![e].pc = pc]

(* A call that has its effect or not, and whose answer may be an error: an *)
(* error is thrown and ends the handler.                                   *)
Call(e, pc, effect, noEffect) ==
  \/ effect /\ Go(e, pc)
  \/ (effect \/ noEffect) /\ Go(e, "thrown")

Push ==
  /\ head + 1 \in Heads
  /\ head' = head + 1
  /\ UNCHANGED <<handler, check, comment>>

(* The webhook of a head comes once that head is there. *)
CreateCheckRun(e) ==
  /\ e \in PullRequestEvent /\ handler[e].pc = "waiting" /\ HeadOf[e] <= head
  /\ Call(e, "files", check' = [check EXCEPT ![e] = "queued"], UNCHANGED check)
  /\ UNCHANGED <<head, comment>>

(* One page of the files is asked for, and those without a patch left out. *)
TextFiles(h) ==
  Restrict(Diff[h], {i \in DOMAIN Diff[h] : i <= PageSize /\ Diff[h][i] # "binary"})

(* The diff is that of the pull request now, which may have a newer head.  *)
GetPullRequestFiles(e) ==
  /\ handler[e].pc = "files"
  /\ \/ handler' = [handler EXCEPT ![e].pc = "report", ![e].files = TextFiles(head)]
     \/ Go(e, "thrown")
  /\ UNCHANGED <<head, check, comment>>

(* What a deployment sends is its own name and no diff. *)
ReceiveDeployment(e) ==
  /\ e \in DeploymentEvent /\ handler[e].pc = "waiting"
  /\ Go(e, "report")
  /\ UNCHANGED <<head, check, comment>>

AfterReport(e) == IF e \in PullRequestEvent THEN "update" ELSE "comment"

(* Errors of the service come back as results; but an answer without the   *)
(* list of results is read all the same, and that throws.                  *)
GetReport(e) ==
  /\ handler[e].pc = "report"
  /\ \/ \E hunks \in IF handler[e].files = << >> THEN Placeholder ELSE {handler[e].files} :
          \E v \in Verdicts(hunks) :
            handler' = [handler EXCEPT ![e].pc = AfterReport(e), ![e].answer = v]
     \/ \E error \in Errors :
          handler' = [handler EXCEPT ![e].pc = AfterReport(e), ![e].answer = error]
     \/ Go(e, "thrown")
  /\ UNCHANGED <<head, check, comment>>

(* Mutant: what is not a violation passes. *)
Conclusion_ElsePasses(answer) == IF answer = "violated" THEN "failure" ELSE "success"

Conclusion(answer) ==
  CASE answer = "violated" -> "failure"
    [] answer = "kept"     -> "success"
    [] OTHER               -> "neutral"

(* Mutant: the answers the text was not written for leave the run as it is. *)
UpdateCheckRun_KnownErrors(e) ==
  /\ e \in PullRequestEvent /\ handler[e].pc = "update"
  /\ IF handler[e].answer = "unavailable" THEN Go(e, "comment") /\ UNCHANGED check
     ELSE Call(e, "comment", check' = [check EXCEPT ![e] = Conclusion(handler[e].answer)], UNCHANGED check)
  /\ UNCHANGED <<head, comment>>

UpdateCheckRun(e) ==
  /\ e \in PullRequestEvent /\ handler[e].pc = "update"
  /\ Call(e, "comment", check' = [check EXCEPT ![e] = Conclusion(handler[e].answer)], UNCHANGED check)
  /\ UNCHANGED <<head, comment>>

(* Mutant: the deployment is blocked or not whatever came of the report. *)
GateWanted_Always(e) == e \in DeploymentEvent /\ EnableThresholdBlock

GateWanted(e) ==
  e \in DeploymentEvent /\ EnableThresholdBlock /\ handler[e].answer \notin Errors

PostComment(e) ==
  /\ handler[e].pc = "comment"
  /\ Call(e, IF GateWanted(e) THEN "create" ELSE "done",
          comment' = [comment EXCEPT ![e] = handler[e].answer], UNCHANGED comment)
  /\ UNCHANGED <<head, check>>

(* A deployment's check is created blocking, and then concluded. *)
CreateCheck(e) ==
  /\ handler[e].pc = "create"
  /\ Call(e, "update", check' = [check EXCEPT ![e] = "blocking"], UNCHANGED check)
  /\ UNCHANGED <<head, comment>>

UpdateCheck(e) ==
  /\ e \in DeploymentEvent /\ handler[e].pc = "update"
  /\ Call(e, "done", check' = [check EXCEPT ![e] = IF handler[e].answer = "violated"
                                                  THEN "failed" ELSE "passed"], UNCHANGED check)
  /\ UNCHANGED <<head, comment>>

Handle(e) ==
  \/ CreateCheckRun(e) \/ GetPullRequestFiles(e) \/ ReceiveDeployment(e) \/ GetReport(e)
  \/ UpdateCheckRun(e) \/ PostComment(e) \/ CreateCheck(e) \/ UpdateCheck(e)

Next == Push \/ \E e \in Event : Handle(e)

(* A call of a handler returns in the end, with an answer or an error. *)
Spec == Init /\ [][Next]_vars /\ \A e \in Event : WF_vars(handler[e].pc # "waiting" /\ Handle(e))

-----------------------------------------------------------------------------

(* How the share of a diff that an AI wrote lies to the threshold.         *)
FilesOfAi(files) == {i \in DOMAIN files : files[i] \notin {"human", "unsure"}}
Exceeds(files) == Cardinality(FilesOfAi(files)) * 100 > Threshold * Cardinality(DOMAIN files)
Meets(files) == Cardinality(FilesOfAi(files)) * 100 = Threshold * Cardinality(DOMAIN files)
SeveralAgents(files) == Cardinality({files[i] : i \in FilesOfAi(files)}) > 1

(* A verdict on a head is one on a diff that the pull request has had since *)
(* that head was pushed: on the newest head, on its own diff.  It fails     *)
(* only if the AI's share of the files asked for exceeds the threshold, or  *)
(* meets it and is a sum of several agents' shares, and passes only if it   *)
(* does not exceed it; an error of the service is no verdict; and the       *)
(* comment says what the check run says.                                    *)
VerdictIsOfADiffSince ==
  \A e \in PullRequestEvent : check[e] \in {"success", "failure"} =>
    /\ comment[e] \in {NoComment, handler[e].answer}
    /\ handler[e].answer \notin Errors
    /\ \E h \in HeadOf[e]..head :
         LET files == TextFiles(h)
         IN  \/ DOMAIN files = {}
             \/ check[e] = "failure" /\ (Exceeds(files) \/ (Meets(files) /\ SeveralAgents(files)))
             \/ check[e] = "success" /\ ~Exceeds(files)

(* What the comments in the code say: a check run fails only above the     *)
(* threshold.                                                              *)
FailsOnlyAboveThreshold ==
  \A e \in PullRequestEvent : check[e] = "failure" =>
    \E h \in HeadOf[e]..head : DOMAIN TextFiles(h) = {} \/ Exceeds(TextFiles(h))

(* A deployment is let through or stopped only by a report, and only after *)
(* the comment that says why; without one there is no check that blocks.   *)
GateRestsOnAReport ==
  \A e \in DeploymentEvent : check[e] # NoCheck =>
    /\ comment[e] = handler[e].answer
    /\ handler[e].answer \in {"violated", "kept"}
    /\ check[e] = "failed" => handler[e].answer = "violated"
    /\ check[e] = "passed" => handler[e].answer = "kept"

(* A check run that was created is concluded, and a deployment stops being *)
(* blocked without a verdict, unless a call to GitHub, Vercel or the       *)
(* service threw.                                                          *)
EveryCheckConcludes ==
  \A e \in Event :
    check[e] \in {"queued", "blocking"} ~>
      \/ check[e] \in {"success", "failure", "neutral", "passed", "failed"}
      \/ handler[e].pc = "thrown"
=============================================================================

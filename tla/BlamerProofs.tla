----------------------------- MODULE BlamerProofs -----------------------------
(***************************************************************************)
(* Proofs about the Blamer handlers, for any number of deliveries of       *)
(* either kind, heads and files, any threshold and page size, and whatever *)
(* calls fail or answer with an error.                                     *)
(*                                                                         *)
(* The diff is asked for by the name of the pull request, not of the head, *)
(* so a verdict may be about a later head than the webhook; it is never    *)
(* about an earlier one, since a head is there before its webhook and heads *)
(* only advance.  From the answer on a handler writes only what the answer *)
(* says, in the order comment, check for a deployment.                     *)
(***************************************************************************)
EXTENDS Blamer, FiniteSetTheorems, SequenceTheorems, TLAPS

Fields == {"pc", "files", "answer"}

HandlersOK == DOMAIN handler = Event /\ \A e \in Event : DOMAIN handler[e] = Fields

(* What the service can have said of a diff. *)
JudgedAs(files, answer) ==
  \/ DOMAIN files = {}
  \/ answer = "violated" /\ (Exceeds(files) \/ (Meets(files) /\ SeveralAgents(files)))
  \/ answer = "kept" /\ ~Exceeds(files)

(* A diff that the pull request of e has had since the head of e. *)
DiffSince(e, files) == \E h \in HeadOf[e]..head : files = TextFiles(h)

AnswerOK(e) ==
  \/ handler[e].answer \in Errors
  \/ /\ handler[e].answer \in {"violated", "kept"}
     /\ \E h \in HeadOf[e]..head : JudgedAs(TextFiles(h), handler[e].answer)

(* A check run is queued until the answer is known, and then says it.      *)
CheckRunOK(e) ==
  /\ handler[e].pc \in {"waiting", "files", "report", "update", "comment", "done", "thrown"}
  /\ handler[e].pc # "waiting" => HeadOf[e] <= head
  /\ handler[e].pc = "report" => DiffSince(e, handler[e].files)
  /\ handler[e].pc \in {"update", "comment"} => AnswerOK(e)
  /\ handler[e].pc \in {"waiting", "files", "report", "update"} =>
       check[e] \notin {"success", "failure"} /\ comment[e] = NoComment
  /\ comment[e] \in {NoComment, handler[e].answer}
  /\ check[e] \in {"success", "failure"} =>
       AnswerOK(e) /\ check[e] = Conclusion(handler[e].answer)

(* A deployment has no check before its comment, and none without a report. *)
GateOK(e) ==
  /\ handler[e].pc \in {"waiting", "report", "comment", "create", "update", "done", "thrown"}
  /\ handler[e].pc \in {"waiting", "report", "comment"} => check[e] = NoCheck
  /\ handler[e].pc = "comment" => handler[e].answer \in Errors \cup {"violated", "kept"}
  /\ handler[e].pc \in {"create", "update"} \/ check[e] # NoCheck =>
       /\ handler[e].answer \in {"violated", "kept"} /\ comment[e] = handler[e].answer
       /\ check[e] = "failed" => handler[e].answer = "violated"
       /\ check[e] = "passed" => handler[e].answer = "kept"

IInv ==
  /\ HandlersOK /\ DOMAIN check = Event /\ DOMAIN comment = Event
  /\ head \in Heads
  /\ \A e \in PullRequestEvent : CheckRunOK(e)
  /\ \A e \in DeploymentEvent : GateOK(e)

-----------------------------------------------------------------------------

LEMMA HeadsAreNumbers ==
  Heads \subseteq Nat /\ 1 \in Heads /\ \A e \in PullRequestEvent : HeadOf[e] \in Nat
<1>1. Diff # << >> /\ Diff \in Seq(Range(Diff))  BY BlamerAssumption
<1>2. Len(Diff) \in Nat /\ Len(Diff) > 0 /\ DOMAIN Diff = 1..Len(Diff)  BY <1>1
<1> QED  BY <1>2, BlamerAssumption DEF Heads

LEMMA FilesAreFinite == ASSUME NEW h \in Heads PROVE IsFiniteSet(DOMAIN TextFiles(h))
<1>1. Diff[h] \in Seq(Range(Diff[h]))  BY BlamerAssumption
<1>2. IsFiniteSet(DOMAIN Diff[h])
  <2>1. DOMAIN Diff[h] = 1..Len(Diff[h]) /\ Len(Diff[h]) \in Nat  BY <1>1
  <2> QED  BY <2>1, FS_Interval
<1>3. DOMAIN TextFiles(h) \subseteq DOMAIN Diff[h]  BY DEF TextFiles, Restrict
<1> QED  BY <1>2, <1>3, FS_Subset

(* Rounding only ever decides a share of several agents that meets the     *)
(* threshold.                                                              *)
LEMMA VerdictsJudge ==
  ASSUME NEW files, IsFiniteSet(DOMAIN files), NEW v \in Verdicts(files)
  PROVE  v \in {"violated", "kept"} /\ JudgedAs(files, v)
<1> DEFINE n == Cardinality(DOMAIN files)
           ai == Cardinality(ByAi(files))
           limit == Threshold * n
           agents == Cardinality({files[i] : i \in ByAi(files)})
<1>1. ai \in Nat /\ n \in Nat
  <2>1. ByAi(files) \subseteq DOMAIN files  BY DEF ByAi
  <2> QED  BY <2>1, FS_Subset, FS_CardinalityType
<1>2. limit \in Nat  BY <1>1, BlamerAssumption
<1>3. /\ v \in {"violated", "kept"}
      /\ \/ ai * 100 > limit /\ v = "violated"
         \/ ai * 100 <= limit /\ v = "kept"
         \/ ai * 100 = limit /\ agents > 1
  BY DEF Verdicts
<1>4. ByAi(files) = FilesOfAi(files)  BY DEF ByAi, FilesOfAi
<1>5. /\ Exceeds(files) <=> ai * 100 > limit
      /\ Meets(files) <=> ai * 100 = limit
      /\ SeveralAgents(files) <=> agents > 1
  BY <1>4 DEF Exceeds, Meets, SeveralAgents
<1> HIDE DEF n, ai, limit, agents
<1> QED  BY <1>1, <1>2, <1>3, <1>5 DEF JudgedAs

(* Heads only advance: what has been a diff since remains one. *)
LEMMA HeadsAdvance ==
  ASSUME NEW e \in PullRequestEvent, head \in Heads, head' \in Heads, head <= head'
  PROVE  HeadOf[e]..head \subseteq HeadOf[e]..head'
BY HeadsAreNumbers

-----------------------------------------------------------------------------
(* The steps.                                                              *)

LEMMA GoOn ==
  ASSUME HandlersOK, NEW e \in Event, NEW pc, Go(e, pc)
  PROVE  /\ HandlersOK' /\ \A f \in Event \ {e} : handler'[f] = handler[f]
         /\ handler'[e].pc = pc /\ handler'[e].files = handler[e].files
         /\ handler'[e].answer = handler[e].answer
BY DEF HandlersOK, Fields, Go

(* A step of e leaves the books of the others alone. *)
LEMMA OthersKeep ==
  ASSUME IInv, NEW e \in Event, HandlersOK', head' = head,
         DOMAIN check' = Event, DOMAIN comment' = Event,
         \A f \in Event \ {e} :
           handler'[f] = handler[f] /\ check'[f] = check[f] /\ comment'[f] = comment[f],
         e \in PullRequestEvent => CheckRunOK(e)',
         e \in DeploymentEvent => GateOK(e)'
  PROVE  IInv'
<1>1. ASSUME NEW f \in PullRequestEvent, f # e PROVE CheckRunOK(f)'
  <2>1. f \in Event /\ CheckRunOK(f)  BY DEF IInv, Event
  <2>2. handler'[f] = handler[f] /\ check'[f] = check[f] /\ comment'[f] = comment[f]
    BY <1>1, <2>1
  <2> QED  BY <2>1, <2>2 DEF CheckRunOK, DiffSince, AnswerOK
<1>2. ASSUME NEW f \in DeploymentEvent, f # e PROVE GateOK(f)'
  <2>1. f \in Event /\ GateOK(f)  BY DEF IInv, Event
  <2>2. handler'[f] = handler[f] /\ check'[f] = check[f] /\ comment'[f] = comment[f]
    BY <1>2, <2>1
  <2> QED  BY <2>1, <2>2 DEF GateOK
<1>3. /\ \A f \in PullRequestEvent : CheckRunOK(f)'
      /\ \A f \in DeploymentEvent : GateOK(f)'
  BY <1>1, <1>2
<1> QED  BY <1>3 DEF IInv

(* What a step of e leaves of check and comment. *)
LEMMA OneWrites ==
  ASSUME IInv, NEW e \in Event, Handle(e)
  PROVE  /\ HandlersOK' /\ head' = head /\ DOMAIN check' = Event /\ DOMAIN comment' = Event
         /\ \A f \in Event \ {e} :
              handler'[f] = handler[f] /\ check'[f] = check[f] /\ comment'[f] = comment[f]
<1>1. HandlersOK /\ DOMAIN check = Event /\ DOMAIN comment = Event  BY DEF IInv
<1>2. /\ head' = head /\ DOMAIN check' = Event /\ DOMAIN comment' = Event
      /\ \A f \in Event \ {e} : check'[f] = check[f] /\ comment'[f] = comment[f]
  BY <1>1 DEF Handle, CreateCheckRun, GetPullRequestFiles, ReceiveDeployment, GetReport,
         UpdateCheckRun, PostComment, CreateCheck, UpdateCheck, Call
<1>3. HandlersOK' /\ \A f \in Event \ {e} : handler'[f] = handler[f]
  <2>1. CASE \E pc : Go(e, pc)  BY <1>1, <2>1, GoOn
  <2>2. CASE GetPullRequestFiles(e)
    BY <1>1, <2>1, <2>2 DEF GetPullRequestFiles, HandlersOK
  <2>3. CASE GetReport(e)
    BY <1>1, <2>1, <2>3 DEF GetReport, HandlersOK
  <2>4. CASE ~(GetPullRequestFiles(e) \/ GetReport(e))
    <3>1. \E pc : Go(e, pc)
      BY <2>4 DEF Handle, CreateCheckRun, ReceiveDeployment, UpdateCheckRun, PostComment,
             CreateCheck, UpdateCheck, Call
    <3> QED  BY <2>1, <3>1
  <2> QED  BY <2>2, <2>3, <2>4
<1> QED  BY <1>2, <1>3

(* The call for the files and the call for the report. *)
LEMMA FilesAreOfNow ==
  ASSUME IInv, NEW e \in PullRequestEvent, GetPullRequestFiles(e)
  PROVE  CheckRunOK(e)'
<1>1. /\ e \in Event /\ HandlersOK /\ CheckRunOK(e) /\ head \in Heads /\ head' = head
      /\ check' = check /\ comment' = comment /\ handler[e].pc = "files"
  BY DEF IInv, Event, GetPullRequestFiles
<1>2. HeadOf[e] <= head /\ check[e] \notin {"success", "failure"} /\ comment[e] = NoComment
  BY <1>1 DEF CheckRunOK
<1>3. CASE Go(e, "thrown")
  BY <1>1, <1>2, <1>3, GoOn DEF CheckRunOK
<1>4. CASE handler' = [handler EXCEPT ![e].pc = "report", ![e].files = TextFiles(head)]
  <2>1. handler'[e].pc = "report" /\ handler'[e].files = TextFiles(head)
    BY <1>1, <1>4 DEF HandlersOK, Fields
  <2>2. head \in HeadOf[e]..head  BY <1>1, <1>2, HeadsAreNumbers
  <2>3. DiffSince(e, handler[e].files)'  BY <1>1, <2>1, <2>2 DEF DiffSince
  <2> QED  BY <1>1, <1>2, <2>1, <2>3 DEF CheckRunOK
<1> QED  BY <1>3, <1>4 DEF GetPullRequestFiles

LEMMA AnswersAreJudgements ==
  ASSUME IInv, NEW e \in PullRequestEvent, GetReport(e)
  PROVE  CheckRunOK(e)'
<1>1. /\ e \in Event /\ HandlersOK /\ CheckRunOK(e) /\ head \in Heads /\ head' = head
      /\ check' = check /\ comment' = comment /\ handler[e].pc = "report"
  BY DEF IInv, Event, GetReport
<1>2. /\ HeadOf[e] <= head /\ check[e] \notin {"success", "failure"} /\ comment[e] = NoComment
      /\ DiffSince(e, handler[e].files)
  BY <1>1 DEF CheckRunOK
<1>3. CASE Go(e, "thrown")
  BY <1>1, <1>2, <1>3, GoOn DEF CheckRunOK
<1>4. ASSUME NEW v, handler' = [handler EXCEPT ![e].pc = "update", ![e].answer = v],
             \/ v \in Errors
             \/ v \in {"violated", "kept"} /\ \E h \in HeadOf[e]..head : JudgedAs(TextFiles(h), v)
      PROVE  CheckRunOK(e)'
  <2>1. handler'[e].pc = "update" /\ handler'[e].answer = v
    BY <1>1, <1>4 DEF HandlersOK, Fields
  <2>2. AnswerOK(e)'  BY <1>1, <1>4, <2>1 DEF AnswerOK, JudgedAs
  <2> QED  BY <1>1, <1>2, <2>1, <2>2 DEF CheckRunOK
<1>5. ASSUME NEW hunks \in IF handler[e].files = << >> THEN Placeholder ELSE {handler[e].files},
             NEW v \in Verdicts(hunks)
      PROVE  v \in {"violated", "kept"} /\ \E h \in HeadOf[e]..head : JudgedAs(TextFiles(h), v)
  <2>1. PICK h \in HeadOf[e]..head : handler[e].files = TextFiles(h)
    BY <1>2 DEF DiffSince
  <2>2. h \in Heads
    <3>1. DOMAIN Diff = 1..Len(Diff) /\ Len(Diff) \in Nat /\ HeadOf[e] \in 1..Len(Diff)
      BY BlamerAssumption DEF Heads
    <3> QED  BY <1>1, <3>1 DEF Heads
  <2>3. v \in {"violated", "kept"}  BY <1>5 DEF Verdicts
  <2>4. JudgedAs(TextFiles(h), v)
    <3>1. CASE handler[e].files = << >>
      <4>1. DOMAIN TextFiles(h) = {}  BY <2>1, <3>1
      <4> QED  BY <4>1 DEF JudgedAs
    <3>2. CASE handler[e].files # << >>
      BY <1>5, <2>1, <2>2, <3>2, FilesAreFinite, VerdictsJudge
    <3> QED  BY <3>1, <3>2
  <2> QED  BY <2>3, <2>4
<1> QED  BY <1>3, <1>4, <1>5 DEF GetReport, AfterReport

LEMMA CheckRunSteps ==
  ASSUME IInv, NEW e \in PullRequestEvent, Handle(e)
  PROVE  CheckRunOK(e)'
<1>1. /\ e \in Event /\ e \notin DeploymentEvent /\ HandlersOK /\ CheckRunOK(e)
      /\ DOMAIN check = Event /\ DOMAIN comment = Event
  BY BlamerAssumption DEF IInv, Event
<1>2. CASE CreateCheckRun(e)
  <2>1. /\ handler[e].pc = "waiting" /\ HeadOf[e] <= head /\ head' = head /\ comment' = comment
        /\ check'[e] \in {check[e], "queued"} /\ (Go(e, "files") \/ Go(e, "thrown"))
    BY <1>1, <1>2 DEF CreateCheckRun, Call
  <2>2. /\ handler'[e].pc \in {"files", "thrown"} /\ handler'[e].answer = handler[e].answer
    BY <1>1, <2>1, GoOn
  <2> QED  BY <1>1, <2>1, <2>2 DEF CheckRunOK
<1>3. CASE GetPullRequestFiles(e)  BY <1>3, FilesAreOfNow
<1>4. CASE GetReport(e)  BY <1>4, AnswersAreJudgements
<1>5. CASE UpdateCheckRun(e)
  <2>1. /\ handler[e].pc = "update" /\ head' = head /\ comment' = comment
        /\ check'[e] \in {check[e], Conclusion(handler[e].answer)}
        /\ (Go(e, "comment") \/ Go(e, "thrown"))
    BY <1>1, <1>5 DEF UpdateCheckRun, Call
  <2>2. /\ handler'[e].pc \in {"comment", "thrown"} /\ handler'[e].answer = handler[e].answer
    BY <1>1, <2>1, GoOn
  <2>3. AnswerOK(e) /\ AnswerOK(e)'  BY <1>1, <2>1, <2>2 DEF CheckRunOK, AnswerOK
  <2> QED  BY <1>1, <2>1, <2>2, <2>3 DEF CheckRunOK
<1>6. CASE PostComment(e)
  <2>1. /\ handler[e].pc = "comment" /\ head' = head /\ check' = check
        /\ comment'[e] \in {comment[e], handler[e].answer}
        /\ (Go(e, "done") \/ Go(e, "thrown"))
    BY <1>1, <1>6 DEF PostComment, Call, GateWanted
  <2>2. /\ handler'[e].pc \in {"done", "thrown"} /\ handler'[e].answer = handler[e].answer
    BY <1>1, <2>1, GoOn
  <2>3. AnswerOK(e) => AnswerOK(e)'  BY <2>1, <2>2 DEF AnswerOK
  <2> QED  BY <1>1, <2>1, <2>2, <2>3 DEF CheckRunOK
<1>7. ~(ReceiveDeployment(e) \/ CreateCheck(e) \/ UpdateCheck(e))
  BY <1>1 DEF ReceiveDeployment, CreateCheck, UpdateCheck, CheckRunOK
<1> QED  BY <1>2, <1>3, <1>4, <1>5, <1>6, <1>7 DEF Handle

LEMMA GateSteps ==
  ASSUME IInv, NEW e \in DeploymentEvent, Handle(e)
  PROVE  GateOK(e)'
<1>1. /\ e \in Event /\ e \notin PullRequestEvent /\ HandlersOK /\ GateOK(e)
      /\ DOMAIN check = Event /\ DOMAIN comment = Event
  BY BlamerAssumption DEF IInv, Event
<1>2. CASE ReceiveDeployment(e)
  <2>1. handler[e].pc = "waiting" /\ check' = check /\ comment' = comment /\ Go(e, "report")
    BY <1>2 DEF ReceiveDeployment
  <2>2. handler'[e].pc = "report" /\ handler'[e].answer = handler[e].answer
    BY <1>1, <2>1, GoOn
  <2> QED  BY <1>1, <2>1, <2>2 DEF GateOK
<1>3. CASE GetReport(e)
  <2>1. handler[e].pc = "report" /\ check' = check /\ comment' = comment
    BY <1>3 DEF GetReport
  <2>2. CASE Go(e, "thrown")
    <3>1. handler'[e].pc = "thrown" /\ handler'[e].answer = handler[e].answer
      BY <1>1, <2>2, GoOn
    <3> QED  BY <1>1, <2>1, <3>1 DEF GateOK
  <2>3. ASSUME NEW v \in Errors \cup {"violated", "kept"},
               handler' = [handler EXCEPT ![e].pc = "comment", ![e].answer = v]
        PROVE  GateOK(e)'
    <3>1. handler'[e].pc = "comment" /\ handler'[e].answer = v
      BY <1>1, <2>3 DEF HandlersOK, Fields
    <3> QED  BY <1>1, <2>1, <3>1 DEF GateOK
  <2>4. \A hunks : Verdicts(hunks) \subseteq {"violated", "kept"}  BY DEF Verdicts
  <2> QED  BY <1>1, <1>3, <2>2, <2>3, <2>4 DEF GetReport, AfterReport
<1>4. CASE PostComment(e)
  <2>1. /\ handler[e].pc = "comment" /\ check' = check
        /\ \/ /\ comment'[e] = handler[e].answer
              /\ \/ Go(e, "create") /\ handler[e].answer \notin Errors
                 \/ Go(e, "done")
           \/ Go(e, "thrown")
    BY <1>1, <1>4 DEF PostComment, Call, GateWanted
  <2>2. handler'[e].answer = handler[e].answer
        /\ \/ comment'[e] = handler[e].answer /\ handler'[e].pc = "create" /\ handler[e].answer \notin Errors
           \/ handler'[e].pc \in {"done", "thrown"}
    BY <1>1, <2>1, GoOn
  <2> QED  BY <1>1, <2>1, <2>2 DEF GateOK, NoCheck
<1>5. CASE CreateCheck(e)
  <2>1. /\ handler[e].pc = "create" /\ comment' = comment
        /\ check'[e] \in {check[e], "blocking"} /\ (Go(e, "update") \/ Go(e, "thrown"))
    BY <1>1, <1>5 DEF CreateCheck, Call
  <2>2. handler'[e].pc \in {"update", "thrown"} /\ handler'[e].answer = handler[e].answer
    BY <1>1, <2>1, GoOn
  <2> QED  BY <1>1, <2>1, <2>2 DEF GateOK
<1>6. CASE UpdateCheck(e)
  <2>1. /\ handler[e].pc = "update" /\ comment' = comment
        /\ \/ check'[e] = (IF handler[e].answer = "violated" THEN "failed" ELSE "passed")
           \/ check'[e] = check[e]
        /\ (Go(e, "done") \/ Go(e, "thrown"))
    BY <1>1, <1>6 DEF UpdateCheck, Call
  <2>2. handler'[e].pc \in {"done", "thrown"} /\ handler'[e].answer = handler[e].answer
    BY <1>1, <2>1, GoOn
  <2> QED  BY <1>1, <2>1, <2>2 DEF GateOK
<1>7. ~(CreateCheckRun(e) \/ GetPullRequestFiles(e) \/ UpdateCheckRun(e))
  BY <1>1 DEF CreateCheckRun, GetPullRequestFiles, UpdateCheckRun, GateOK
<1> QED  BY <1>2, <1>3, <1>4, <1>5, <1>6, <1>7 DEF Handle

(* What the handlers have written is what the answers say, in every state. *)
THEOREM Invariance == Spec => []IInv
<1>1. Init => IInv
  <2> SUFFICES ASSUME Init PROVE IInv  OBVIOUS
  <2>1. HandlersOK /\ DOMAIN check = Event /\ DOMAIN comment = Event /\ head \in Heads
    BY HeadsAreNumbers DEF Init, HandlersOK, Fields
  <2>2. \A e \in Event : /\ handler[e].pc = "waiting" /\ check[e] = NoCheck
                         /\ comment[e] = NoComment
    BY DEF Init
  <2>3. NoCheck \notin {"success", "failure"}  BY DEF NoCheck
  <2> QED  BY <2>1, <2>2, <2>3 DEF IInv, CheckRunOK, GateOK, Event
<1>2. IInv /\ [Next]_vars => IInv'
  <2> SUFFICES ASSUME IInv, [Next]_vars PROVE IInv'  OBVIOUS
  <2>1. ASSUME NEW e \in Event, Handle(e) PROVE IInv'
    BY <2>1, OneWrites, CheckRunSteps, GateSteps, OthersKeep
  <2>2. CASE Push
    <3>1. /\ head' \in Heads /\ head <= head' /\ head \in Heads
          /\ handler' = handler /\ check' = check /\ comment' = comment
      BY <2>2, HeadsAreNumbers DEF Push, IInv
    <3>2. ASSUME NEW e \in PullRequestEvent PROVE CheckRunOK(e)'
      <4>1. HeadOf[e]..head \subseteq HeadOf[e]..head'  BY <3>1, HeadsAdvance
      <4>2. HeadOf[e] <= head => HeadOf[e] <= head'  BY <3>1, HeadsAreNumbers
      <4>3. CheckRunOK(e)  BY DEF IInv
      <4>4. AnswerOK(e) => AnswerOK(e)'  BY <3>1, <4>1 DEF AnswerOK
      <4>5. DiffSince(e, handler[e].files) => DiffSince(e, handler[e].files)'
        BY <3>1, <4>1 DEF DiffSince
      <4> QED  BY <3>1, <4>2, <4>3, <4>4, <4>5 DEF CheckRunOK
    <3>3. \A e \in DeploymentEvent : GateOK(e)'  BY <3>1 DEF IInv, GateOK
    <3> QED  BY <3>1, <3>2, <3>3 DEF IInv, HandlersOK
  <2>3. CASE UNCHANGED vars
    BY <2>3 DEF vars, IInv, HandlersOK, CheckRunOK, GateOK, DiffSince, AnswerOK
  <2> QED  BY <2>1, <2>2, <2>3 DEF Next
<1> QED  BY <1>1, <1>2, PTL DEF Spec

(* A check run's verdict is on a diff that the pull request has had since  *)
(* its head was pushed, and follows from that diff's share.                *)
THEOREM VerdictsAreOfADiffSince == Spec => []VerdictIsOfADiffSince
<1>1. IInv => VerdictIsOfADiffSince
  <2> SUFFICES ASSUME IInv, NEW e \in PullRequestEvent, check[e] \in {"success", "failure"}
               PROVE  /\ comment[e] \in {NoComment, handler[e].answer}
                      /\ handler[e].answer \notin Errors
                      /\ \E h \in HeadOf[e]..head :
                           LET files == TextFiles(h)
                           IN  \/ DOMAIN files = {}
                               \/ /\ check[e] = "failure"
                                  /\ Exceeds(files) \/ (Meets(files) /\ SeveralAgents(files))
                               \/ check[e] = "success" /\ ~Exceeds(files)
    BY DEF VerdictIsOfADiffSince
  <2>1. CheckRunOK(e) /\ AnswerOK(e) /\ check[e] = Conclusion(handler[e].answer)
    BY DEF IInv, CheckRunOK
  <2>2. /\ handler[e].answer \notin Errors
        /\ check[e] = "failure" <=> handler[e].answer = "violated"
        /\ check[e] = "success" <=> handler[e].answer = "kept"
    BY <2>1 DEF Conclusion, AnswerOK, Errors
  <2>3. PICK h \in HeadOf[e]..head : JudgedAs(TextFiles(h), handler[e].answer)
    BY <2>1, <2>2 DEF AnswerOK
  <2> QED  BY <2>1, <2>2, <2>3 DEF CheckRunOK, JudgedAs
<1> QED  BY <1>1, Invariance, PTL

(* A deployment is stopped or let through by a report only, and after the  *)
(* comment that says why.                                                  *)
THEOREM GatesRestOnReports == Spec => []GateRestsOnAReport
<1>1. IInv => GateRestsOnAReport  BY DEF IInv, GateOK, GateRestsOnAReport
<1> QED  BY <1>1, Invariance, PTL
=============================================================================

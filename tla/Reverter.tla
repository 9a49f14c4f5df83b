------------------------------ MODULE Reverter ------------------------------
(***************************************************************************)
(* The reverter adapter: for each failed check run (GitHub) or ready       *)
(* deployment (Vercel) it opens draft fix-PRs, one per cluster of          *)
(* findings, within a daily allowance kept in a ledger.                    *)
(*                                                                         *)
(* Several events are handled at once in one process: a handler runs alone *)
(* from one await to the next, and each action here is such a stretch, or  *)
(* the service's side of the call the handler awaits.  GitHub and the      *)
(* cascade are modelled by what the adapter sees of them; a call may do    *)
(* its work and still fail, when the answer is lost.                       *)
(***************************************************************************)
EXTENDS FindingClusters, Functions

CONSTANTS Event,          \* webhook deliveries
          GitHubEvent,    \* those of handler-github; the others are handler-vercel's
          InstallationOf, \* the ledger's key for an event; a deployment has its own
          HeadShaOf,      \* the commit an event is about
          FindingsOf,     \* net-new findings that come with an event, a sequence
          Commentable,    \* events whose pull request number is known
          Deliveries,     \* the sets of events that may come, one of them in a behaviour
          MaxPrsPerEvent,
          LastDay,        \* bound: the days of a behaviour are 0..LastDay
          MaxRestarts     \* bound: how often the process is started again

ASSUME ReverterAssumption ==
  /\ GitHubEvent \subseteq Event /\ Commentable \subseteq GitHubEvent
  /\ IsFiniteSet(Event) /\ Deliveries \subseteq SUBSET Event
  /\ \A e \in Event : FindingsOf[e] \in Seq(Range(FindingsOf[e]))
  /\ MaxPrsPerEvent \in Nat \ {0}
  /\ LastDay \in Nat /\ MaxRestarts \in Nat

Day == 0..LastDay
Installation == {InstallationOf[e] : e \in Event}

VARIABLES
  day,      \* today, UTC
  restarts,
  ledger,   \* InMemoryRateLedger: fix-PRs by installation and day
  handler,  \* the local state of each event's handler
  branches, \* GitHub: the fix branches, each with its commits above the source commit
  prs,      \* GitHub: the draft pull requests opened
  comments  \* GitHub: rate-limit comments by event

vars == <<day, restarts, ledger, handler, branches, prs, comments>>
github == <<branches, prs, comments>>

(* buildBranchName: the rule and the commit, whatever the file or the lines. *)
BranchName(cluster, sha) == <<cluster.rule, sha>>
Branch == {BranchName(f, HeadShaOf[e]) : e \in Event, f \in UNION {Range(FindingsOf[x]) : x \in Event}}

UnreadSha == 0 - 1

Init ==
  /\ day = 0 /\ restarts = 0
  /\ ledger = [i \in Installation |-> [d \in Day |-> 0]]
  /\ \E come \in Deliveries :
       handler = [e \in Event |-> [pc |-> IF e \in come THEN "idle" ELSE "ignored",
                                   todo |-> << >>, opened |-> 0, limited |-> 0,
                                   skipped |-> 0, commented |-> FALSE, sha |-> UnreadSha]]
  /\ branches = << >>
  /\ prs = {}
  /\ comments = [e \in Event |-> 0]

-----------------------------------------------------------------------------

At(e, pc) == handler[e].pc = pc
Cluster(e) == handler[e].todo[1]
HeadOf(e) == BranchName(Cluster(e), HeadShaOf[e])

Goto(e, pc) == handler' = [handler EXCEPT ![e].pc = pc]

(* The end of one turn of the loop, with the counter that moves. *)
NextCluster(e, h) == [h EXCEPT !.pc = "check", !.todo = Tail(@), !.sha = UnreadSha]
Skip(e) == handler' = [handler EXCEPT ![e] = [NextCluster(e, handler[e]) EXCEPT !.skipped = @ + 1]]

(* An exception nothing in the handler catches. *)
Throw(e) == Goto(e, "failed")

(* Mutant: the clusters beyond the slice are not counted. *)
Receive_ForgetsRemaining(e) ==
  /\ At(e, "idle")
  /\ LET clusters == BuildFindingClusters(FindingsOf[e])
         taken == IF Len(clusters) < MaxPrsPerEvent THEN Len(clusters) ELSE MaxPrsPerEvent
     IN  handler' = [handler EXCEPT ![e].pc = "check",
                                    ![e].todo = SubSeq(clusters, 1, taken)]
  /\ UNCHANGED <<day, restarts, ledger, github>>

Receive(e) ==
  /\ At(e, "idle")
  /\ LET clusters == BuildFindingClusters(FindingsOf[e])
         taken == IF Len(clusters) < MaxPrsPerEvent THEN Len(clusters) ELSE MaxPrsPerEvent
     IN  handler' = [handler EXCEPT ![e].pc = "check",
                                    ![e].todo = SubSeq(clusters, 1, taken),
                                    ![e].limited = IF e \in GitHubEvent
                                                   THEN Len(clusters) - taken ELSE 0]
  /\ UNCHANGED <<day, restarts, ledger, github>>

(* Another app's check run, one that did not fail, a deployment that is not *)
(* ready or has no linked commit.                                           *)
Ignore(e) ==
  /\ At(e, "idle")
  /\ Goto(e, "ignored")
  /\ UNCHANGED <<day, restarts, ledger, github>>

-----------------------------------------------------------------------------

CurrentCount(e) == ledger[InstallationOf[e]][day]
Capped(e) == CurrentCount(e) >= MaxPrsPerEvent

(* The cluster is over the allowance: the first such cluster of an event *)
(* posts a comment, the others are only counted.                         *)
RateLimited(e) ==
  handler' = [handler EXCEPT ![e] =
    IF e \in Commentable /\ ~handler[e].commented
    THEN [handler[e] EXCEPT !.limited = @ + 1, !.pc = "comment"]
    ELSE [NextCluster(e, handler[e]) EXCEPT !.limited = @ + 1]]

(* Mutant: the allowance is not looked at. *)
CheckLedger_NoCap(e) ==
  /\ At(e, "check")
  /\ handler[e].todo # << >>
  /\ Goto(e, "fetch")
  /\ UNCHANGED <<day, restarts, ledger, github>>

CheckLedger(e) ==
  /\ At(e, "check")
  /\ handler[e].todo # << >>
  /\ \/ ~Capped(e) /\ Goto(e, "fetch")
     \/ Capped(e) /\ e \in GitHubEvent /\ RateLimited(e)
     \/ Capped(e) /\ e \notin GitHubEvent /\ Goto(e, "done")
  /\ UNCHANGED <<day, restarts, ledger, github>>

GetFileContent(e) ==
  /\ At(e, "fetch")
  /\ Goto(e, "fix") \/ Skip(e) \/ Throw(e)
  /\ UNCHANGED <<day, restarts, ledger, github>>

RequestFix(e) ==
  /\ At(e, "fix")
  /\ \/ Goto(e, "branch")
     \/ e \in GitHubEvent /\ RateLimited(e)
     \/ Skip(e)
     \/ Throw(e)
  /\ UNCHANGED <<day, restarts, ledger, github>>

(* A branch that exists already (422) is taken as it is. *)
CreateBranch(e) ==
  /\ At(e, "branch")
  /\ \/ /\ branches' = [b \in DOMAIN branches \cup {HeadOf(e)} |->
                          IF b \in DOMAIN branches THEN branches[b] ELSE << >>]
        /\ Goto(e, "sha") \/ Skip(e)
     \/ Skip(e) /\ UNCHANGED branches
  /\ UNCHANGED <<day, restarts, ledger, prs, comments>>

(* The version of the file on the branch: how many commits have touched it. *)
FileSha(b, file) == Len(SelectSeq(branches[b], LAMBDA c : c.file = file))

ReadFileSha(e) ==
  /\ At(e, "sha")
  /\ \E sha \in {FileSha(HeadOf(e), Cluster(e).file), UnreadSha} :
       handler' = [handler EXCEPT ![e].sha = sha, ![e].pc = "commit"]
  /\ UNCHANGED <<day, restarts, ledger, github>>

(* Mutant: the answer to the commit is not looked at. *)
CommitFile_Unchecked(e) ==
  /\ At(e, "commit")
  /\ Goto(e, "pr")
  /\ \/ /\ handler[e].sha = FileSha(HeadOf(e), Cluster(e).file)
        /\ branches' = [branches EXCEPT ![HeadOf(e)] = Append(@, Cluster(e))]
     \/ UNCHANGED branches
  /\ UNCHANGED <<day, restarts, ledger, prs, comments>>

(* GitHub takes the new content when the sha is that of the present one.  *)
(* The content is the source commit's with this cluster's patch, so it    *)
(* puts back what an earlier commit on the branch changed.                *)
CommitFile(e) ==
  /\ At(e, "commit")
  /\ \/ /\ handler[e].sha = FileSha(HeadOf(e), Cluster(e).file)
        /\ branches' = [branches EXCEPT ![HeadOf(e)] = Append(@, Cluster(e))]
        /\ Goto(e, "pr") \/ Skip(e)
     \/ Skip(e) /\ UNCHANGED branches
  /\ UNCHANGED <<day, restarts, ledger, prs, comments>>

HasOpenPr(b) == \E pr \in prs : pr.head = b

(* Mutant: a pull request that could not be opened is counted as well. *)
OpenDraftPr_CountsAttempts(e) ==
  /\ At(e, "pr")
  /\ Goto(e, "opened")
  /\ \/ /\ ~HasOpenPr(HeadOf(e))
        /\ prs' = prs \cup {[head |-> HeadOf(e), event |-> e, cluster |-> Cluster(e)]}
     \/ UNCHANGED prs
  /\ UNCHANGED <<day, restarts, ledger, branches, comments>>

(* GitHub refuses a second pull request for one head; it refuses one for a *)
(* head without commits too, which never happens here.                     *)
OpenDraftPr(e) ==
  /\ At(e, "pr")
  /\ \/ /\ ~HasOpenPr(HeadOf(e))
        /\ prs' = prs \cup {[head |-> HeadOf(e), event |-> e, cluster |-> Cluster(e)]}
        /\ Goto(e, "opened") \/ Skip(e)
     \/ Skip(e) /\ UNCHANGED prs
  /\ UNCHANGED <<day, restarts, ledger, branches, comments>>

(* The answer has come: increment counts it on the day it is by then. *)
Increment(e) ==
  /\ At(e, "opened")
  /\ ledger' = [ledger EXCEPT ![InstallationOf[e]][day] = @ + 1]
  /\ handler' = [handler EXCEPT ![e] = [NextCluster(e, handler[e]) EXCEPT !.opened = @ + 1]]
  /\ UNCHANGED <<day, restarts, github>>

PostIssueComment(e) ==
  /\ At(e, "comment")
  /\ \/ /\ comments' = [comments EXCEPT ![e] = @ + 1]
        /\ \/ handler' = [handler EXCEPT ![e] = [NextCluster(e, handler[e]) EXCEPT !.commented = TRUE]]
           \/ Throw(e)
     \/ Throw(e) /\ UNCHANGED comments
  /\ UNCHANGED <<day, restarts, ledger, branches, prs>>

Return(e) ==
  /\ At(e, "check")
  /\ handler[e].todo = << >>
  /\ Goto(e, "done")
  /\ UNCHANGED <<day, restarts, ledger, github>>

-----------------------------------------------------------------------------

Midnight ==
  /\ day < LastDay
  /\ day' = day + 1
  /\ UNCHANGED <<restarts, ledger, handler, github>>

(* The process is started again: its handlers and its ledger are gone. *)
Restart ==
  /\ restarts < MaxRestarts
  /\ restarts' = restarts + 1
  /\ ledger' = [i \in Installation |-> [d \in Day |-> 0]]
  /\ handler' = [e \in Event |->
       IF handler[e].pc \in {"idle", "ignored", "done"} THEN handler[e]
       ELSE [handler[e] EXCEPT !.pc = "failed"]]
  /\ UNCHANGED <<day, github>>

HandlerStep(e) ==
  \/ Receive(e) \/ Ignore(e) \/ CheckLedger(e) \/ GetFileContent(e) \/ RequestFix(e)
  \/ CreateBranch(e) \/ ReadFileSha(e) \/ CommitFile(e) \/ OpenDraftPr(e) \/ Increment(e)
  \/ PostIssueComment(e) \/ Return(e)

Next == (\E e \in Event : HandlerStep(e)) \/ Midnight \/ Restart

Spec == Init /\ [][Next]_vars

-----------------------------------------------------------------------------

(* Where a handler may be. *)
Pcs == {"idle", "ignored", "check", "fetch", "fix", "branch", "sha", "commit", "pr",
        "opened", "comment", "done", "failed"}

(* A handler that has a cluster in hand. *)
Busy == {"fetch", "fix", "branch", "sha", "commit", "pr", "opened", "comment"}

(* Past the ledger's check, and not yet back at it. *)
InFlight(i) == {e \in Event : InstallationOf[e] = i /\ handler[e].pc \in Busy \ {"comment"}}

(* Types, and a handler that is working on a cluster has one. *)
TypeOK ==
  /\ day \in Day /\ restarts \in 0..MaxRestarts
  /\ ledger \in [Installation -> [Day -> Nat]]
  /\ \A e \in Event :
       /\ handler[e].pc \in Pcs
       /\ handler[e].pc \in Busy => handler[e].todo # << >>
       /\ \A n \in {handler[e].opened, handler[e].limited, handler[e].skipped, comments[e]} : n \in Nat
       /\ handler[e].sha \in Nat \cup {UnreadSha}
  /\ DOMAIN branches \subseteq Branch
  /\ \A pr \in prs : pr.head \in DOMAIN branches

(* The ledger is read before four calls are awaited and written after them, *)
(* so events that overlap may pass the allowance, each by one at most: the  *)
(* count of a day stays below the allowance plus the installation's events. *)
(* It holds across midnights and restarts too.                              *)
OvershootIsBounded ==
  \A i \in Installation, d \in Day :
    ledger[i][d] < MaxPrsPerEvent + Cardinality({e \in Event : InstallationOf[e] = i})

(* What the ledger holds for an installation, the first, second and so on *)
(* of each day, and what GitHub holds.                                    *)
Counted(i) == UNION {{d} \X (1 .. ledger[i][d]) : d \in Day}
PrsOf(i) == {pr \in prs : InstallationOf[pr.event] = i}

(* What is counted is there: the ledger never holds more fix-PRs of an      *)
(* installation than GitHub does, whatever was refused or lost on the way.  *)
LedgerCountsRealPrs ==
  \A i \in Installation : Cardinality(Counted(i)) <= Cardinality(PrsOf(i))

(* A pull request is opened only after the patch of its cluster has been *)
(* committed to its branch, though that branch may be shared.            *)
PrHasItsCommit ==
  \A pr \in prs : \E k \in DOMAIN branches[pr.head] : branches[pr.head][k] = pr.cluster

(* An event that returns has accounted for every cluster of its findings:   *)
(* those opened, those over the allowance (the ones past the slice among    *)
(* them), and those skipped; and it has commented at most once, and only if *)
(* some cluster was over.  handler-vercel leaves its loop when capped.      *)
EveryClusterAccounted ==
  \A e \in GitHubEvent :
    At(e, "done") =>
      /\ handler[e].opened + handler[e].limited + handler[e].skipped
           = Len(BuildFindingClusters(FindingsOf[e]))
      /\ comments[e] <= 1
      /\ comments[e] = 1 => handler[e].limited > 0
=============================================================================

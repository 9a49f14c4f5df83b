------------------------ MODULE MultiDomainScanProofs ------------------------
(***************************************************************************)
(* Proofs about the multi-domain scan, for any number of calls in one      *)
(* process, of pages in a job and of domains in its list, whatever         *)
(* addresses the pages have and whatever bridged modules the calls share.  *)
(*                                                                         *)
(* The argument is one invariant about each call by itself, in terms of    *)
(* its record, of the slot of its module and of whether another call has   *)
(* come between: the row of an address is the one that the last page       *)
(* walked there determines, but for the bridged domain of a mixed call;    *)
(* the slot holds the analyzer's answer for the current page from the hook *)
(* to the evaluation, unless the call is mixed; and the report is what the *)
(* finished grid says.                                                     *)
(***************************************************************************)
EXTENDS MultiDomainScan, FiniteSetTheorems, SequenceTheorems, TLAPS

-----------------------------------------------------------------------------
(* The invariant, of the record k of a call, the contents of its module's  *)
(* slot and the call itself if it is mixed: by is then not empty.          *)

Fields == {"job", "pc", "snapshots", "grid", "interactions", "report", "exit"}
Pcs == {"capture", "site", "analyze", "evaluate", "assemble", "emit", "done"}

Walked(k) == Len(k.snapshots)
Url(k, i) == k.job.pages[i].url
PageOf(k, i) == k.job.pages[i].page

(* How many pages are evaluated. *)
Evaluated(k) == IF k.pc \in {"analyze", "evaluate"} THEN Walked(k) - 1 ELSE Walked(k)

(* A row of the grid, as the page alone determines it. *)
RowOK(job, page, row, by) ==
  /\ DOMAIN row = ToSet(job.domains)
  /\ \A d \in ToSet(job.domains) : d # "bridged" \/ by = {} =>
       row[d] = Evaluate(d, SharedWalker(page, job.domains), page.bridged)

Shape(k) == DOMAIN k = Fields /\ k.pc \in Pcs /\ JobOK(k.job)

(* The pages are walked in order, each once. *)
SnapshotsOK(k) ==
  /\ k.snapshots \in Seq(Range(k.job.pages)) /\ Walked(k) <= Len(k.job.pages)
  /\ \A i \in 1..Walked(k) : k.snapshots[i] = k.job.pages[i]
  /\ k.pc = "capture" => Walked(k) = 0
  /\ k.pc = "site" => Walked(k) < Len(k.job.pages)
  /\ k.pc \in {"analyze", "evaluate"} => Walked(k) > 0
  /\ k.pc \in {"assemble", "emit"} => Walked(k) = Len(k.job.pages)

(* Every page evaluated has a row for its address, and the row is that of  *)
(* the last page evaluated there.                                          *)
GridOK(k, by) == k.pc # "done" =>
  /\ \A u \in DOMAIN k.grid : \E i \in 1..Evaluated(k) :
       /\ u = Url(k, i) /\ RowOK(k.job, PageOf(k, i), k.grid[u], by)
       /\ \A j \in 1..Evaluated(k) : Url(k, j) = u => j <= i
  /\ \A i \in 1..Evaluated(k) : Url(k, i) \in DOMAIN k.grid

InteractionsOK(k) ==
  \A x \in k.interactions : \E i \in 1..Walked(k) :
    x[1] = i /\ x[2] \in Detect(SharedWalker(PageOf(k, i), k.job.domains))

(* The slot is only read between the hook and the evaluation. *)
SlotOK(k, findings, by) ==
  k.pc = "evaluate" /\ Contains(k.job.domains, "bridged") /\ by = {} =>
    findings = PageOf(k, Walked(k)).bridged

(* What a report of the job says. *)
IsReport(job, report, by) ==
  /\ report.sites = [i \in DOMAIN job.pages |-> job.pages[i].url]
  /\ report.domains = job.domains
  /\ \A i \in DOMAIN job.pages : \E j \in DOMAIN job.pages :
       /\ IsLast(job, j) /\ job.pages[j].url = job.pages[i].url
       /\ RowOK(job, job.pages[j].page, report.grid[job.pages[i].url], by)
  /\ \A x \in report.interactions : \E i \in DOMAIN job.pages :
       x[1] = i /\ x[2] \in Detect(SharedWalker(job.pages[i].page, job.domains))
  /\ report.crossSite = CrossSiteAxis(report.sites, report.domains, report.grid)

ReportOK(k, by) == k.report # NoReport \/ k.pc = "emit" => IsReport(k.job, k.report, by)

(* Whether the last page of some address has what the threshold asks for. *)
Blocked(job) ==
  \E i \in {j \in DOMAIN job.pages : IsLast(job, j)} :
    \E f \in OwnFindings(job, job.pages[i].page) : f.severity >= job.threshold

ExitOK(k, by) == by = {} /\ k.exit \in {0, 1} => (k.exit = 1 <=> Blocked(k.job))

CallOK(k, findings, by) ==
  Shape(k) /\ SnapshotsOK(k) /\ GridOK(k, by) /\ InteractionsOK(k)
  /\ SlotOK(k, findings, by) /\ ReportOK(k, by) /\ ExitOK(k, by)

IInv ==
  /\ DOMAIN call = Call /\ slot = [s \in Slot |-> slot[s]]
  /\ \A c \in Call : CallOK(call[c], slot[SlotOf[c]], mixed \cap {c})

-----------------------------------------------------------------------------
(* What the domains find.                                                  *)

(* The features of a domain are those its own extractors recorded.         *)
LEMMA FeaturesOfDomains ==
  ASSUME NEW page, NEW domains, NEW f \in SharedWalker(page, domains).scoped
  PROVE  /\ f.domain = "accessibility" => f.scope = "element" /\ f.join \in page.noAlt
         /\ f.domain = "sustainability" => f.scope = "element" /\ f.join \in page.noLazy
         /\ f.domain = "privacy" => f.scope # "element" /\ (f.scope = "cookie" => f.join \in page.cookies)
         /\ f.domain = "security" => f.scope = "cookie" /\ f.join \in page.insecure
<1>1. f \in AccessibilityExtractors(page) \cup SustainabilityExtractors(page)
             \cup PrivacyExtractors(page) \cup SecurityExtractors(page)
  BY DEF SharedWalker
<1>2. CASE f \in AccessibilityExtractors(page)
  BY <1>2 DEF AccessibilityExtractors, Feature
<1>3. CASE f \in SustainabilityExtractors(page)
  BY <1>3 DEF SustainabilityExtractors, Feature
<1>4. CASE f \in PrivacyExtractors(page)
  BY <1>4 DEF PrivacyExtractors, Feature
<1>5. CASE f \in SecurityExtractors(page)
  BY <1>5 DEF SecurityExtractors, Feature
<1> QED  BY <1>1, <1>2, <1>3, <1>4, <1>5

(* An interaction joins what both of its domains recorded. *)
LEMMA InteractionsAreReal ==
  ASSUME NEW page, NEW domains, NEW x \in Detect(SharedWalker(page, domains))
  PROVE  \/ x[1] = {"privacy", "security"} /\ x[2] \in page.cookies \cap page.insecure
         \/ x[1] = {"accessibility", "sustainability"} /\ x[2] \in page.noAlt \cap page.noLazy
<1> DEFINE scoped == SharedWalker(page, domains).scoped
<1>1. PICK f \in scoped, g \in scoped :
        /\ x = <<{f.domain, g.domain}, f.join>> /\ f.scope = g.scope /\ f.join = g.join
        /\ <<{f.domain, g.domain}, f.scope>> \in KnownPairs
  BY DEF Detect
<1>2. \/ {f.domain, g.domain} = {"accessibility", "sustainability"}
      \/ {f.domain, g.domain} = {"privacy", "security"} /\ f.scope = "cookie"
  BY <1>1 DEF KnownPairs
<1>3. CASE {f.domain, g.domain} = {"accessibility", "sustainability"}
  <2>1. \/ f.domain = "accessibility" /\ g.domain = "sustainability"
        \/ f.domain = "sustainability" /\ g.domain = "accessibility"
    BY <1>3
  <2> QED  BY <1>1, <1>3, <2>1, FeaturesOfDomains
<1>4. CASE {f.domain, g.domain} = {"privacy", "security"} /\ f.scope = "cookie"
  <2>1. \/ f.domain = "privacy" /\ g.domain = "security"
        \/ f.domain = "security" /\ g.domain = "privacy"
    BY <1>4
  <2> QED  BY <1>1, <1>4, <2>1, FeaturesOfDomains
<1> QED  BY <1>2, <1>3, <1>4

(* Only the bridged domain looks at the slot. *)
LEMMA OnlyTheBridgeReadsTheSlot ==
  ASSUME NEW d \in DomainId, NEW features, NEW a, NEW b, d = "bridged" => a = b
  PROVE  Evaluate(d, features, a) = Evaluate(d, features, b)
<1>1. CASE d = "bridged"  BY <1>1
<1>2. CASE d # "bridged"  BY <1>2 DEF Evaluate, DomainId
<1> QED  BY <1>1, <1>2

(* A domain reports under its own name. *)
LEMMA FindingsNameTheirDomain ==
  ASSUME NEW job, JobOK(job), NEW i \in DOMAIN job.pages, NEW d \in ToSet(job.domains),
         NEW f \in Evaluate(d, SharedWalker(job.pages[i].page, job.domains), job.pages[i].page.bridged)
  PROVE  f.domain = d
<1> DEFINE page == job.pages[i].page
           features == SharedWalker(page, job.domains)
<1>1. d \in DomainId  BY DEF JobOK, ToSet
<1>2. \A k \in DOMAIN features.library : features.library[k].domain = "accessibility"
  BY DEF SharedWalker, JobOK
<1>3. \A g \in page.bridged : g.domain = "bridged"  BY DEF JobOK
<1>4. f \in Evaluate(d, features, page.bridged)  OBVIOUS
<1> HIDE DEF features, page
<1>5. CASE d = "accessibility"
  <2>1. f \in Accessibility(features)  BY <1>4, <1>5 DEF Evaluate
  <2> QED  BY <1>2, <1>5, <2>1 DEF Accessibility, Finding
<1>6. CASE d = "sustainability"
  <2>1. f \in Sustainability(features)  BY <1>4, <1>6 DEF Evaluate
  <2> QED  BY <1>6, <2>1 DEF Sustainability, Finding
<1>7. CASE d = "privacy"
  <2>1. f \in Privacy(features)  BY <1>4, <1>7 DEF Evaluate
  <2> QED  BY <1>7, <2>1 DEF Privacy, Finding
<1>8. CASE d = "security"
  <2>1. f \in Security(features)  BY <1>4, <1>8 DEF Evaluate
  <2> QED  BY <1>8, <2>1 DEF Security, Finding
<1>9. CASE d = "bridged"
  <2>1. f \in page.bridged  BY <1>4, <1>9 DEF Evaluate
  <2> QED  BY <1>3, <1>9, <2>1
<1> QED  BY <1>1, <1>5, <1>6, <1>7, <1>8, <1>9 DEF DomainId

(* What a page has is what its row holds. *)
LEMMA RowsHoldOwnFindings ==
  ASSUME NEW job, NEW page, NEW row, RowOK(job, page, row, {})
  PROVE  \A f : f \in OwnFindings(job, page) <=> \E d \in ToSet(job.domains) : f \in row[d]
<1>1. \A d \in ToSet(job.domains) :
        row[d] = Evaluate(d, SharedWalker(page, job.domains), page.bridged)
  BY DEF RowOK
<1>2. OwnFindings(job, page) = UNION {row[d] : d \in ToSet(job.domains)}
  BY <1>1 DEF OwnFindings
<1> HIDE DEF OwnFindings
<1> QED  BY <1>2

-----------------------------------------------------------------------------
(* The steps of one call, of record k, to its next record.                 *)

(* What another call does to the slot is harmless, or the call is mixed.   *)
LEMMA SlotMoves ==
  ASSUME NEW k, NEW found, NEW found2, NEW m, NEW m2,
         CallOK(k, found, m), m # {} => m2 # {},
         k.pc = "evaluate" /\ Contains(k.job.domains, "bridged") /\ m2 = {} => found2 = found
  PROVE  CallOK(k, found2, m2)
<1>1. \A job, page, row : RowOK(job, page, row, m) => RowOK(job, page, row, m2)
  BY DEF RowOK
<1>2. GridOK(k, m2)  BY <1>1 DEF CallOK, GridOK
<1>3. ReportOK(k, m2)  BY <1>1 DEF CallOK, ReportOK, IsReport
<1>4. SlotOK(k, found2, m2) /\ ExitOK(k, m2)  BY DEF CallOK, SlotOK, ExitOK
<1> QED  BY <1>2, <1>3, <1>4 DEF CallOK

LEMMA ExitKeeps ==
  ASSUME NEW k, NEW found, NEW m, CallOK(k, found, m), NEW code,
         m = {} /\ code \in {0, 1} => (code = 1 <=> Blocked(k.job))
  PROVE  CallOK([k EXCEPT !.pc = "done", !.exit = code], found, m)
<1> DEFINE next == [k EXCEPT !.pc = "done", !.exit = code]
<1>1. /\ DOMAIN next = Fields /\ next.pc = "done" /\ next.exit = code /\ next.job = k.job
      /\ next.snapshots = k.snapshots /\ next.grid = k.grid
      /\ next.interactions = k.interactions /\ next.report = k.report
  BY DEF CallOK, Shape, Fields
<1> HIDE DEF next
<1>2. Shape(next)  BY <1>1 DEF CallOK, Shape, Pcs
<1>3. SnapshotsOK(next)  BY <1>1 DEF CallOK, SnapshotsOK, Walked
<1>4. GridOK(next, m)  BY <1>1 DEF GridOK
<1>5. InteractionsOK(next)  BY <1>1 DEF CallOK, InteractionsOK, Walked, PageOf
<1>6. ReportOK(next, m) /\ SlotOK(next, found, m) /\ ExitOK(next, m)
  BY <1>1 DEF CallOK, ReportOK, SlotOK, ExitOK
<1> QED  BY <1>2, <1>3, <1>4, <1>5, <1>6 DEF CallOK, next

(* The captures are done, or the hook has run: only pc moves. *)
LEMMA GoOnKeeps ==
  ASSUME NEW k, NEW found, NEW found2, NEW m, CallOK(k, found, m), NEW pc,
         \/ k.pc = "capture" /\ pc = "site" /\ Walked(k) = 0
         \/ k.pc = "analyze" /\ pc = "evaluate" /\ found2 = PageOf(k, Walked(k)).bridged
  PROVE  CallOK([k EXCEPT !.pc = pc], found2, m)
<1> DEFINE next == [k EXCEPT !.pc = pc]
<1>1. /\ DOMAIN next = Fields /\ next.pc = pc /\ next.exit = k.exit /\ next.job = k.job
      /\ next.snapshots = k.snapshots /\ next.grid = k.grid
      /\ next.interactions = k.interactions /\ next.report = k.report
  BY DEF CallOK, Shape, Fields
<1> HIDE DEF next
<1>2. Shape(next)  BY <1>1 DEF CallOK, Shape, Pcs
<1>3. SnapshotsOK(next)
  <2>1. k.job.pages \in Seq(Range(k.job.pages)) /\ k.job.pages # << >>
    BY DEF CallOK, Shape, JobOK
  <2>2. Len(k.job.pages) > 0  BY <2>1
  <2> QED  BY <1>1, <2>2 DEF CallOK, SnapshotsOK, Walked
<1>4. GridOK(next, m)
  <2>1. Evaluated(next) = Evaluated(k)  BY <1>1 DEF Evaluated, Walked
  <2> QED  BY <1>1, <2>1 DEF CallOK, GridOK, Url, PageOf
<1>5. InteractionsOK(next)  BY <1>1 DEF CallOK, InteractionsOK, Walked, PageOf
<1>6. ReportOK(next, m) /\ SlotOK(next, found2, m) /\ ExitOK(next, m)
  BY <1>1 DEF CallOK, ReportOK, SlotOK, ExitOK, Walked, PageOf
<1> QED  BY <1>2, <1>3, <1>4, <1>5, <1>6 DEF CallOK, next

(* A page is walked; the pages evaluated stay the same. *)
LEMMA BeginSiteKeeps ==
  ASSUME NEW k, NEW found, NEW m, CallOK(k, found, m), k.pc = "site", NEW pc,
         pc = (IF Contains(k.job.domains, "bridged") THEN "analyze" ELSE "evaluate")
  PROVE  CallOK([k EXCEPT !.snapshots = Append(k.snapshots, k.job.pages[Len(k.snapshots) + 1]),
                          !.pc = pc], found, m)
<1> DEFINE n == Len(k.snapshots)
           snapshots == Append(k.snapshots, k.job.pages[n + 1])
           next == [k EXCEPT !.snapshots = snapshots, !.pc = pc]
<1>1. /\ DOMAIN next = Fields /\ next.pc = pc /\ next.exit = k.exit /\ next.job = k.job
      /\ next.snapshots = snapshots /\ next.grid = k.grid
      /\ next.interactions = k.interactions /\ next.report = k.report
  BY DEF CallOK, Shape, Fields
<1>2. k.job.pages \in Seq(Range(k.job.pages)) /\ k.snapshots \in Seq(Range(k.job.pages))
  BY DEF CallOK, Shape, JobOK, SnapshotsOK
<1>3. n \in Nat /\ n < Len(k.job.pages) /\ n + 1 \in DOMAIN k.job.pages
  BY <1>2 DEF CallOK, SnapshotsOK, Walked
<1>4. k.job.pages[n + 1] \in Range(k.job.pages)  BY <1>3 DEF Range
<1>5. /\ snapshots \in Seq(Range(k.job.pages)) /\ Len(snapshots) = n + 1
      /\ \A i \in 1..n : snapshots[i] = k.snapshots[i]
      /\ snapshots[n + 1] = k.job.pages[n + 1]
  BY <1>2, <1>3, <1>4
<1>6. Walked(next) = n + 1 /\ Walked(k) = n  BY <1>1, <1>5 DEF Walked
<1>7. pc \in {"analyze", "evaluate"} /\ (pc = "evaluate" => ~Contains(k.job.domains, "bridged"))
  OBVIOUS
<1> HIDE DEF next, n, snapshots
<1>8. Shape(next)  BY <1>1, <1>7 DEF CallOK, Shape, Pcs
<1>9. SnapshotsOK(next)
  <2>1. \A i \in 1..n : k.snapshots[i] = k.job.pages[i]  BY <1>6 DEF CallOK, SnapshotsOK
  <2>2. \A i \in 1..(n + 1) : snapshots[i] = k.job.pages[i]  BY <1>3, <1>5, <2>1
  <2>3. n + 1 <= Len(k.job.pages)  BY <1>2, <1>3
  <2> QED  BY <1>1, <1>3, <1>5, <1>6, <1>7, <2>2, <2>3 DEF SnapshotsOK
<1>10. GridOK(next, m)
  <2>1. Evaluated(k) = n /\ Evaluated(next) = n  BY <1>1, <1>3, <1>6, <1>7 DEF Evaluated
  <2> QED  BY <1>1, <2>1 DEF CallOK, GridOK, Url, PageOf
<1>11. InteractionsOK(next)
  <2>1. 1..n \subseteq 1..(n + 1)  BY <1>3
  <2> QED  BY <1>1, <1>6, <2>1 DEF CallOK, InteractionsOK, PageOf
<1>12. ReportOK(next, m) /\ SlotOK(next, found, m) /\ ExitOK(next, m)
  BY <1>1, <1>7 DEF CallOK, ReportOK, SlotOK, ExitOK
<1> QED  BY <1>8, <1>9, <1>10, <1>11, <1>12 DEF CallOK, next, n, snapshots

(* The record of a call after EvaluateSite. *)
AfterEvaluation(k, found) ==
  LET n == Len(k.snapshots)
      features == SharedWalker(k.job.pages[n].page, k.job.domains)
      url == k.job.pages[n].url
      row == [d \in ToSet(k.job.domains) |-> Evaluate(d, features, found)]
  IN  [k EXCEPT !.grid = [u \in DOMAIN k.grid \cup {url} |-> IF u = url THEN row ELSE k.grid[u]],
                !.interactions = k.interactions \cup {<<n, i>> : i \in Detect(features)},
                !.pc = IF n < Len(k.job.pages) THEN "site" ELSE "assemble"]

(* The row that is set is the one of the current page, which is the last   *)
(* of its address so far: the slot still holds what the analyzer found on  *)
(* it, or the call is mixed.                                               *)
LEMMA EvaluateSiteKeeps ==
  ASSUME NEW k, NEW found, NEW m, CallOK(k, found, m), k.pc = "evaluate"
  PROVE  CallOK(AfterEvaluation(k, found), found, m)
<1> DEFINE n == Len(k.snapshots)
           page == k.job.pages[n].page
           url == k.job.pages[n].url
           features == SharedWalker(page, k.job.domains)
           row == [d \in ToSet(k.job.domains) |-> Evaluate(d, features, found)]
           grid == [u \in DOMAIN k.grid \cup {url} |-> IF u = url THEN row ELSE k.grid[u]]
           interactions == k.interactions \cup {<<n, i>> : i \in Detect(features)}
           pc == IF n < Len(k.job.pages) THEN "site" ELSE "assemble"
<1> DEFINE next == [k EXCEPT !.grid = grid, !.interactions = interactions, !.pc = pc]
<1>1. /\ DOMAIN next = Fields /\ next.pc = pc /\ next.exit = k.exit /\ next.job = k.job
      /\ next.snapshots = k.snapshots /\ next.grid = grid
      /\ next.interactions = interactions /\ next.report = k.report
  BY DEF CallOK, Shape, Fields
<1>0. AfterEvaluation(k, found) = next  BY DEF AfterEvaluation
<1> HIDE DEF next
<1>2. /\ n \in Nat /\ n > 0 /\ n <= Len(k.job.pages) /\ Len(k.job.pages) \in Nat
      /\ Walked(k) = n /\ Walked(next) = n
  <2>1. k.job.pages \in Seq(Range(k.job.pages)) /\ k.snapshots \in Seq(Range(k.job.pages))
    BY DEF CallOK, SnapshotsOK, Shape, JobOK
  <2>2. Walked(k) = n /\ Walked(next) = n  BY <1>1 DEF Walked
  <2>3. n > 0 /\ n <= Len(k.job.pages)  BY <2>2 DEF CallOK, SnapshotsOK
  <2>4. n \in Nat /\ Len(k.job.pages) \in Nat  BY <2>1, LenProperties
  <2> QED  BY <2>2, <2>3, <2>4
<1>3. RowOK(k.job, page, row, m)
  <2>1. \A d \in ToSet(k.job.domains) : d \in DomainId  BY DEF CallOK, Shape, JobOK, ToSet
  <2>2. \A d \in ToSet(k.job.domains) : d = "bridged" /\ m = {} => found = page.bridged
    BY <1>2 DEF CallOK, SlotOK, Shape, JobOK, ToSet, Contains, PageOf
  <2>3. \A d \in ToSet(k.job.domains) : d # "bridged" \/ m = {} =>
          Evaluate(d, features, found) = Evaluate(d, features, page.bridged)
    BY <2>1, <2>2, OnlyTheBridgeReadsTheSlot
  <2> QED  BY <2>3 DEF RowOK
<1>4. pc \in {"site", "assemble"} /\ (pc = "site" => n < Len(k.job.pages))
      /\ (pc = "assemble" => n = Len(k.job.pages))
  BY <1>2
<1>5. Shape(next)  BY <1>1, <1>4 DEF CallOK, Shape, Pcs
<1>6. SnapshotsOK(next)
  <2>1. /\ k.snapshots \in Seq(Range(k.job.pages))
        /\ \A i \in 1..n : k.snapshots[i] = k.job.pages[i]
    BY <1>2 DEF CallOK, SnapshotsOK
  <2> QED  BY <1>1, <1>2, <1>4, <2>1 DEF SnapshotsOK
<1>7. GridOK(next, m)
  <2>0. Evaluated(k) = n - 1 /\ Evaluated(next) = n  BY <1>1, <1>2, <1>4 DEF Evaluated
  <2>1. \A u \in DOMAIN k.grid : \E i \in 1..(n - 1) :
          /\ u = Url(k, i) /\ RowOK(k.job, PageOf(k, i), k.grid[u], m)
          /\ \A j \in 1..(n - 1) : Url(k, j) = u => j <= i
    BY <2>0 DEF CallOK, GridOK
  <2>2. \A i \in 1..(n - 1) : Url(k, i) \in DOMAIN k.grid  BY <2>0 DEF CallOK, GridOK
  <2>3. DOMAIN grid = DOMAIN k.grid \cup {url} /\ grid[url] = row
        /\ \A u \in DOMAIN k.grid \ {url} : grid[u] = k.grid[u]
    OBVIOUS
  <2>4. n \in 1..n /\ url = Url(k, n) /\ page = PageOf(k, n)  BY <1>2 DEF Url, PageOf
  <2>5. \A i \in 1..n : i <= n /\ (i = n \/ i \in 1..(n - 1))  BY <1>2
  <2>6. 1..(n - 1) \subseteq 1..n  BY <1>2
  <2> HIDE DEF n, page, url, features, row, grid, interactions, pc
  <2>7. ASSUME NEW u \in DOMAIN grid
        PROVE  \E i \in 1..n : /\ u = Url(k, i) /\ RowOK(k.job, PageOf(k, i), grid[u], m)
                               /\ \A j \in 1..n : Url(k, j) = u => j <= i
    <3>1. CASE u = url  BY <1>3, <2>3, <2>4, <2>5, <3>1
    <3>2. CASE u # url
      <4>1. u \in DOMAIN k.grid /\ grid[u] = k.grid[u]  BY <2>3, <3>2
      <4>2. PICK i \in 1..(n - 1) : /\ u = Url(k, i) /\ RowOK(k.job, PageOf(k, i), k.grid[u], m)
                                    /\ \A j \in 1..(n - 1) : Url(k, j) = u => j <= i
        BY <2>1, <4>1
      <4>3. \A j \in 1..n : Url(k, j) = u => j <= i  BY <2>4, <2>5, <3>2, <4>2
      <4> QED  BY <2>6, <4>1, <4>2, <4>3
    <3> QED  BY <3>1, <3>2
  <2>8. \A i \in 1..n : Url(k, i) \in DOMAIN grid  BY <2>2, <2>3, <2>4, <2>5
  <2>9. \A i : Url(next, i) = Url(k, i) /\ PageOf(next, i) = PageOf(k, i)
    BY <1>1 DEF Url, PageOf
  <2> QED  BY <1>1, <2>0, <2>7, <2>8, <2>9 DEF GridOK
<1>8. InteractionsOK(next)
  <2> SUFFICES ASSUME NEW x \in interactions
               PROVE  \E i \in 1..n : x[1] = i /\ x[2] \in Detect(SharedWalker(PageOf(k, i), k.job.domains))
    BY <1>1, <1>2 DEF InteractionsOK, PageOf
  <2>1. CASE x \in k.interactions  BY <1>2, <2>1 DEF CallOK, InteractionsOK
  <2>2. CASE x \notin k.interactions
    <3>1. x[1] = n /\ x[2] \in Detect(features)  BY <2>2
    <3> QED  BY <1>2, <3>1 DEF PageOf
  <2> QED  BY <2>1, <2>2
<1>9. ReportOK(next, m) /\ SlotOK(next, found, m) /\ ExitOK(next, m)
  BY <1>1, <1>4 DEF CallOK, ReportOK, SlotOK, ExitOK
<1> QED  BY <1>0, <1>5, <1>6, <1>7, <1>8, <1>9 DEF CallOK

(* The finished grid has, for every page, the row of the last page of its  *)
(* address.                                                                *)
LEMMA AssembleKeeps ==
  ASSUME NEW k, NEW found, NEW m, CallOK(k, found, m), k.pc = "assemble",
         NEW sites, sites = [i \in DOMAIN k.job.pages |-> k.job.pages[i].url],
         NEW report,
         report = [sites |-> sites, domains |-> k.job.domains, grid |-> k.grid,
                   interactions |-> k.interactions,
                   crossSite |-> CrossSiteAxis(sites, k.job.domains, k.grid)]
  PROVE  CallOK([k EXCEPT !.report = report, !.pc = "emit"], found, m)
<1> DEFINE next == [k EXCEPT !.report = report, !.pc = "emit"]
<1>1. /\ DOMAIN next = Fields /\ next.pc = "emit" /\ next.exit = k.exit /\ next.job = k.job
      /\ next.snapshots = k.snapshots /\ next.grid = k.grid
      /\ next.interactions = k.interactions /\ next.report = report
  BY DEF CallOK, Shape, Fields
<1> HIDE DEF next
<1>2. Shape(next)  BY <1>1 DEF CallOK, Shape, Pcs
<1>3. SnapshotsOK(next)  BY <1>1 DEF CallOK, SnapshotsOK, Walked
<1>4. GridOK(next, m)
  <2>1. Evaluated(next) = Evaluated(k)  BY <1>1 DEF Evaluated, Walked
  <2> QED  BY <1>1, <2>1 DEF CallOK, GridOK, Url, PageOf
<1>5. InteractionsOK(next)  BY <1>1 DEF CallOK, InteractionsOK, Walked, PageOf
<1>6. IsReport(k.job, report, m)
  <2>1. DOMAIN k.job.pages = 1..Walked(k)  BY DEF CallOK, SnapshotsOK, Shape, JobOK
  <2>2. Evaluated(k) = Walked(k)  BY DEF Evaluated
  <2>3. ASSUME NEW i \in DOMAIN k.job.pages
        PROVE  \E j \in DOMAIN k.job.pages :
                 /\ IsLast(k.job, j) /\ k.job.pages[j].url = k.job.pages[i].url
                 /\ RowOK(k.job, k.job.pages[j].page, k.grid[k.job.pages[i].url], m)
    BY <2>1, <2>2 DEF CallOK, GridOK, IsLast, Url, PageOf
  <2>4. \A x \in k.interactions : \E i \in DOMAIN k.job.pages :
          x[1] = i /\ x[2] \in Detect(SharedWalker(k.job.pages[i].page, k.job.domains))
    BY <2>1 DEF CallOK, InteractionsOK, PageOf
  <2>5. /\ report.sites = sites /\ report.domains = k.job.domains /\ report.grid = k.grid
        /\ report.crossSite = CrossSiteAxis(sites, k.job.domains, k.grid)
        /\ report.interactions = k.interactions
    OBVIOUS
  <2> QED  BY <2>3, <2>4, <2>5 DEF IsReport
<1>7. ReportOK(next, m) /\ SlotOK(next, found, m) /\ ExitOK(next, m)
  BY <1>1, <1>6 DEF CallOK, ReportOK, SlotOK, ExitOK
<1> QED  BY <1>2, <1>3, <1>4, <1>5, <1>7 DEF CallOK, next

-----------------------------------------------------------------------------
(* What a report says of the pages.                                        *)

(* An address has one last page. *)
LEMMA LastIsUnique ==
  ASSUME NEW job, JobOK(job), NEW i \in DOMAIN job.pages, NEW j \in DOMAIN job.pages,
         IsLast(job, i), IsLast(job, j), job.pages[i].url = job.pages[j].url
  PROVE  i = j
<1>1. i <= j /\ j <= i  BY DEF IsLast
<1>2. i \in Nat /\ j \in Nat  BY DEF JobOK
<1> QED  BY <1>1, <1>2

(* The row of an address is that of its last page. *)
LEMMA LastRow ==
  ASSUME NEW job, JobOK(job), NEW m, NEW report, IsReport(job, report, m),
         NEW i \in DOMAIN job.pages, IsLast(job, i)
  PROVE  RowOK(job, job.pages[i].page, report.grid[job.pages[i].url], m)
<1>1. PICK j \in DOMAIN job.pages :
        /\ IsLast(job, j) /\ job.pages[j].url = job.pages[i].url
        /\ RowOK(job, job.pages[j].page, report.grid[job.pages[i].url], m)
  BY DEF IsReport
<1>2. j = i  BY <1>1, LastIsUnique
<1> QED  BY <1>1, <1>2

(* The exit code is taken from the report, and so from the last pages. *)
LEMMA ReportsBlock ==
  ASSUME NEW job, JobOK(job), NEW report, IsReport(job, report, {})
  PROVE  HasFindingsAtOrAbove(report, job.threshold) <=> Blocked(job)
<1> DEFINE pages == job.pages
           Row(i) == report.grid[pages[i].url]
           lasts == {j \in DOMAIN pages : IsLast(job, j)}
<1>1. ToSet(report.sites) = {pages[i].url : i \in DOMAIN pages}  BY DEF IsReport, ToSet
<1>2. report.domains = job.domains  BY DEF IsReport
<1>3. HasFindingsAtOrAbove(report, job.threshold) <=>
        \E i \in DOMAIN pages : \E d \in ToSet(job.domains) :
          \E f \in Row(i)[d] : f.severity >= job.threshold
  BY <1>1, <1>2 DEF HasFindingsAtOrAbove, Blocks
<1>4. \A i \in DOMAIN pages : \E j \in lasts : Row(j) = Row(i)  BY DEF IsReport
<1>5. \A j \in lasts : \A f : f \in OwnFindings(job, pages[j].page)
                                 <=> \E d \in ToSet(job.domains) : f \in Row(j)[d]
  <2> SUFFICES ASSUME NEW j \in lasts
               PROVE  \A f : f \in OwnFindings(job, pages[j].page)
                               <=> \E d \in ToSet(job.domains) : f \in Row(j)[d]
    OBVIOUS
  <2>1. RowOK(job, pages[j].page, Row(j), {})  BY LastRow
  <2> QED  BY <2>1, RowsHoldOwnFindings
<1>6. Blocked(job) <=> \E j \in lasts : \E f \in OwnFindings(job, pages[j].page) :
                         f.severity >= job.threshold
  BY DEF Blocked
<1> HIDE DEF Row, lasts, pages
<1>7. lasts \subseteq DOMAIN pages  BY DEF lasts, pages
<1> QED  BY <1>3, <1>4, <1>5, <1>6, <1>7

-----------------------------------------------------------------------------
(* A step of call c that leaves the slots alone gives c its next record.   *)
LEMMA StepKeeps ==
  ASSUME IInv, NEW c \in Call, NEW next, UNCHANGED <<slot, mixed>>,
         call' = [call EXCEPT ![c] = next],
         CallOK(next, slot[SlotOf[c]], mixed \cap {c})
  PROVE  IInv'
<1>1. DOMAIN call' = Call /\ slot' = [s \in Slot |-> slot'[s]]  BY DEF IInv
<1>2. call'[c] = next /\ \A d \in Call \ {c} : call'[d] = call[d]  BY DEF IInv
<1>3. \A d \in Call : CallOK(call'[d], slot'[SlotOf[d]], mixed' \cap {d})
  BY <1>2 DEF IInv
<1> QED  BY <1>1, <1>3 DEF IInv

(* The hook of call c has run: whoever had yet to read the slot is mixed.  *)
LEMMA AnalyzeKeeps ==
  ASSUME IInv, NEW c \in Call, call[c].pc = "analyze",
         slot' = [slot EXCEPT ![SlotOf[c]] = Current(c).bridged],
         mixed' = mixed \cup Expecting(SlotOf[c]),
         call' = [call EXCEPT ![c].pc = "evaluate"]
  PROVE  IInv'
<1> DEFINE k == call[c]
           found == Current(c).bridged
<1>1. DOMAIN call' = Call /\ slot' = [s \in Slot |-> slot'[s]] /\ SlotOf[c] \in Slot
  BY SlotOfAssumption DEF IInv
<1>2. slot'[SlotOf[c]] = found /\ \A s \in Slot \ {SlotOf[c]} : slot'[s] = slot[s]
  BY <1>1 DEF IInv
<1>3. call'[c] = [k EXCEPT !.pc = "evaluate"] /\ \A d \in Call \ {c} : call'[d] = call[d]
  BY DEF IInv
<1>4. CallOK(call'[c], slot'[SlotOf[c]], mixed' \cap {c})
  <2>1. c \in mixed' <=> c \in mixed  BY DEF Expecting
  <2>2. found = PageOf(k, Walked(k)).bridged  BY DEF Current, Job, PageOf, Walked
  <2>3. CallOK(k, slot[SlotOf[c]], mixed \cap {c})  BY DEF IInv
  <2> HIDE DEF k, found
  <2>4. CallOK([k EXCEPT !.pc = "evaluate"], found, mixed \cap {c})
    BY <2>2, <2>3, GoOnKeeps DEF k
  <2>5. mixed' \cap {c} = mixed \cap {c}  BY <2>1
  <2> QED  BY <1>2, <1>3, <2>4, <2>5
<1>5. ASSUME NEW d \in Call \ {c} PROVE CallOK(call'[d], slot'[SlotOf[d]], mixed' \cap {d})
  <2>1. CallOK(call[d], slot[SlotOf[d]], mixed \cap {d})  BY DEF IInv
  <2>2. /\ call[d].pc = "evaluate" /\ Contains(call[d].job.domains, "bridged") /\ mixed' \cap {d} = {}
        => slot'[SlotOf[d]] = slot[SlotOf[d]]
    BY <1>2, SlotOfAssumption DEF Expecting, Job
  <2>3. mixed \cap {d} # {} => mixed' \cap {d} # {}  OBVIOUS
  <2>4. CallOK(call[d], slot'[SlotOf[d]], mixed' \cap {d})  BY <2>1, <2>2, <2>3, SlotMoves
  <2> QED  BY <1>3, <2>4
<1> QED  BY <1>1, <1>4, <1>5 DEF IInv

LEMMA NextKeeps ==
  ASSUME IInv, NEW c \in Call, Step(c)
  PROVE  IInv'
<1> DEFINE k == call[c]
           found == slot[SlotOf[c]]
           m == mixed \cap {c}
<1>1. CallOK(k, found, m)  BY DEF IInv
<1>2. ASSUME NEW code, Exit(c, code), m = {} /\ code \in {0, 1} => (code = 1 <=> Blocked(k.job)),
             UNCHANGED <<slot, mixed>>
      PROVE  IInv'
  <2>1. call' = [call EXCEPT ![c] = [k EXCEPT !.pc = "done", !.exit = code]]
    BY <1>2 DEF Exit
  <2>2. CallOK([k EXCEPT !.pc = "done", !.exit = code], found, m)  BY <1>1, <1>2, ExitKeeps
  <2> QED  BY <1>2, <2>1, <2>2, StepKeeps
<1>3. CASE Capture(c)
  <2>1. CASE Exit(c, 3)  BY <1>2, <1>3, <2>1 DEF Capture
  <2>2. CASE Exit(c, 2)  BY <1>2, <1>3, <2>2 DEF Capture
  <2>3. CASE call' = [call EXCEPT ![c].pc = "site"]
    <3>1. call' = [call EXCEPT ![c] = [k EXCEPT !.pc = "site"]]  BY <2>3
    <3>2. k.pc = "capture" /\ UNCHANGED <<slot, mixed>>  BY <1>3 DEF Capture
    <3>3. Walked(k) = 0  BY <1>1, <3>2 DEF CallOK, SnapshotsOK
    <3>4. CallOK([k EXCEPT !.pc = "site"], found, m)  BY <1>1, <3>2, <3>3, GoOnKeeps
    <3> QED  BY <3>1, <3>2, <3>4, StepKeeps
  <2> QED  BY <1>3, <2>1, <2>2, <2>3 DEF Capture
<1>4. CASE BeginSite(c)
  <2> DEFINE pc == IF Contains(k.job.domains, "bridged") THEN "analyze" ELSE "evaluate"
             next == [k EXCEPT !.snapshots = Append(k.snapshots, k.job.pages[Len(k.snapshots) + 1]),
                               !.pc = pc]
  <2>1. call' = [call EXCEPT ![c] = next]  BY <1>4 DEF BeginSite, Job
  <2>2. k.pc = "site" /\ UNCHANGED <<slot, mixed>>  BY <1>4 DEF BeginSite
  <2>3. CallOK(next, found, m)  BY <1>1, <2>2, BeginSiteKeeps
  <2> QED  BY <2>1, <2>2, <2>3, StepKeeps
<1>5. CASE Analyze(c)
  <2>1. CASE Exit(c, 3) /\ UNCHANGED <<slot, mixed>>  BY <1>2, <2>1
  <2>2. CASE /\ slot' = [slot EXCEPT ![SlotOf[c]] = Current(c).bridged]
             /\ mixed' = mixed \cup Expecting(SlotOf[c])
             /\ call' = [call EXCEPT ![c].pc = "evaluate"]
    BY <1>5, <2>2, AnalyzeKeeps DEF Analyze
  <2> QED  BY <1>5, <2>1, <2>2 DEF Analyze
<1>6. CASE EvaluateSite(c)
  <2>1. call' = [call EXCEPT ![c] = AfterEvaluation(k, found)]
    BY <1>6 DEF EvaluateSite, Job, Current, Site, AfterEvaluation
  <2>2. k.pc = "evaluate" /\ UNCHANGED <<slot, mixed>>  BY <1>6 DEF EvaluateSite
  <2>3. CallOK(AfterEvaluation(k, found), found, m)  BY <1>1, <2>2, EvaluateSiteKeeps
  <2> QED  BY <2>1, <2>2, <2>3, StepKeeps
<1>7. CASE Assemble(c)
  <2> DEFINE sites == [i \in DOMAIN k.job.pages |-> k.job.pages[i].url]
             report == [sites |-> sites, domains |-> k.job.domains, grid |-> k.grid,
                        interactions |-> k.interactions,
                        crossSite |-> CrossSiteAxis(sites, k.job.domains, k.grid)]
             next == [k EXCEPT !.report = report, !.pc = "emit"]
  <2>1. call' = [call EXCEPT ![c] = next]  BY <1>7 DEF Assemble, Job
  <2>2. k.pc = "assemble" /\ UNCHANGED <<slot, mixed>>  BY <1>7 DEF Assemble
  <2>3. CallOK(next, found, m)
    <3> HIDE DEF k, found
    <3> QED  BY <1>1, <2>2, AssembleKeeps
  <2> QED  BY <2>1, <2>2, <2>3, StepKeeps
<1>8. CASE Emit(c)
  <2>1. CASE Exit(c, 3)  BY <1>2, <1>8, <2>1 DEF Emit
  <2>2. CASE Exit(c, IF HasFindingsAtOrAbove(k.report, k.job.threshold) THEN 1 ELSE 0)
    <3>1. m = {} => (HasFindingsAtOrAbove(k.report, k.job.threshold) <=> Blocked(k.job))
      BY <1>1, <1>8, ReportsBlock DEF Emit, CallOK, Shape, ReportOK
    <3>2. UNCHANGED <<slot, mixed>>  BY <1>8 DEF Emit
    <3> QED  BY <1>2, <2>2, <3>1, <3>2
  <2> QED  BY <1>8, <2>1, <2>2 DEF Emit, Job
<1> QED  BY <1>3, <1>4, <1>5, <1>6, <1>7, <1>8 DEF Step

(* Each call's grid, slot and report agree with its own pages, in every    *)
(* state, whatever the other calls do in between.                          *)
THEOREM Invariance == ScanSpec => []IInv
<1>1. ScanInit => IInv
  <2> SUFFICES ASSUME ScanInit PROVE IInv  OBVIOUS
  <2>1. PICK jobs \in Jobs :
          call = [c \in Call |-> [job |-> jobs[c], pc |-> "capture", snapshots |-> << >>,
                                  grid |-> << >>, interactions |-> {}, report |-> NoReport,
                                  exit |-> Running]]
    BY DEF ScanInit
  <2>2. ASSUME NEW c \in Call PROVE CallOK(call[c], slot[SlotOf[c]], mixed \cap {c})
    <3> DEFINE k == call[c]
               m == mixed \cap {c}
    <3>1. /\ DOMAIN k = Fields /\ k.pc = "capture" /\ k.exit = Running /\ k.job = jobs[c]
          /\ k.snapshots = << >> /\ k.grid = << >> /\ k.interactions = {} /\ k.report = NoReport
      BY <2>1, <2>2 DEF Fields
    <3> HIDE DEF k, m
    <3>2. JobOK(k.job)  BY <2>2, <3>1, JobsAssumption
    <3>3. Shape(k)  BY <3>1, <3>2 DEF Shape, Pcs
    <3>4. Len(k.snapshots) = 0 /\ k.snapshots \in Seq(Range(k.job.pages))  BY <3>1
    <3>5. Len(k.job.pages) \in Nat  BY <3>2 DEF JobOK
    <3>6. SnapshotsOK(k)  BY <3>1, <3>4, <3>5 DEF SnapshotsOK, Walked
    <3>7. GridOK(k, m) /\ InteractionsOK(k)
      BY <3>1, <3>4 DEF GridOK, InteractionsOK, Evaluated, Walked
    <3>8. SlotOK(k, slot[SlotOf[c]], m) /\ ReportOK(k, m) /\ ExitOK(k, m)
      BY <3>1 DEF SlotOK, ReportOK, ExitOK, Running
    <3> QED  BY <3>3, <3>6, <3>7, <3>8 DEF CallOK, k, m
  <2> QED  BY <2>1, <2>2 DEF ScanInit, IInv
<1>2. IInv /\ [ScanNext]_scanVars => IInv'
  <2> SUFFICES ASSUME IInv, [ScanNext]_scanVars PROVE IInv'  OBVIOUS
  <2>1. CASE ScanNext  BY <2>1, NextKeeps DEF ScanNext
  <2>2. CASE UNCHANGED scanVars  BY <2>2 DEF scanVars, IInv
  <2> QED  BY <2>1, <2>2
<1> QED  BY <1>1, <1>2, PTL DEF ScanSpec

(* A report charges an address with what its last page has itself, and an  *)
(* interaction with what both its domains found there, although the slots  *)
(* are shared state that is written before an await and read after it.     *)
THEOREM SitesAreChargedFairly == ScanSpec => []FindingsAreOfTheirSite
<1>1. IInv => FindingsAreOfTheirSite
  <2> SUFFICES ASSUME IInv, NEW c \in Call, call[c].report # NoReport,
                      NEW i \in DOMAIN Job(c).pages
               PROVE  LET job == Job(c)
                          here == job.pages[i]
                      IN  /\ IsLast(job, i) =>
                               \A d \in ToSet(job.domains) : d # "bridged" \/ c \notin mixed =>
                                 call[c].report.grid[here.url][d] =
                                   Evaluate(d, SharedWalker(here.page, job.domains), here.page.bridged)
                          /\ \A x \in call[c].report.interactions : x[1] = i =>
                               \/ /\ x[2][1] = {"privacy", "security"}
                                  /\ x[2][2] \in here.page.cookies \cap here.page.insecure
                               \/ /\ x[2][1] = {"accessibility", "sustainability"}
                                  /\ x[2][2] \in here.page.noAlt \cap here.page.noLazy
    BY DEF FindingsAreOfTheirSite
  <2> DEFINE job == Job(c)
             report == call[c].report
             m == mixed \cap {c}
  <2>1. JobOK(job) /\ IsReport(job, report, m)
    BY DEF IInv, CallOK, Shape, ReportOK, Job
  <2>2. i \in DOMAIN job.pages  OBVIOUS
  <2> HIDE DEF job, report, m
  <2>3. IsLast(job, i) => RowOK(job, job.pages[i].page, report.grid[job.pages[i].url], m)
    BY <2>1, <2>2, LastRow
  <2>4. \A x \in report.interactions : x[1] = i =>
          x[2] \in Detect(SharedWalker(job.pages[i].page, job.domains))
    BY <2>1 DEF IsReport
  <2>5. \A x \in report.interactions : x[1] = i =>
          \/ x[2][1] = {"privacy", "security"} /\ x[2][2] \in job.pages[i].page.cookies \cap job.pages[i].page.insecure
          \/ x[2][1] = {"accessibility", "sustainability"} /\ x[2][2] \in job.pages[i].page.noAlt \cap job.pages[i].page.noLazy
    BY <2>4, InteractionsAreReal
  <2> QED  BY <2>3, <2>5 DEF RowOK, job, report, m
<1> QED  BY <1>1, Invariance, PTL

(* The exit code tells whether the last page of some address has what the  *)
(* threshold asks for.                                                     *)
THEOREM ExitCodesFollowTheReport == ScanSpec => []ExitCodeIsOfLastPages
<1>1. IInv => ExitCodeIsOfLastPages
  BY Zenon DEF IInv, CallOK, ExitOK, Blocked, Job, ExitCodeIsOfLastPages
<1> QED  BY <1>1, Invariance, PTL

-----------------------------------------------------------------------------
(* The cross-site axis.                                                    *)

(* The sites in whose row a rule of a domain was decided. *)
Decided(job, d, r) ==
  {i \in DOMAIN job.pages : \E j \in DOMAIN job.pages :
     /\ IsLast(job, j) /\ Decides(job, j, d, r) /\ job.pages[j].url = job.pages[i].url}

(* A page's row decides what the page's own findings decide. *)
LEMMA RowsDecide ==
  ASSUME NEW job, JobOK(job), NEW i \in DOMAIN job.pages, NEW row,
         RowOK(job, job.pages[i].page, row, {}), NEW d \in ToSet(job.domains), NEW r
  PROVE  (\E f \in row[d] : f.rule = r /\ f.decided) <=> Decides(job, i, d, r)
<1> DEFINE page == job.pages[i].page
<1>1. \A b \in ToSet(job.domains) : \A f \in row[b] : f.domain = b
  BY FindingsNameTheirDomain DEF RowOK
<1>2. \A f : f \in OwnFindings(job, page) <=> \E b \in ToSet(job.domains) : f \in row[b]
  BY RowsHoldOwnFindings
<1>3. Decides(job, i, d, r) <=>
        \E f \in OwnFindings(job, page) : f.domain = d /\ f.rule = r /\ f.decided
  BY DEF Decides
<1> HIDE DEF page
<1> QED  BY <1>1, <1>2, <1>3

(* The report splits the sites by that, for the rules decided somewhere.   *)
LEMMA SplitsAreTrue ==
  ASSUME NEW job, JobOK(job), NEW report, IsReport(job, report, {}),
         NEW d \in ToSet(job.domains)
  PROVE  /\ \A r : SplitSites(report.sites, d, r, report.grid) =
                     [domain |-> d, rule |-> r, failing |-> Decided(job, d, r),
                      passing |-> DOMAIN job.pages \ Decided(job, d, r)]
         /\ \A r : r \in DecidedRuleIds(report.sites, d, report.grid) <=> Decided(job, d, r) # {}
<1> DEFINE pages == job.pages
<1>1. DOMAIN report.sites = DOMAIN pages /\ \A i \in DOMAIN pages : report.sites[i] = pages[i].url
  BY DEF IsReport
<1>2. ASSUME NEW i \in DOMAIN pages, NEW r
      PROVE  Fails(report.grid, report.sites[i], d, r) <=> i \in Decided(job, d, r)
  <2>1. PICK j \in DOMAIN pages : IsLast(job, j) /\ pages[j].url = pages[i].url
    BY DEF IsReport
  <2>2. RowOK(job, pages[j].page, report.grid[pages[j].url], {})  BY <2>1, LastRow
  <2>3. (\E f \in report.grid[pages[j].url][d] : f.rule = r /\ f.decided) <=> Decides(job, j, d, r)
    BY <2>2, RowsDecide
  <2>4. Fails(report.grid, report.sites[i], d, r) <=> Decides(job, j, d, r)
    BY <1>1, <2>1, <2>3 DEF Fails, IsDecided
  <2>5. \A n \in DOMAIN pages : IsLast(job, n) /\ pages[n].url = pages[i].url => n = j
    BY <2>1, LastIsUnique
  <2>6. i \in Decided(job, d, r) <=>
          \E n \in DOMAIN pages : IsLast(job, n) /\ Decides(job, n, d, r) /\ pages[n].url = pages[i].url
    BY DEF Decided
  <2> QED  BY <2>1, <2>4, <2>5, <2>6
<1>3. \A r : Decided(job, d, r) \subseteq DOMAIN pages  BY DEF Decided
<1>4. \A r : /\ {i \in DOMAIN report.sites : Fails(report.grid, report.sites[i], d, r)} = Decided(job, d, r)
             /\ {i \in DOMAIN report.sites : ~Fails(report.grid, report.sites[i], d, r)}
                  = DOMAIN pages \ Decided(job, d, r)
  BY <1>1, <1>2, <1>3
<1>5. ToSet(report.sites) = {report.sites[i] : i \in DOMAIN pages}  BY <1>1 DEF ToSet
<1>6. \A r : r \in DecidedRuleIds(report.sites, d, report.grid) <=>
               \E i \in DOMAIN pages : Fails(report.grid, report.sites[i], d, r)
  BY <1>5 DEF DecidedRuleIds, Fails
<1>7. \A r : r \in DecidedRuleIds(report.sites, d, report.grid) <=> Decided(job, d, r) # {}
  BY <1>2, <1>3, <1>6
<1> QED  BY <1>4, <1>7 DEF SplitSites

(* What is systemic, what diverges, and which sites are named, is what the *)
(* last pages of the addresses decide by themselves; a finding that only   *)
(* needs review counts for nothing.                                        *)
THEOREM CrossSiteAxisIsTrue == ScanSpec => []CrossSiteIsTrue
<1>1. ASSUME IInv, NEW c \in Call \ mixed, call[c].report # NoReport
      PROVE  LET job == Job(c)
                 sites == DOMAIN job.pages
                 crossSite == call[c].report.crossSite
                 reported == crossSite.systemic \cup crossSite.divergence
             IN  /\ \A s \in reported : s.failing = Decided(job, s.domain, s.rule)
                 /\ \A s \in crossSite.systemic : Decided(job, s.domain, s.rule) = sites
                 /\ \A s \in crossSite.divergence : Decided(job, s.domain, s.rule) \notin {{}, sites}
                 /\ \A i \in {j \in sites : IsLast(job, j)} :
                      \A f \in {g \in OwnFindings(job, job.pages[i].page) : g.decided} :
                        Cardinality({s \in reported : s.domain = f.domain /\ s.rule = f.rule}) = 1
  <2> DEFINE job == Job(c)
             report == call[c].report
             Split(d, r) == [domain |-> d, rule |-> r, failing |-> Decided(job, d, r),
                             passing |-> DOMAIN job.pages \ Decided(job, d, r)]
             splits == UNION {{SplitSites(report.sites, d, r, report.grid) :
                                 r \in DecidedRuleIds(report.sites, d, report.grid)} :
                                d \in ToSet(report.domains)}
             systemic == report.crossSite.systemic
             divergence == report.crossSite.divergence
  <2>1. JobOK(job) /\ IsReport(job, report, {})
    BY <1>1 DEF IInv, CallOK, Shape, ReportOK, Job
  <2>2. /\ systemic = {s \in splits : s.passing = {}}
        /\ divergence = {s \in splits : s.passing # {} /\ s.failing # {}}
    BY <2>1 DEF IsReport, CrossSiteAxis
  <2>3. report.domains = job.domains  BY <2>1 DEF IsReport
  <2> HIDE DEF job, report
  <2>4. \A s : s \in splits <=>
          \E d \in ToSet(job.domains) : \E r : Decided(job, d, r) # {} /\ s = Split(d, r)
    <3>1. ASSUME NEW d \in ToSet(job.domains)
          PROVE  /\ \A r : SplitSites(report.sites, d, r, report.grid) = Split(d, r)
                 /\ \A r : r \in DecidedRuleIds(report.sites, d, report.grid)
                           <=> Decided(job, d, r) # {}
      BY <2>1, <3>1, SplitsAreTrue
    <3> DEFINE Rules(d) == DecidedRuleIds(report.sites, d, report.grid)
               Made(d, r) == SplitSites(report.sites, d, r, report.grid)
    <3>2. \A s : s \in splits <=> \E d \in ToSet(job.domains) : \E r \in Rules(d) : s = Made(d, r)
      <4> HIDE DEF Rules, Made
      <4>1. splits = UNION {{Made(d, r) : r \in Rules(d)} : d \in ToSet(job.domains)}
        BY <2>3 DEF Rules, Made
      <4> HIDE DEF splits
      <4> QED  BY <4>1
    <3> HIDE DEF Split, splits
    <3> QED  BY <3>1, <3>2
  <2> HIDE DEF splits, systemic, divergence
  <2>5. \A s \in splits : /\ s = Split(s.domain, s.rule)
                          /\ s.failing = Decided(job, s.domain, s.rule) /\ s.failing # {}
                          /\ s.passing = DOMAIN job.pages \ s.failing
    BY <2>4
  <2>6. \A d, r : Decided(job, d, r) \subseteq DOMAIN job.pages  BY DEF Decided
  <2>7. systemic \cup divergence = splits  BY <2>2, <2>5
  <2>8. ASSUME NEW i \in DOMAIN job.pages, IsLast(job, i),
               NEW f \in OwnFindings(job, job.pages[i].page), f.decided
        PROVE  Cardinality({s \in splits : s.domain = f.domain /\ s.rule = f.rule}) = 1
    <3>1. PICK d \in ToSet(job.domains) :
            f \in Evaluate(d, SharedWalker(job.pages[i].page, job.domains), job.pages[i].page.bridged)
      BY <2>8 DEF OwnFindings
    <3>2. f.domain = d  BY <2>1, <3>1, FindingsNameTheirDomain
    <3>3. i \in Decided(job, d, f.rule)  BY <2>8, <3>2 DEF Decided, Decides
    <3>4. Split(d, f.rule) \in splits  BY <2>4, <3>3
    <3>5. {s \in splits : s.domain = f.domain /\ s.rule = f.rule} = {Split(d, f.rule)}
      BY <2>5, <3>2, <3>4
    <3> QED  BY <3>5, FS_Singleton
  <2> USE DEF job, report, systemic, divergence
  <2>9. /\ \A s \in systemic \cup divergence : s.failing = Decided(job, s.domain, s.rule)
        /\ \A s \in systemic : Decided(job, s.domain, s.rule) = DOMAIN job.pages
        /\ \A s \in divergence : Decided(job, s.domain, s.rule) \notin {{}, DOMAIN job.pages}
    <3> HIDE DEF job, report, systemic, divergence
    <3>1. \A s \in systemic : s \in splits /\ s.passing = {}  BY <2>2
    <3>2. \A s \in divergence : s \in splits /\ s.passing # {}  BY <2>2
    <3> HIDE DEF Split
    <3>3. \A s \in splits : s.failing = Decided(job, s.domain, s.rule)  BY <2>5
    <3>4. \A s \in splits : s.failing \subseteq DOMAIN job.pages /\ s.failing # {}
      BY <2>5, <2>6
    <3>5. \A s \in splits : s.passing = {} <=> s.failing = DOMAIN job.pages
      BY <2>5, <3>4
    <3> QED  BY <2>7, <3>1, <3>2, <3>3, <3>4, <3>5
  <2> QED  BY <2>7, <2>8, <2>9
<1>2. IInv => CrossSiteIsTrue  BY <1>1, Zenon DEF CrossSiteIsTrue, Decided
<1> QED  BY <1>2, Invariance, PTL
=============================================================================

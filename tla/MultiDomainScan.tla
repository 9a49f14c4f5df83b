-------------------------- MODULE MultiDomainScan --------------------------
(***************************************************************************)
(* The multi-domain scan: runMultiDomainScan of core-engine with the       *)
(* shared walker, the cross-domain detector and four of the built-in       *)
(* domains, and its callers, the scan command and the test adapters, which *)
(* capture the pages first and turn the report into an exit code.  Several *)
(* calls may be under way in one process, with bridged modules in common.  *)
(* Two captures may have one address: the command takes its arguments as   *)
(* they come, and a local file is addressed by its name without the folder.*)
(*                                                                         *)
(* A page is what its capture holds that some rule reads: the images       *)
(* without a text and those loaded eagerly, what the rule library found,   *)
(* the cookies, the insecure ones, the banner, and what the analyzer       *)
(* bridged into a domain would find.  Of the document rules one per domain *)
(* that has some is kept.  A finding is a set member: its identity holds   *)
(* the rule and what it is about.                                          *)
(***************************************************************************)
EXTENDS Integers, FiniteSets, Functions, SequencesExt

CONSTANTS Call,   \* calls of the scan under way in one process
          Jobs,   \* what the calls may be made for: functions from Call
          Slot,   \* bridged modules, each with one slot for findings
          SlotOf, \* the bridged module in the domain list of a call
          NoReport

ASSUME SlotOfAssumption == SlotOf \in [Call -> Slot]

DomainId == {"accessibility", "sustainability", "privacy", "security", "bridged"}

(* A scan has a page, every id of its list is a domain, and the rule library *)
(* and a bridged analyzer report for their own domain.                       *)
JobOK(job) ==
  /\ job.pages \in Seq(Range(job.pages)) /\ job.pages # << >>
  /\ job.domains \in Seq(DomainId)
  /\ \A i \in DOMAIN job.pages :
       LET page == job.pages[i].page
       IN  /\ \A k \in DOMAIN page.library : page.library[k].domain = "accessibility"
           /\ \A f \in page.bridged : f.domain = "bridged"

ASSUME JobsAssumption == \A jobs \in Jobs : \A c \in Call : JobOK(jobs[c])

VARIABLES
  call, \* [Call -> [job, pc, snapshots, grid, interactions, report, exit]]
  slot, \* [Slot -> set of findings]: currentFindings of the bridge
  mixed \* calls whose bridged module another call used before they read it

scanVars == <<call, slot, mixed>>

Running == 0 - 1

-----------------------------------------------------------------------------
(* The shared pass and the domains.                                        *)

Feature(scope, join, domain) == [scope |-> scope, join |-> join, domain |-> domain]

Finding(domain, rule, on, severity, decided) ==
  [domain |-> domain, rule |-> rule, on |-> on, severity |-> severity, decided |-> decided]

(* What each domain's extractors record: on an element, which perElement    *)
(* meets in the one traversal, or on a cookie or the document.             *)
AccessibilityExtractors(page) == {Feature("element", e, "accessibility") : e \in page.noAlt}

SustainabilityExtractors(page) == {Feature("element", e, "sustainability") : e \in page.noLazy}

PrivacyExtractors(page) ==
  {Feature("cookie", k, "privacy") : k \in page.cookies}
  \cup IF page.cookies = {} \/ page.banner THEN {}
       ELSE {Feature("document", "no-banner", "privacy")}

SecurityExtractors(page) == {Feature("cookie", k, "security") : k \in page.insecure}

(* The features of the selected domains; the findings of the rule library  *)
(* travel on a document feature of accessibility.                          *)
SharedWalker(page, domains) ==
  [scoped  |-> {f \in AccessibilityExtractors(page) \cup SustainabilityExtractors(page)
                      \cup PrivacyExtractors(page) \cup SecurityExtractors(page) :
                  f.domain \in ToSet(domains)},
   library |-> IF Contains(domains, "accessibility") THEN page.library ELSE << >>]

On(features, scope, domain) ==
  {f.join : f \in {g \in features.scoped : g.scope = scope /\ g.domain = domain}}

(* The library first: if it has a word on image-alt, the outline has none. *)
(* What the library reports twice is kept once, as first reported.         *)
Accessibility(features) ==
  LET lib == features.library
      fallback == IF \E i \in DOMAIN lib : lib[i].rule = "image-alt" THEN {}
                  ELSE {Finding("accessibility", "image-alt", e, 3, TRUE) :
                          e \in On(features, "element", "accessibility")}
  IN  fallback \cup
      {lib[i] : i \in {k \in DOMAIN lib :
                         \A j \in 1..(k - 1) : <<lib[j].rule, lib[j].on>> # <<lib[k].rule, lib[k].on>>}}

Sustainability(features) ==
  {Finding("sustainability", "wsg-lazy-load", e, 1, TRUE) : e \in On(features, "element", "sustainability")}

Privacy(features) ==
  {Finding("privacy", "cookie-before-consent", k, 3, TRUE) : k \in On(features, "cookie", "privacy")}
  \cup {Finding("privacy", "no-banner", ":root", 3, TRUE) : k \in On(features, "document", "privacy")}

Security(features) ==
  {Finding("security", "insecure-cookie", k, 3, TRUE) : k \in On(features, "cookie", "security")}

Evaluate(domain, features, currentFindings) ==
  CASE domain = "accessibility"  -> Accessibility(features)
    [] domain = "sustainability" -> Sustainability(features)
    [] domain = "privacy"        -> Privacy(features)
    [] domain = "security"       -> Security(features)
    [] domain = "bridged"        -> currentFindings

(* Pairs of domains that the detector has a label for.  Its fitted boundary *)
(* is cleared by any two positive counts and so excludes no pair.           *)
KnownPairs == {<<{"accessibility", "sustainability"}, "element">>,
               <<{"privacy", "security"}, "cookie">>}

Detect(features) ==
  {<<{p[1].domain, p[2].domain}, p[1].join>> :
     p \in {q \in features.scoped \X features.scoped :
              /\ q[1].scope = q[2].scope /\ q[1].join = q[2].join
              /\ <<{q[1].domain, q[2].domain}, q[1].scope>> \in KnownPairs}}

-----------------------------------------------------------------------------
(* The report.                                                             *)

(* Mutant: a request to look counts as a failure. *)
IsDecided_Any(f) == TRUE

IsDecided(f) == f.decided

Fails(grid, site, domain, rule) == \E f \in grid[site][domain] : f.rule = rule /\ IsDecided(f)

DecidedRuleIds(sites, domain, grid) ==
  {f.rule : f \in {g \in UNION {grid[u][domain] : u \in ToSet(sites)} : IsDecided(g)}}

(* The lists of failing and of passing sites, as positions in sites. *)
SplitSites(sites, domain, rule, grid) ==
  [domain |-> domain, rule |-> rule,
   failing |-> {i \in DOMAIN sites : Fails(grid, sites[i], domain, rule)},
   passing |-> {i \in DOMAIN sites : ~Fails(grid, sites[i], domain, rule)}]

CrossSiteAxis(sites, domains, grid) ==
  LET splits == UNION {{SplitSites(sites, d, r, grid) : r \in DecidedRuleIds(sites, d, grid)} :
                         d \in ToSet(domains)}
  IN  [systemic   |-> {s \in splits : s.passing = {}},
       divergence |-> {s \in splits : s.passing # {} /\ s.failing # {}}]

(* Mutant: only what is above the threshold. *)
Blocks_Above(f, threshold) == f.severity > threshold

Blocks(f, threshold) == f.severity >= threshold

HasFindingsAtOrAbove(report, threshold) ==
  \E u \in ToSet(report.sites), d \in ToSet(report.domains) :
    \E f \in report.grid[u][d] : Blocks(f, threshold)

-----------------------------------------------------------------------------
(* A call.  A job is the pages with their addresses, the domains selected, *)
(* in order, and the threshold; severities count from minor, 1, upward.    *)

ScanInit ==
  /\ \E jobs \in Jobs :
       call = [c \in Call |-> [job |-> jobs[c], pc |-> "capture", snapshots |-> << >>,
                              grid |-> << >>, interactions |-> {}, report |-> NoReport,
                              exit |-> Running]]
  /\ slot = [s \in Slot |-> {}]
  /\ mixed = {}

Job(c) == call[c].job
Current(c) == Job(c).pages[Len(call[c].snapshots)].page
Site(c) == Job(c).pages[Len(call[c].snapshots)].url

Exit(c, code) == call' = [call EXCEPT ![c].pc = "done", ![c].exit = code]

(* Every page is captured before anything is scanned; no domain, no scan.  *)
Capture(c) ==
  /\ call[c].pc = "capture"
  /\ \/ Exit(c, 3)
     \/ Job(c).domains = << >> /\ Exit(c, 2)
     \/ Job(c).domains # << >> /\ call' = [call EXCEPT ![c].pc = "site"]
  /\ UNCHANGED <<slot, mixed>>

(* The walk of the next site begins with the applicability of the domains; *)
(* only the bridged one has such a hook, and it is awaited.                *)
BeginSite(c) ==
  /\ call[c].pc = "site"
  /\ LET n == Len(call[c].snapshots) + 1
     IN  call' = [call EXCEPT ![c].snapshots = Append(@, Job(c).pages[n]),
                              ![c].pc = IF Contains(Job(c).domains, "bridged")
                                        THEN "analyze" ELSE "evaluate"]
  /\ UNCHANGED <<slot, mixed>>

(* The calls that have yet to read what their own hook stored in a module. *)
Expecting(module) ==
  {c \in Call : /\ SlotOf[c] = module /\ call[c].pc = "evaluate"
                /\ Contains(Job(c).domains, "bridged")}

(* Mutant: the hooks of all sites are awaited together.                    *)
Analyze_AllSites(c) ==
  /\ call[c].pc = "analyze"
  /\ slot' = [slot EXCEPT ![SlotOf[c]] = Last(Job(c).pages).page.bridged]
  /\ mixed' = mixed \cup Expecting(SlotOf[c])
  /\ call' = [call EXCEPT ![c].pc = "evaluate"]

Analyze(c) ==
  /\ call[c].pc = "analyze"
  /\ \/ /\ slot' = [slot EXCEPT ![SlotOf[c]] = Current(c).bridged]
        /\ mixed' = mixed \cup Expecting(SlotOf[c])
        /\ call' = [call EXCEPT ![c].pc = "evaluate"]
     \/ Exit(c, 3) /\ UNCHANGED <<slot, mixed>>

(* From the end of the walk to the next one, without an await: every domain *)
(* evaluates, the site's row of the grid is set, the detector runs.         *)
EvaluateSite(c) ==
  /\ call[c].pc = "evaluate"
  /\ LET features == SharedWalker(Current(c), Job(c).domains)
         row == [d \in ToSet(Job(c).domains) |-> Evaluate(d, features, slot[SlotOf[c]])]
     IN  call' = [call EXCEPT
           ![c].grid = [u \in DOMAIN @ \cup {Site(c)} |-> IF u = Site(c) THEN row ELSE @[u]],
           ![c].interactions = @ \cup {<<Len(call[c].snapshots), i>> : i \in Detect(features)},
           ![c].pc = IF Len(call[c].snapshots) < Len(Job(c).pages) THEN "site" ELSE "assemble"]
  /\ UNCHANGED <<slot, mixed>>

Assemble(c) ==
  /\ call[c].pc = "assemble"
  /\ LET sites == [i \in DOMAIN Job(c).pages |-> Job(c).pages[i].url]
     IN  call' = [call EXCEPT
           ![c].report = [sites |-> sites, domains |-> Job(c).domains, grid |-> call[c].grid,
                          interactions |-> call[c].interactions,
                          crossSite |-> CrossSiteAxis(sites, Job(c).domains, call[c].grid)],
           ![c].pc = "emit"]
  /\ UNCHANGED <<slot, mixed>>

(* The report is written, which may fail, and only then judged. *)
Emit(c) ==
  /\ call[c].pc = "emit"
  /\ \/ Exit(c, 3)
     \/ Exit(c, IF HasFindingsAtOrAbove(call[c].report, Job(c).threshold) THEN 1 ELSE 0)
  /\ UNCHANGED <<slot, mixed>>

Step(c) == Capture(c) \/ BeginSite(c) \/ Analyze(c) \/ EvaluateSite(c) \/ Assemble(c) \/ Emit(c)

ScanNext == \E c \in Call : Step(c)

ScanSpec == ScanInit /\ [][ScanNext]_scanVars

-----------------------------------------------------------------------------

(* What a page has to be reported for, by itself. *)
OwnFindings(job, page) ==
  UNION {Evaluate(d, SharedWalker(page, job.domains), page.bridged) : d \in ToSet(job.domains)}

(* The grid has one row for an address: that of the last page captured there. *)
IsLast(job, i) == \A j \in DOMAIN job.pages : job.pages[j].url = job.pages[i].url => j <= i

Decides(job, i, domain, rule) ==
  \E f \in OwnFindings(job, job.pages[i].page) : f.domain = domain /\ f.rule = rule /\ f.decided

(* A report charges an address with what its last page has by itself, and  *)
(* nothing of another site.  What another call does at the same time shows *)
(* in the bridged domain alone, and there only if the two calls have a     *)
(* module in common and the other's hook came between this one's hook and  *)
(* its evaluation.  The two domains of an interaction both found something *)
(* to record on its page.                                                  *)
FindingsAreOfTheirSite ==
  \A c \in Call : call[c].report # NoReport =>
    LET job == Job(c) IN
    \A i \in DOMAIN job.pages :
      LET here == job.pages[i] IN
      /\ IsLast(job, i) =>
           \A d \in ToSet(job.domains) : d # "bridged" \/ c \notin mixed =>
             call[c].report.grid[here.url][d] =
               Evaluate(d, SharedWalker(here.page, job.domains), here.page.bridged)
      /\ \A x \in call[c].report.interactions : x[1] = i =>
           \/ x[2][1] = {"privacy", "security"} /\ x[2][2] \in here.page.cookies \cap here.page.insecure
           \/ x[2][1] = {"accessibility", "sustainability"} /\ x[2][2] \in here.page.noAlt \cap here.page.noLazy

(* Each rule that was decided on some row is reported once, as failing on  *)
(* exactly the sites in whose row it was decided: a systemic failure on all *)
(* of them, a divergence on some and not on others.                        *)
CrossSiteIsTrue ==
  \A c \in Call \ mixed : call[c].report # NoReport =>
    LET job == Job(c)
        sites == DOMAIN job.pages
        crossSite == call[c].report.crossSite
        reported == crossSite.systemic \cup crossSite.divergence
        Decided(d, r) == {i \in sites : \E j \in sites : /\ IsLast(job, j) /\ Decides(job, j, d, r)
                                                        /\ job.pages[j].url = job.pages[i].url}
    IN  /\ \A s \in reported : s.failing = Decided(s.domain, s.rule)
        /\ \A s \in crossSite.systemic : Decided(s.domain, s.rule) = sites
        /\ \A s \in crossSite.divergence : Decided(s.domain, s.rule) \notin {{}, sites}
        /\ \A i \in {j \in sites : IsLast(job, j)} :
             \A f \in {g \in OwnFindings(job, job.pages[i].page) : g.decided} :
               Cardinality({s \in reported : s.domain = f.domain /\ s.rule = f.rule}) = 1

(* The code 0 or 1 of a call tells whether the last page captured at some  *)
(* address has a finding at the threshold or above.                        *)
ExitCodeIsOfLastPages ==
  \A c \in Call \ mixed : call[c].exit \in {0, 1} =>
    (call[c].exit = 1 <=>
       \E i \in {j \in DOMAIN Job(c).pages : IsLast(Job(c), j)} :
         \E f \in OwnFindings(Job(c), Job(c).pages[i].page) : f.severity >= Job(c).threshold)

(* scan-multi-domain.ts:73 "Returns 0 (no findings), 1 (findings present)": *)
(* a command that ends with 0 captured no page with a finding at the       *)
(* threshold or above.  It fails: the second page of an address overwrites *)
(* what the first one was found to have.                                   *)
CleanExitMeansNoFindings ==
  \A c \in Call \ mixed : call[c].exit = 0 =>
    \A i \in DOMAIN Job(c).pages : \A f \in OwnFindings(Job(c), Job(c).pages[i].page) :
      f.severity < Job(c).threshold
=============================================================================

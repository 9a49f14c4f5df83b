# A TLA+ model of ariada

ariada is a pipeline for accessibility compliance: an engine scans pages and
runs analyzers over them, a hosted backend runs scans for visitors, findings are
gated in CI and turned into draft fix-PRs, and what was found is kept as signed,
hash-chained evidence. Most of the repository is thin: rules are predicates over
an element, renderers are functions from a report to a document, and some
seventeen hundred files of integrations translate one API into another. What can
go wrong between steps is concentrated in a handful of packages. This project
models those, checks them with TLC, and proves with TLAPS what they promise.

Paths below are relative to `src/packages/`.

## Inventory

### Components, their state and their operations

| Component | State | Operations | Hard behaviour |
|---|---|---|---|
| HAES ledger (`ariada-haes`: client, storage, attest, verify) | the entries, an index by id | `append` (read tail, build and sign, store), `getEntriesInRange`, `verifyChain` | several clients append with awaits in between; repeated requests; clocks that differ |
| HAES anchor (`ariada-haes/src/anchor.ts`) | none | Merkle root, inclusion proof, manifest | odd levels, proofs against an older root |
| Rate limiter (`scan-backend/src/rate-limit.ts`) | buckets in Redis | `checkScanRateLimit` over four layers | read and write without a lock; windows, expiry, rounding |
| Scan backend (`scan-backend/src/router.ts`) | tables scans, scan_events, scorecards; NATS | create a scan, take an event from the worker, badge, scorecard, events | handlers overlap, a handler fails half-way, posts repeat, messages are lost |
| Orchestrator (`core-engine`: orchestrator, element-iter, events) | listeners, replay, findings by domain, analyzers to dispose | one scan from first event to disposal | listeners that come, go and throw; analyzers settling in any order; errors everywhere |
| Finding clusters (`ariada-reverter-adapter/src/cluster.ts`) | none | `buildFindingClusters`, `buildBranchName` | caps and spans at the bound, findings without lines |
| Reverter (`ariada-reverter-adapter`: both handlers, ledger, GitHub client) | rate ledger; on GitHub branches, pull requests, comments | `check_run.completed`, `deployment_status` | overlapping webhooks, failing calls, lost answers, midnight, restart |
| Multi-domain scan (`core-engine/src/multi-domain-scan.ts`, the walker, the bridge for analyzers, four domains, the detector; `ariada-cli/src/subcommands/scan-multi-domain.ts`) | the report grid, one slot for findings per bridged module | capture, walk, evaluate, cross-site axis, exit code | a slot written before an await and read after it; the same address twice; calls that fail half-way |
| Diff gate (`ariada-diff-action/scripts/run-diff.sh`, `ariada-cli/src/commands/diff`, `ariada-diff-schema`, `ariada-diff-stub`) | the job's files | classify against a baseline, decide, judge | files an earlier step left; precedence of overrides, profile and tags |
| Blamer (`blamer-github-app`, `blamer-vercel-integration`, `blamer-api-client`) | check runs and comments on GitHub and Vercel | judge a head of a pull request, judge a deployment | the head moves; a call fails after the check was created; a sum at the threshold |
| Content policy (`ariada-content-policy`: evaluate, recursive, reverter) | one evaluation's budget and open levels; a baseline of spans | evaluate by patterns and by prompts, build the baseline, detect regressions | budgets that run out at any level, overlaps, retired rules |
| Badge cache, scorecard and events routes (`scan-backend`) | Redis cache | read-through badge | stale answer cached last |
| Event bus (`ariada-event-bus`) | subscriptions by durable name | publish, subscribe, close | the map changes while a publish iterates over it |
| Extension (`ariada-extension`) | one pending resolver per kind | message hand-over, sandbox bridge | a second request overwrites the first |
| Loop runner (`ariada-loop-runner`) | none | gate, attribute, plan a fix | a file read twice |

Everything else (rules, browser drivers, renderers, statement generator and
penalty estimator, MCP server, CLI, plugins, integrations, sites, release
scripts) is listed in `PROJECT.json` with the reason it is not modelled.

### How they interact

A visitor's `POST /api/scan` passes the rate limiter, inserts a row and publishes
a NATS message. A worker runs the orchestrator for it and posts every event to
`POST /api/scan/:id/event`, whose handler stores it, records the outcome and
issues a scorecard. In CI the findings of a scan go through the diff gate; its
failed check run is the webhook that sets off the reverter, which cuts the
findings into clusters and opens one draft pull request each. The evidence of a
scan or a gate goes to the HAES ledger, whose entries of a day are anchored. Beside
it the blamer judges the same pull requests by who wrote them, and the content
policy judges published texts.

### What makes each component correct

* Ledger: whatever the interleaving, the stored chain verifies, nothing is stored
  twice or rewritten, an acknowledged append is stored, a day that is over does not
  change, and a lone client is never refused.
* Anchor: every leaf has a proof, and a proof proves nothing else.
* Limiter: a bound on what a window admits while no write is lost, and a retry hint
  that can be relied on.
* Backend: a scan shows an outcome that was reported; an acknowledged completion has
  its scorecard; what is forwarded is recorded first.
* Orchestrator: listeners hear the locked order without gaps; the returned replay
  is whole; every analyzer is disposed of once; one failing analyzer costs only its
  own findings.
* Clusters: every finding that can be patched is in exactly one cluster, whose
  lines cover it.
* Reverter: a pull request has its commit, the ledger counts only real ones, the
  overshoot of the allowance is bounded, one comment per event, every cluster is
  accounted for.
* Multi-domain scan: a site is charged with its own page's findings, the cross-site
  axis says where a rule was decided, the exit code says what the report says.
* Diff gate: a finding that fails by itself is let through only by a decision of now and
  for another of its group, a failure has a culprit, a pass is published only when it
  was decided now.
* Blamer: a verdict is of a diff the pull request had since that head, a deployment
  is gated only on a report, every check concludes or a call has thrown.
* Content policy: what was not looked at is admitted, and what was removed is
  noticed when it comes back.

## The modules

`MC*` modules give constants for TLC; all others are the model.

* **EvidenceLog** is the promise of the evidence ledger: a list of records in time
  order, each identifier once, and an acknowledgement only for what is on the list.
* **HaesLedger** is the code. `entries` is `InMemoryStorage.entries`. A call of
  `HaesClient.append` goes through `ReadTail`, `RefuseKey`/`BuildEntry` and
  one of `StoreExisting`, `StoreRejected`, `StoreAppended`, which are the stretches
  between its awaits; `prev` and `built` are its local variables, `seen` is
  history. The wall clock may be set back. SHA-256 is taken to be collision-free:
  a hash is the list of contents it was computed over, so tampering with an
  entry and hash linking mean what they mean in the code. It implements
  `EvidenceLog` under the mapping that forgets hashes and keys.
* **MerkleAnchor** has the three loops of `anchor.ts` (root, path, walk along a path) as
  functions of the round they are in, and a day to which leaves are added while
  anchors are taken. A hash is the tuple of what was hashed, so that an entry hash,
  of one pre-image, is never the hash of a pair.
* **RateLimit** has one action per Redis call of `consume`: `Refuse` or `Count`
  after the `get`, and `Put`; `Tick` lets time pass, and Redis drop keys. `now` is read
  once, before four layers are awaited, as in the code. Any checks may overlap and take
  any time. `charges`, `view` and `disturbed` are history: who was charged under a key, who
  had been when a request read the bucket it is about to overwrite and whether
  that bucket was the one of its `now`, and the keys overwritten on a view that no
  longer held.
* **ScanEvents** holds the events that the engine emits and the backend accepts,
  and the locked order. It is shared by the two modules below and is the
  interface along which they compose.
* **ScanLifecycle** is what a visitor sees of a scan, and **ScanBackend** the code:
  `InsertScan` and `PublishScan` are the two awaits of `POST /api/scan`; a post of
  the worker goes through `PersistEvent`, `UpdateComplete`/`UpdateFailed`,
  `SelectScan`, `InsertScorecard`, `ForwardEvent`, and `HandlerFails` at any of
  them. `PublishScan` and `PublishFails` may each have sent the message or not. NATS and the
  worker are external, modelled from what the router relies on: publish may lose, and
  the worker posts again when it is not sure. A script is any list of events. The
  engine's own may end with both outcomes (it emits `scan_error` after a listener threw
  on `scan_complete`), and the router writes either over the other; so `ScanLifecycle`
  promises an outcome that was reported, and not that the first one stays.
* **Orchestrator** has one action for each stretch of `runOrchestration` and
  `runElementIteration`. `EmitThen` is `emit`: it goes on, or a listener throws,
  those behind it hear nothing, and the error goes to the catch block. Two
  listeners' order is the order they subscribed in.
* **FindingClusters** has no state: `BuildFindingClusters` is the function of
  `cluster.ts`, its loops as functions of the round with the loop's variables in a
  record, so that the break in the middle and the flush after it are there.
  **ClusterCall** is one call of it on any findings a scanner can report.
* **Reverter** extends it. `Deliveries` are the sets of webhooks of which one comes in
  a behaviour. Each handler is a record with its place (`pc`), the
  clusters left (`todo`) and its counters; one action per awaited call:
  `CheckLedger`, `GetFileContent`, `RequestFix`, `CreateBranch`, `ReadFileSha`,
  `CommitFile`, `OpenDraftPr`, `Increment`, `PostIssueComment`. A call may do its
  work and still fail. A branch is the list of clusters committed to it; a commit
  needs the file's present version. Both handlers are one module because they
  make the same calls; `handler-vercel` differs where `GitHubEvent` is tested: it
  stops when capped, never comments and counts nothing as limited.
* **MultiDomainScan** has several calls under way in one process. `Capture`,
  `BeginSite`, `Analyze`, `EvaluateSite`, `Assemble`, `Emit` are the stretches of a
  call between awaits. `slot` is the `currentFindings` in the closure of
  `analyzer-bridge.ts`, one for each bridged module, which calls may have in common;
  `mixed` is history, the calls whose module another call wrote to before they read it.
  The captures of a call may have one address. A page is what some rule
  of the modelled domains reads. The walk, the four domains, the detector and the
  cross-site axis are operators from a page to findings.
* **DiffGate** is the script with the two commands it runs: `Start`, `Classify`, `Gate`
  and `Verdict` are its stages, with `set -e` taken literally (a command that ends
  non-zero ends the step unless the script catches it), and the files as
  variables that an earlier step of the job may have left. `ClassifyStub` and
  `BuildGateDecision` are the algorithms.
* **Blamer** has both handlers; an action per awaited call, which may fail before or
  after its work. `Push` moves the head of the pull request at any time, so that
  the files a handler is given may be of a newer head than its check. `Verdicts` is
  nondeterministic only where several agents' shares add up to the
  threshold exactly: the code adds floating-point numbers. The service, which is
  external, is taken to answer with one result for each file it was sent.
* **ContentPolicy** evaluates one text twice and watches it a third time, `Edit`
  changing a line in between. `levels` is the stack of `runLevel` calls, each with
  its snippets and the next one; `CallLeaf`, `RefuseSnippet`, `Descend`, `Ascend`
  are what the loop does with a snippet. `Chunk` is the chunker, with its merging,
  cutting and overlap; a line is the number of its characters and the set of spans
  on it, which is all that the chunker, the patterns and the leaf look at. `stage`
  is the place in `evaluateContentAsync`, `unjudged` the prompts its loop has left.
  The evaluator may have a prefilter, as `createRulePackPrefilter` makes one of the
  patterns of some packs: it passes the snippets with a span of its own and no others,
  whatever the prompts are about.
* **MCEvidence**, **MCEngine**, **MCFixes** and **MCGates** put two models that belong
  together into one run: the ledger and the anchor, the two ways to scan, the reverter and
  the clusters it is given, the two gates. `part` says which of the two a behaviour is
  about; the other rests in one of its initial states.
* **HaesLedgerProofs**, **RateLimitProofs**, **ScanBackendProofs**,
  **OrchestratorProofs**, **MultiDomainScanProofs**, **ReverterProofs**,
  **GateProofs** and **BlamerProofs** hold the theorems: the first also those of the
  anchor, `ReverterProofs` also those of the clusters, and `GateProofs` those of both
  gates, of a diff and of a content.

Where the code filters a list and then looks at the rest, the model keeps the
elements at their positions: a bucket of the diff, a group of findings and the
files of a diff that have text are functions from positions, and what is counted (hunks by
an agent, pages that failed a rule) are sets of positions. Order and number are those
of the code.

## Runs

Passing runs:

| Run | Question | Bounds | States |
|---|---|---|---|
| `evidence` | Do the ledger's invariants and its promise hold under races, and does every append end? Do root, proof and manifest agree? | three calls, two keys, two ticks; days of up to seven leaves of two values | @evidence@ |
| `rate_limit` | What do fixed windows and the retry hint guarantee, with checks that overlap? | four requests of one address, two of them at a time, five half-second ticks | @rate_limit@ |
| `scan_backend` | Does the backend keep the lifecycle? | two scans, three posts, a script with both outcomes | @scan_backend@ |
| `engine` | Order, replay, disposal, isolation; does every scan end? Are findings, cross-site axis and exit code those of the pages? | three analyzers in two domains, one element, two listeners; one or two varied pages of one or two addresses, three lists of domains, another call beside it with the same module | @engine@ |
| `fixes` | What survives overlapping events and failures? Are findings partitioned and covered? | two events out of two check runs and a deployment delivered twice, an allowance of two, one midnight, one restart; up to three findings, two rules, two files, four lines | @fixes@ |
| `gates` | Does the diff gate stop what it must and nothing else? Is what was not evaluated admitted, and what was removed watched? | heads of up to two findings, bases of one, six policies and two broken ones, leftover files; texts of three lines out of five kinds, budgets of one and plenty, two levels, three profiles, with a prefilter and without | @gates@ |
| `blamer` | What is a verdict worth, and is every check concluded? | three heads, two pull request events, one deployment | @blamer@ |

Runs that end in a violation, each a disagreement of the code with what the repository
says of it:

| Run | Property | What it shows |
|---|---|---|
| `rate_limit_burst` | `BurstIsHeld` | checks of one address that overlap both read the bucket before either writes it back (`scan-backend/src/rate-limit.ts:49`), and a burst window of limit 1 admits two; `tests/rate-limit.test.ts:24` has it refuse the second of two in a row |
| `multi_domain_exit` | `CleanExitMeansNoFindings` | of two captures with one address the second overwrites the first in the grid (`core-engine/src/multi-domain-scan.ts:66`), and the command ends with 0 after the first had a finding at the threshold; `scan-multi-domain.ts:73` says 0 is for no findings. The command takes its arguments as they come, and two local files of one name have one address |
| `diff_gate_mixed` | `DefiniteViolationsAreGated` | the findings of one severity are judged together under the union of their jurisdictions, and the first tag with a rule wins (`ariada-diff-schema/src/gate-decision.ts:216`, `baseline-policy.ts:216`): a critical finding that the defaults fail is let through with a warning once another one has a jurisdiction with a laxer override; the action's `README.md:74` says definite violations are gated by severity |
| `blamer_tie` | `FailsOnlyAboveThreshold` | the shares of two agents are added in floating point (`blamer-api-client/src/client.ts:179`): 0.2 and 0.4 make 0.6000000000000001, which fails a check whose threshold is 0.6; line 175 says "exceeds", `blamer-github-app/src/types.ts:24` "above which" |
| `content_policy_lines` | `FindingsAreOnTheirLines` | blocks are merged without the blank lines between them (`ariada-content-policy/src/recursive.ts:304`), so that a finding behind the gap is given a line too early, though lines are said to be mapped back to the document |

What the code does guarantee in these places is a property of a passing run:
`LessThanTwiceTheLimit`, `ExitCodeIsOfLastPages`, `FailingFindingBlocks` and
`VerdictIsOfADiffSince`.

Disagreements met while modelling that the models exhibit but that have no run of
their own:

* `ariada-haes/src/storage.ts:76` returns a range in the order of storage; lines 11-12
  promise the order of `entry_id`. Two identifiers of one millisecond may sort
  the other way. Nothing that is modelled relies on the promised order.
* `scan-backend/src/rate-limit.ts:53` starts a fixed window at a request; the file
  calls itself a sliding-window limiter. What a key whose writes are not lost does
  admit in any stretch as long as the window is `LessThanTwiceTheLimit`.
* `scan-backend/src/router.ts:180` numbers events without a sequence number 0, and
  the insert ignores conflicts: of a scan's start, first element and end only one
  row is kept of what line 179 persists "for replay/debug".
* `core-engine/src/orchestrator.ts:124` emits `scan_complete` inside the `try`, so a
  listener that throws on it makes `scan_error` follow for those before it, against
  the locked sequence of line 25. `HeardInOrder` says what does hold. The backend then
  turns the complete scan into a failed one (`scan-backend/src/router.ts:217`), though its
  scorecard stands.
* `core-engine/src/analyzer-bridge.ts:33-35`: a bridged module has one slot for
  findings, so that of two calls under way that share a module one may be given the
  other's findings. No caller in the repository runs two at a time; the model
  lets them, and the properties of the bridged domain speak of calls that are not `mixed`.
* `core-engine/src/multi-domain-scan.ts`: the detector's fitted boundary excludes no
  pair of positive counts; domains that are not applicable count as passing in the
  cross-site axis.
* `ariada-reverter-adapter/src/cluster.ts:101` merges while last minus first line is at
  most the bound, so that a block may hold one line more than line 7 says.
* `ariada-reverter-adapter/src/cluster.ts:110`: at the cap the cluster just pushed is
  flushed again, so the last cluster is returned twice and the list is one longer
  than line 40 allows.
* `ariada-reverter-adapter/src/cluster.ts:136`: a branch is named for its rule and
  commit, so two clusters of one rule share one (line 34 has one PR each). The
  second has no pull request of its own, and its commit puts back what the
  first changed when they share the file.
* `ariada-reverter-adapter/src/handler-github.ts:66` reads the ledger before five awaited
  calls and counts after them: overlapping check runs may pass the daily cap, by
  as much as `OvershootIsBounded` says.
* `ariada-diff-action/scripts/run-diff.sh:34` warns that a missing policy file means the
  defaults; line 72 passes the name on and the command fails. Further: on a real
  failure the script leaves at its check of the command's code, before outputs are
  written, so that its branch for `fail` is never taken; and a comment in `gate.ts:59`
  names a flag the command lacks.
* `blamer-api-client/src/client.ts:176` speaks of a fraction of lines where hunks, one per
  file, are counted. In `blamer-github-app`, `enableThresholdBlock` is read by the deployment handler
  only; of the files of a pull request only the first page is asked for; an
  answer of the service without `results` throws, which leaves the check queued.
* `ariada-content-policy/src/recursive.ts:668-669` says that a wrapped evaluator's
  exhaustion reaches the decision; what it wraps has no `evaluateWithBudget`, so it
  does not. If only a deeper level was refused, the unevaluated part is reported
  from the last root snippet on (lines 623-630), less than what was skipped.
  A prefilter built from packs without patterns skips every snippet, and one built from
  any packs skips those that only a prompt is about, with nothing in the decision to
  say so: `MissesAreAdmitted` owes the spans that the prefilter knows.
* `ariada-content-policy/src/reverter.ts:60` takes a span that the second evaluation
  did not look for (its rule retired, its budget spent) for one that was removed;
  line 7 speaks of spans the new version no longer has.

### Why the bounds are enough

* Ledger: a race needs two calls, a third lets one lose twice or repeat an
  identifier while the others race; two ticks give two days. The theorems below
  have no bound.
* Anchor: seven leaves have a promoted node on the first level, on the second and on
  both.
* Limiter: windows are scaled but keep their order; within five ticks every layer
  refuses someone and the first two can admit twice their limit, less one; a
  second is two ticks, so that the retry hint is rounded. Two checks in flight are
  enough to lose a write, and one of them may outlast a bucket. The theorems have no bound.
* Backend: three posts are an outcome, the other one and a repetition, or two scans that
  overlap. Any event of a script may fail to be delivered, so that the longest
  script stands for the shorter ones. The theorems have no bound.
* Orchestrator: two analyzers share a domain and one is alone; one listener throws,
  one does not, and they may come in either order around the replay.
* Multi-domain scan: the cross-site axis tells none, some and all of the pages apart,
  for which two pages are enough; the pages have every combination of what the
  accessibility rules read, undecided and repeated findings among them, and their
  addresses differ or not. The other call runs between any two steps of the first, with
  the same bridged module.
* Clusters: with spans bounded by two lines in files of four, a finding may fit,
  touch the bound, exceed it, lie inside another, or lack its lines or file.
* Reverter: a check run with one cluster more than the allowance, another with two, on
  one commit each; a check run and a deployment of the same commit, which share
  branches; the deployment twice, because one delivery alone never meets its own
  cap. The restart and the midnight may fall anywhere. The bound on the overshoot
  is proved for any numbers.
* Diff gate: groups form from two findings; policies have stricter, laxer and missing
  rules, in the tags' order and against it.
* Blamer: one head where two agents' shares of 0.2 and 0.4 add up to the threshold, one
  above it, one without text; both events of the pull request may be judged on the third.
* Content policy: three lines make blocks that merge, that are cut, that overlap, and
  a second level; budgets run out at the root and below; the prefilter knows one of the
  two spans that prompts are about.

Deadlock is not checked: every module's actors stop when their calls are over.

### Fairness

Liveness is asked only for what the event loop carries on by itself, and fairness
is weak. A promise that is awaited settles, so a call that has begun goes
on (`Proceed` of the ledger and the orchestrator; in `Blamer`, `Handle` of an event
that was received, where a call may settle with an error). Nothing is assumed of
callers: requests need not come, listeners need not leave, the clock need not
move, nobody need push. `EveryCheckConcludes` allows for a call that throws, as
it must: nothing in the code concludes the check then. The reverter has no
liveness property: its `fetch` calls have no timeout, so its progress is GitHub's.

## Proofs

### The ledger

`HaesLedgerProofs` proves, for every number of calls, keys, payloads and ticks,
from `ConstantsAssumption` and `InputsAssumption` alone:

* `TypeCorrect`, `ChainAlwaysVerifies`, `IdsAreUnique`: the invariants `TypeOK`,
  `ChainVerifies`, `OneEntryPerId`;
* `NothingIsRewritten`, `DaysAreSealed`, `LosersLostARace`: the action properties
  `AppendOnly`, `DaySealedByLaterEntry`, `RejectedOnlyWhenOvertaken`;
* `Refinement`: the ledger implements `EvidenceLog`.

`verifyChain` is a statement about the list, and no step preserves it by itself:
one must know what a call holds between its awaits. So `IInv` adds
`Linked` (every stored entry is sealed and names the hash of the one before it),
`BuiltSealed` (an entry is sealed from the moment it is built), `InTimeOrder`,
`TailWasRead` (what a call took for the tail was the tail when `seen` entries
were stored, and what it built hangs on that), `StoredByACall` and `AckedInLog`.
The interesting case is `StoreAppended`: the backend's comparison of `prev_hash`
with the last hash makes the built entry a right continuation although others may
have written since the tail was read. `LosersLostARace` follows from `TailWasRead`:
if nothing had been stored since, `prev` would be the present last hash. The
refinement has a lemma for the step that appends, one for the confirmation
of an existing entry, and one for the steps that callers of the list cannot see.

### The scan backend

`ScanBackendProofs` proves, for any sets of scans, posts and scripts:

* `CompleteHasScorecard`, `RecordedBeforeForwarded`: the invariants
  `AckedCompleteHasScorecard` and `ForwardedAfterRecorded`;
* `Refinement`: the backend implements `ScanLifecycle`.

Of scripts it assumes only that they are lists of events. What must be known besides
the two invariants is that a scan that has ended stays so, though another post
may set its row to the other status: `EndsAsReported` (a row has ended only in a way
that the worker has posted) and `PostsOfTaken` (only a scan that was queued, and so has
its row, is posted about). `Staged` ties the place of each handler to what it has
written so far, `InOrder` the stages of a request, its row and its message, and
`SlugsAreDrawn` makes a new scorecard differ from those there are, for the refinement.

### The reverter's allowance

`ReverterProofs` proves `Overshoot`, that is `OvershootIsBounded`, for any number of
events, installations, days and restarts, from `ReverterAssumption`. The bound is
not inductive: from a ledger just below it one must know how many handlers have
passed the check and will still count. `TodayIsBounded` adds those in flight to
today's count. A handler that passes the check has read a count below the
allowance, and at most all the installation's events can then be in flight
(`CheckPreserves`); an increment takes one out of flight (`IncrementPreserves`);
at midnight the new day's count is 0, whoever is in flight, for which
`FutureIsEmpty` is needed; a restart empties the ledger. All other steps count
nothing and put nobody in flight (`Keeps`).

### More of the ledger and of the reverter

`AcksAreHonest` (`AckedIsStored`) needs to know where an entry that a call holds comes
from. `Provenance` has three parts: what was built is the caller's own request; an identifier that a client drew is met in
another call's entry only if somebody asked for it by name, since it was new when
drawn; and what a call was given back is its own or under an identifier somebody
asked for. `LossesAreDetected` (`LossIsDetected`) is about lists: any entries picked from the
stored ones verify only if they are a prefix, since each entry names the hash of
the one before it; and a stored entry with another payload no longer has
its hash. The first position where the picked list departs from the prefix is
found by minimality (`WFMin` on the naturals), which is how these proofs do
without induction.

`LedgerIsBacked` (`LedgerCountsRealPrs`): `Counts` adds to what is counted, of the present
process, the handlers that have opened a pull request and are about to count it; together they
are no more than the pull requests there are, so that neither an answer lost after
the work nor a restart makes the ledger count too many. `PrsAreCommitted`
(`PrHasItsCommit`): `Commits` has the commit on the branch from `CommitFile` on, and a
branch only grows (`Grow`), whoever else commits to it. `ClustersAreAccounted`
(`EveryClusterAccounted`): `Books` keeps, at every place of a handler, the sum of clusters
opened, limited, skipped and left equal to the number it began with, and ties the
comment to the count of limited ones. That the
clusters of an event are a list is a lemma of the clusters' proofs (`ClustersAreASequence`).

### The anchor

`HaesLedgerProofs` proves `EveryProofVerifies` (`EveryLeafIsProvable`), `ProofsBindTheirLeaf`
(`ProofBindsItsLeaf`), `EarlierProofsAreRefused` (`OldProofsAreRefused`) and
`ManifestsBindTheirLeaves` (`ManifestBindsLeaves`), for any set of pre-images and any number
of leaves. The first says that the loop for the path and the loop for the root promote the
same nodes: at every round, walking the path made so far leads from the leaf to the
node the loop is at. The second that each step of a walk can be taken back. The last two rest on `RootBindsLeaves`: two lists
with one root are one list. The root may be that of lists of different lengths, so the
proof goes down from it: a node `k` levels up has a height of at most `k`, and of exactly `k` unless
it is the last of its level (`NodesHaveAHeight`), so that the shorter tree would have an entry hash where the
other has a pair.

### The clusters

`ReverterProofs` proves `FindingsArePlaced` (`EachFindingInOneCluster`) and `ClustersCover`
(`ClusterCoversItsFindings`), for any findings and bounds. `Listing` is shown to be a
permutation of its set for any strict total order, and the two orders the code sorts by to
be such; then a round of `BlockLoop` keeps every finding taken so far in exactly one place, of a
cluster or of the open block, and the block's lines around those of its members. The loop over the groups adds
one group's clusters to those before. At the cap the list is full, and the first
property speaks of shorter lists only.

### The rate limiter

`RateLimitProofs` proves `WindowsHold` (`LessThanTwiceTheLimit`), `BucketsCount`
(`BucketCountsItsCharges`) and `HintsAreHonest` (`RetryAfterIsHonest`) for any limits, windows,
addresses, targets and number of requests, however many checks overlap and however long
they take, from `ConstantsAssumption` alone. The first two speak of the keys that are
not `disturbed`: every write so far rested on a view that still held, that is, nobody
else was charged between the read and the write, and the read came before Redis dropped the
bucket. That this cannot be left out is the run `rate_limit_burst`; what
the theorems say is that nothing else can spoil the count, neither the end of a
window, nor the time to live, nor a check of another key or of the same one that
overlaps only at other layers. The mutant `Put_NoMargin` shows what the margin in the time to
live is there for. The third speaks of every key.

`StartedAt` is the heart of it: each key has a time at which its last bucket was
started, the charges since then are as many as the bucket says, and in any
window that began before, what had been charged by then stayed below the
limit; and whoever is about to write on a view that holds counts one more in that
bucket or starts the next (`WritesOn`). A window of the promise meets at most two
buckets, the tail of one and the head of the next, hence twice the limit less one.
`RetryOK` says that the bucket that refused a request is gone or runs out in time unless
somebody was charged, and `RoundedUp` that the hint is not rounded below its end.

### The orchestrator

`OrchestratorProofs` proves `TypeCorrect`, `ListenersHearInOrder` (`HeardInOrder`), `ReplayIsWhole`
(`ReturnedReplayIsWhole`), `EachDisposedOnce` (`DisposedExactlyOnce`) and `FailuresAreIsolated`
(`FailureIsIsolated`), for any analyzers, domains, elements and listeners. `HeardOK` says of each
who listens from the start that it heard the events emitted up to now (`Emitted`, a function of the
place in the code and the element it is at), that the replay is never
behind, and that after an error one `scan_error` follows. `DisposalOK`: once
disposal has begun, an analyzer has been disposed of once or is still to be.
`ListeningOK`: the replay listens from the first event until disposal. `SettledOK`: the
findings of a domain that has one analyzer are by that analyzer as soon as it has
settled, in whatever way.

### The multi-domain scan

`MultiDomainScanProofs` proves `SitesAreChargedFairly` (`FindingsAreOfTheirSite`),
`CrossSiteAxisIsTrue` (`CrossSiteIsTrue`) and `ExitCodesFollowTheReport`
(`ExitCodeIsOfLastPages`) for any number of calls, pages and domains, whatever the addresses
of the pages and whichever modules the calls share. `JobsAssumption` says that a
module's findings carry its own domain, as the domains' code does. The last two, and what
the first says of the bridged domain, are of calls that are not `mixed`: a
call that is may be given another's findings, as stated above. An address is
charged with its last page, since the grid has one row for it; that the exit code may
therefore be too good is the run `multi_domain_exit`.

`CallOK` is said of each call, the slot of its module and whether the call is mixed: the rows
of the grid are, up to the site it is at, what each domain finds on the last page of that
address (`GridOK`), the interactions those the detector finds
in the row (`InteractionsOK`), and between `Analyze` and `EvaluateSite` the slot
holds this page's findings or the call is mixed (`SlotOK`), although it was written before an
await. From the finished grid, which is a function of the job, report and exit code follow
(`ReportOK`, `ExitOK`).

### The diff gate

`GateProofs` proves `FailingFindingsBlock` (`FailingFindingBlocks`), `FailsHaveACulprit`
(`FailHasACulprit`) and `PassesAreEarned` (`PassIsEarned`) for any number of findings and for every
policy. Of the inputs it only assumes that scans are lists; the code's validation of a
policy does not look at the rules, and neither do the proofs. A misspelt action counts as
neither failing nor warning, which is why `PassIsEarned` does not say `info`.

The invariant of the script (`Ended`) says that an exit with 0 on two scans, an exit with 1 on a
failure and a published pass each have a decision of this job behind them. The rest
is about the decision: a group is given what the first of its members with a
tag that has a rule would be given alone, or what all would be given if none has
(`RuleForGroup`), so some member deserves it (`GroupsAreLikeAMember`), and a finding that is
spared what it would be given alone is spared for another of its group that has an
override (`OthersSpare`, `SparedForAnother`). It cannot be proved that none is spared: that is
the run `diff_gate_mixed`. That `Min` finds that first member is again
`WFMin`.

### The content gate

`GateProofs` proves `MissesAdmitted` (`MissesAreAdmitted`) and `RemovedAreWatched`
(`RemovedSpansAreWatched`), for every text, profile and rule pack, every budget, depth, overlap and size of a
snippet. `PolicyAssumption` has what the code relies on: the id of a rule names one rule
(`resolveRules` keeps the first), a blank line has no span, and at least one line
overlaps. Nothing is assumed of a prefilter: with one, what is owed of a prompt are the spans it
knows (`Asked`).

The chunker loses nothing: `Chunked` says that the snippets of a text have the
spans of its lines, no more and no fewer, whatever is merged, cut or put before them. It is put together
from one lemma for each loop (`BlocksExtracted`, `BlockSplit`, `BlocksMerged`, `OverlapAdded`). On
that stands `PolicyInv`: while a prompt is judged, each span it is about has been heard,
is allowed to be missing because a call was refused, or is in a snippet still to come on some open level.
Going down moves the spans of one snippet to a level of its own, going up leaves a level that has
nothing to come, and the refusal of a snippet at any depth sets what
`LeavesContent` looks at. The mutant that looks at the root only is what TLC finds to fail.

### Loops

What a loop computes is claimed of every round of a recursive function. The library's induction
takes an operator for the claim, so a claim is made of the numbers of the
rounds at which it holds: `Least` gives the first round at which it does not (by `WFMin`), and
that round follows from the one before. `EveryRound` and `LoopsEnd` in
`GateProofs` state it once for sets of rounds, and `LoopAdds` and `Accumulated` for loops that collect
something. The anchor and the clusters argue in the same way.

### The blamer

`BlamerProofs` proves `VerdictsAreOfADiffSince` (`VerdictIsOfADiffSince`) and `GatesRestOnReports`
(`GateRestsOnAReport`), for any heads, agents and events. The invariant follows a handler: the files it
holds were those of some head since the one it was called for (`DiffSince`, which a push can only
extend), its answer is the verdict on them (`JudgedAs`), and a check run, a comment or
a check of a deployment says what the answer says (`CheckRunOK`, `GateOK`).

### Only model-checked

Every invariant and every action property of a passing run is a theorem, and so are both
refinements. Three properties are not: `EveryCheckConcludes`, `AppendReturns` and `ScanEnds` are liveness, which needs
fairness and ENABLED; the prover handles neither. The runs that end in a violation are
counterexamples of TLC. Of keys that are `disturbed` and of the bridged domain of calls that
are `mixed` nothing is claimed; there the code does not keep the promise.

## Not modelled

Signatures and hashes are ideal. The parsing and formatting of times and
identifiers is left out, and with it the comparison of timestamps as text.
Turnstile, robots.txt, authentication and validation are requests that do not
arrive. Bodies of pull requests, the application of a diff to a text
(`applyDiffToContent`) and truncation of branch names are abstracted: two rules
whose shortened names agree would share a branch as two clusters of one rule do.
Merging or closing of a fix-PR by its reader is not a step.

* The badge route reads through a cache of a day. Two readers around a new scorecard
  can leave the older answer in it, but without any race the badge may be as old,
  and no document promises less. The scorecard route reads, the events and
  cross-sell routes count and forward.
* The event bus and the extension's sandbox bridge have no user in the repository
  but their tests, so that nothing fixes what they owe when subscriptions change
  during a publish or requests overlap. As they are, a subscription closed twice
  deletes its successor of the same name (`ariada-event-bus/src/index.ts:69`), a handler
  that throws hides the event from those behind it (line 58), and a second
  `visitElement` before an answer leaves the first pending for ever
  (`ariada-extension/src/lib/sandbox-bridge.ts:96`).
* The loop runner calls other components in a row for each file and keeps nothing. It
  reads the file again after the gate has (`ariada-loop-runner/src/index.ts:60`), so that
  an edit in between attributes a finding to other lines.
* A rate-limited request refused by a later layer has been charged to the earlier ones
  (modelled, and the code's choice); two scans that share an emitter would hear each
  other (no caller shares one).
* The wrapper `wrapForEvaluateContentAsync` of the content policy is used by its tests
  only; what differs from its documentation is stated above. Without a recursive
  evaluator, `evaluateContentAsync` asks one function of the host about the whole text, or
  lists every prompt as unevaluated (`evaluate.ts:238-241`); these branches have no state and
  no budget and are left out.
* An answer of the blame service with fewer results than files
  (`blamer-api-client/src/client.ts:137`): the shares would then be of the results it
  has, and nothing in the repository says what a short answer would mean.
* Of the diff gate: path overrides, which the command never gives a path for,
  exemptions, which only the canonical engine fills in, and the comment.
* Of the domains: the rules other than those on images, cookies and the banner, which
  are predicates over a page. The same holds of the rule packages.
* Browser drivers keep their state in the page. Renderers, generators and estimators
  are functions from a report to a document. The MCP server, the CLI, plugins,
  adapters and integrations translate; sites, dashboards and release scripts
  present or are run by hand. They are most of the repository's lines.

## Plan

Done: every component above but those under "Not modelled", with proofs of every safety
property that a run checks.

What could follow:

1. An abstract specification of the allowance (a day's count, with events that reserve and settle) that
   `Reverter` implements, and one of a gate without groups that `DiffGate` implements.
2. The lines of the content gate: under which texts (no blank lines inside a snippet) they are right.

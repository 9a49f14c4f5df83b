---------------------------- MODULE ContentPolicy ----------------------------
(***************************************************************************)
(* The content gate of a published surface (ariada-content-policy): each   *)
(* version of a text is evaluated against a profile, the patterns of its   *)
(* rules line by line and its prompts by a recursive evaluator that cuts   *)
(* the text into snippets and may ask a model for only so many of them;    *)
(* what two evaluations show to have been removed becomes a baseline, and  *)
(* a later text is searched for it again.                                  *)
(*                                                                         *)
(* A line is the number of its characters and the set of forbidden spans   *)
(* on it; a blank line has none.  A pattern and a prompt are the spans     *)
(* they are about, and the model behind the evaluator (the leaf) finds     *)
(* those on every line it is given, or throws.                             *)
(***************************************************************************)
EXTENDS Integers, Sequences, FiniteSets, SequencesExt, FiniteSetsExt

CONSTANTS Packs,        \* the rule packs: a sequence of rules for each pack
          Profiles,     \* the profiles a version may be evaluated against
          Docs,         \* the first versions of the text
          Lines,        \* the lines an edit may write
          Budgets,      \* maxLeafCalls
          Prefilters,   \* the spans whose patterns let a snippet pass, or NoPrefilter
          NoPrefilter,
          MaxLeafChars, MaxDepth, OverlapLines

(* The lines the text may have. *)
Text == Lines \cup UNION {ToSet(d) : d \in Docs}
Rules == UNION {ToSet(Packs[p]) : p \in DOMAIN Packs}

(* The id of a rule, composed of its pack's and its own, names no other: of *)
(* two rules of a pack under one id the second would never be used.         *)
ASSUME PolicyAssumption ==
  /\ Budgets \subseteq Nat /\ MaxDepth \in Nat \ {0} /\ OverlapLines \in Nat \ {0}
  /\ \A d \in Docs : d \in Seq(ToSet(d))
  /\ \A l \in Text : l.size = 0 => l.spans = {}
  /\ \A p \in DOMAIN Packs : Packs[p] \in Seq(ToSet(Packs[p]))
  /\ \A p \in Profiles : p.packs \in Seq(ToSet(p.packs))
  /\ \A r, s \in Rules : r.id = s.id => r = s

VARIABLES doc,         \* the text as it is now
          stage,       \* "write", "rules", "level", "stopped" or "watched"
          profile,     \* the profile of the evaluation
          options,     \* of the evaluator: its budget and its prefilter
          unjudged,    \* the rules whose prompt is not judged yet
          levels,      \* the calls of runLevel that are open, the root first
          budget,      \* of the rule: calls left, any level refused, the root's first refused
          hits,        \* of the rule: the spans heard, each with its line
          findings, unevaluated, \* of the evaluation
          decisions,   \* of the versions evaluated so far
          regressions  \* what the last text brought back

evaluation == <<profile, options, unjudged, levels, budget, hits, findings, unevaluated>>
policyVars == <<doc, stage, evaluation, decisions, regressions>>

NoProfile == [packs |-> << >>, allow |-> {}]
NotRefused == 0
FreshBudget == [left |-> options.calls, exhausted |-> FALSE, start |-> NotRefused]

-----------------------------------------------------------------------------
(* The rules of a profile.  A pack that is missing contributes nothing, and *)
(* one that is named twice contributes once.                                *)

AddRule(rules, r) ==
  IF \E i \in DOMAIN rules : rules[i].id = r.id THEN rules ELSE Append(rules, r)

AddPack(rules, pack) ==
  LET added[i \in 0..Len(pack)] ==
        IF i = 0 THEN rules ELSE AddRule(added[i - 1], pack[i])
  IN  added[Len(pack)]

ResolveRules(p) ==
  LET resolved[k \in 0..Len(p.packs)] ==
        IF k = 0 THEN << >>
        ELSE IF p.packs[k] \notin DOMAIN Packs THEN resolved[k - 1]
        ELSE AddPack(resolved[k - 1], Packs[p.packs[k]])
  IN  resolved[Len(p.packs)]

(* The rules of a sequence that have a prompt. *)
Prompted(rules) ==
  LET kept[i \in 0..Len(rules)] ==
        IF i = 0 THEN << >>
        ELSE IF rules[i].prompt = {} THEN kept[i - 1] ELSE Append(kept[i - 1], rules[i])
  IN  kept[Len(rules)]

FindingOf(rule, span, line) ==
  [rule |-> rule.id, action |-> rule.action, span |-> span, line |-> line]
ContentFingerprint(f) == <<f.rule, f.span>>

(* What the patterns find, line by line; the allow-list wins. *)
EvaluateContent(p) ==
  UNION {{FindingOf(r, s, i) : s \in (doc[i].spans \cap r.patterns) \ p.allow} :
           r \in ToSet(ResolveRules(p)), i \in DOMAIN doc}

(* The decision on a version: fail dominates warn. *)
Aggregate ==
  [doc |-> doc, profile |-> profile, findings |-> findings, unevaluated |-> unevaluated,
   result |-> IF \E f \in findings : f.action = "fail" THEN "fail"
              ELSE IF \E f \in findings : f.action = "warn" THEN "warn" ELSE "pass"]

-----------------------------------------------------------------------------
(* The chunker: blocks between blank lines, merged while they fit and cut   *)
(* where they do not, and two lines of overlap before each but the first.   *)

TextLength(lines) == FoldLeft(LAMBDA n, l : n + l.size, Len(lines) - 1, lines)
Snippet(lines, offset) == [lines |-> lines, offset |-> offset]

(* A loop of the chunker has put out some snippets and has one open. *)
Reopen(out, offset) == [out |-> out, open |-> Snippet(<< >>, offset)]
PutOut(s) == IF s.open.lines = << >> THEN s.out ELSE Append(s.out, s.open)

ReadLine(s, line, i) ==
  IF line.size = 0 THEN Reopen(PutOut(s), i) ELSE [s EXCEPT !.open.lines = Append(@, line)]

ExtractBlocks(lines) ==
  LET read[i \in 0..Len(lines)] ==
        IF i = 0 THEN Reopen(<< >>, 0) ELSE ReadLine(read[i - 1], lines[i], i)
  IN  PutOut(read[Len(lines)])

Take(s, line) ==
  LET taken == Snippet(Append(s.open.lines, line), s.open.offset)
  IN  IF TextLength(taken.lines) >= MaxLeafChars
      THEN Reopen(Append(s.out, taken), taken.offset + Len(taken.lines))
      ELSE [s EXCEPT !.open = taken]

SplitOversizedBlock(snippets, block) ==
  LET cut[i \in 0..Len(block.lines)] ==
        IF i = 0 THEN Reopen(snippets, block.offset) ELSE Take(cut[i - 1], block.lines[i])
  IN  PutOut(cut[Len(block.lines)])

(* Merged blocks are joined without the blank lines that were between them. *)
Merge(s, block) ==
  LET both == s.open.lines \o block.lines
  IN  IF TextLength(block.lines) > MaxLeafChars
      THEN Reopen(SplitOversizedBlock(PutOut(s), block), 0)
      ELSE IF s.open.lines = << >> THEN [s EXCEPT !.open = block]
      ELSE IF TextLength(both) > MaxLeafChars THEN [out |-> Append(s.out, s.open), open |-> block]
      ELSE [s EXCEPT !.open.lines = both]

MergeBlocks(blocks) ==
  LET merged[k \in 0..Len(blocks)] ==
        IF k = 0 THEN Reopen(<< >>, 0) ELSE Merge(merged[k - 1], blocks[k])
  IN  PutOut(merged[Len(blocks)])

(* The overlap ends where the previous snippet ends: whatever blank lines   *)
(* the text has between the two, the lines of this one are counted from it. *)
AddOverlap(snippets) ==
  [k \in DOMAIN snippets |->
     IF k = 1 THEN snippets[k]
     ELSE LET before == snippets[k-1]
              n == Min({OverlapLines, Len(before.lines)})
          IN  Snippet(SubSeq(before.lines, Len(before.lines) - n + 1, Len(before.lines))
                        \o snippets[k].lines,
                      before.offset + Len(before.lines) - n)]

(* A text of blank lines only is one block. *)
Chunk(lines) ==
  LET blocks == ExtractBlocks(lines)
  IN  AddOverlap(MergeBlocks(IF blocks = << >> THEN <<Snippet(lines, 0)>> ELSE blocks))

-----------------------------------------------------------------------------
(* One evaluation: the deterministic pass, then each prompt in turn.        *)

PolicyInit ==
  /\ doc \in Docs
  /\ stage = "write"
  /\ profile = NoProfile
  /\ options \in [calls : Budgets, prefilter : Prefilters]
  /\ unjudged = << >> /\ levels = << >>
  /\ budget = FreshBudget
  /\ hits = {} /\ findings = {} /\ unevaluated = {}
  /\ decisions = << >> /\ regressions = {}

(* evaluateContentAsync, up to its loop over the prompts. *)
Evaluate(p) ==
  /\ stage = "write" /\ Len(decisions) < 2
  /\ profile' = p
  /\ findings' = EvaluateContent(p)
  /\ unjudged' = Prompted(ResolveRules(p))
  /\ unevaluated' = {}
  /\ stage' = "rules"
  /\ UNCHANGED <<doc, options, levels, budget, hits, decisions, regressions>>

(* evaluateWithBudget: a fresh budget, and the whole text as the root level. *)
BeginRule ==
  /\ stage = "rules" /\ unjudged # << >>
  /\ budget' = FreshBudget
  /\ hits' = {}
  /\ levels' = <<[snippets |-> Chunk(doc), base |-> 0, next |-> 1]>>
  /\ stage' = "level"
  /\ UNCHANGED <<doc, profile, options, unjudged, findings, unevaluated, decisions, regressions>>

Level == Last(levels)
AtSnippet == stage = "level" /\ Level.next <= Len(Level.snippets)
Here == Level.snippets[Level.next]
SpansOf(lines) == UNION {lines[i].spans : i \in DOMAIN lines}
Promising ==
  IF options.prefilter = NoPrefilter THEN TRUE
  ELSE SpansOf(Here.lines) \cap options.prefilter # {}
Oversized == TextLength(Here.lines) > MaxLeafChars
Descends  == Oversized /\ Len(levels) < MaxDepth
Advanced == [levels EXCEPT ![Len(levels)].next = @ + 1]

SkipSnippet ==
  /\ AtSnippet /\ ~Promising
  /\ levels' = Advanced
  /\ UNCHANGED <<doc, stage, profile, options, unjudged, budget, hits, findings, unevaluated,
                 decisions, regressions>>

Descend ==
  /\ AtSnippet /\ Promising /\ Descends
  /\ levels' = Append(Advanced, [snippets |-> Chunk(Here.lines),
                                 base |-> Level.base + Here.offset, next |-> 1])
  /\ UNCHANGED <<doc, stage, profile, options, unjudged, budget, hits, findings, unevaluated,
                 decisions, regressions>>

(* Only the root remembers where it was refused first. *)
RefuseSnippet ==
  /\ AtSnippet /\ Promising /\ ~Descends /\ budget.left = 0
  /\ budget' = [budget EXCEPT !.exhausted = TRUE,
                              !.start = IF @ = NotRefused /\ Len(levels) = 1 THEN Level.next ELSE @]
  /\ levels' = Advanced
  /\ UNCHANGED <<doc, stage, profile, options, unjudged, hits, findings, unevaluated,
                 decisions, regressions>>

(* The leaf's answer, on the lines of the text; of a span heard before, the *)
(* first line stays (dedupeHits).                                           *)
Remap(base, lines, span) ==
  [span |-> span, line |-> base + Min({i \in DOMAIN lines : span \in lines[i].spans})]

CallLeaf ==
  /\ AtSnippet /\ Promising /\ ~Descends /\ budget.left > 0
  /\ LET heard == (SpansOf(Here.lines) \cap unjudged[1].prompt) \ {h.span : h \in hits}
     IN  hits' = hits \cup {Remap(Level.base + Here.offset, Here.lines, s) : s \in heard}
  /\ budget' = [budget EXCEPT !.left = @ - 1]
  /\ levels' = Advanced
  /\ UNCHANGED <<doc, stage, profile, options, unjudged, findings, unevaluated, decisions, regressions>>

(* A leaf that throws rejects the whole evaluation: there is no decision. *)
LeafThrows ==
  /\ AtSnippet /\ Promising /\ ~Descends /\ budget.left > 0
  /\ stage' = "stopped"
  /\ UNCHANGED <<doc, evaluation, decisions, regressions>>

Ascend ==
  /\ stage = "level" /\ ~AtSnippet /\ Len(levels) > 1
  /\ levels' = Front(levels)
  /\ UNCHANGED <<doc, stage, profile, options, unjudged, budget, hits, findings, unevaluated,
                 decisions, regressions>>

(* Mutant: only what the root level was refused is left unevaluated. *)
LeavesContent_RootOnly == budget.start # NotRefused

(* unevaluatedContent is not empty: the text from the root snippet that was *)
(* refused first or, if only a deeper level was refused, from the last one. *)
LeavesContent == budget.start # NotRefused \/ budget.exhausted

FinishRule ==
  /\ stage = "level" /\ ~AtSnippet /\ Len(levels) = 1
  /\ findings' = findings \cup
       {FindingOf(unjudged[1], h.span, h.line) : h \in {x \in hits : x.span \notin profile.allow}}
  /\ unevaluated' = IF LeavesContent THEN unevaluated \cup {unjudged[1].id} ELSE unevaluated
  /\ unjudged' = Tail(unjudged)
  /\ levels' = << >>
  /\ hits' = {}
  /\ stage' = "rules"
  /\ UNCHANGED <<doc, profile, options, budget, decisions, regressions>>

Decide ==
  /\ stage = "rules" /\ unjudged = << >>
  /\ decisions' = Append(decisions, Aggregate)
  /\ stage' = "write"
  /\ UNCHANGED <<doc, evaluation, regressions>>

-----------------------------------------------------------------------------
(* The text is edited between evaluations, and watched after the second.    *)

Edit ==
  /\ stage = "write" /\ decisions # << >>
  /\ doc = Last(decisions).doc
  /\ \E i \in DOMAIN doc, l \in Lines :
       /\ l # doc[i]
       /\ doc' = [doc EXCEPT ![i] = l]
  /\ UNCHANGED <<stage, evaluation, decisions, regressions>>

(* Mutant: a span counts as removed only when its rule still exists. *)
BuildBaseline_LiveRules(before, after) ==
  LET kept == {ContentFingerprint(f) : f \in after.findings}
      live == {r.id : r \in ToSet(ResolveRules(after.profile))}
  IN  {f \in before.findings : ContentFingerprint(f) \notin kept /\ f.rule \in live}

BuildBaseline(before, after) ==
  LET kept == {ContentFingerprint(f) : f \in after.findings}
  IN  {f \in before.findings : ContentFingerprint(f) \notin kept}

(* One regression for each removed span, on the first line that has it. *)
DetectRegression(removed) ==
  {[fingerprint |-> ContentFingerprint(f),
    line |-> Min({i \in DOMAIN doc : f.span \in doc[i].spans})] :
     f \in {x \in removed : x.span \in SpansOf(doc)}}

Watch ==
  /\ stage = "write" /\ Len(decisions) = 2
  /\ regressions' = DetectRegression(BuildBaseline(decisions[1], decisions[2]))
  /\ stage' = "watched"
  /\ UNCHANGED <<doc, evaluation, decisions>>

PolicyNext ==
  \/ \E p \in Profiles : Evaluate(p)
  \/ BeginRule \/ SkipSnippet \/ Descend \/ RefuseSnippet
  \/ CallLeaf \/ LeafThrows \/ Ascend \/ FinishRule \/ Decide
  \/ Edit \/ Watch

PolicySpec == PolicyInit /\ [][PolicyNext]_policyVars

-----------------------------------------------------------------------------
(* What a decision owes its reader.  A rule of a pack the profile names, a  *)
(* span the rule is about and the text has, and no allow-list to excuse it. *)
Offence(d, r, s) == /\ \E p \in ToSet(d.profile.packs) \cap DOMAIN Packs : Contains(Packs[p], r)
                    /\ s \in SpansOf(d.doc) \ d.profile.allow
                    /\ s \in r.patterns \cup r.prompt

(* The spans of a prompt that the model is asked about wherever they are:   *)
(* the prefilter passes each snippet that has one.                          *)
Asked(prefilter, r) == IF prefilter = NoPrefilter THEN r.prompt ELSE r.prompt \cap prefilter

(* A partial pass is never silently clean: whatever the budget and the      *)
(* depth let through, each offence of the text is found or its rule is on   *)
(* the list of what was not evaluated, unless it is of a prompt only and    *)
(* the prefilter does not know it; and none is made up.                     *)
MissesAreAdmitted ==
  \A d \in ToSet(decisions) : \A p \in DOMAIN Packs : \A r \in ToSet(Packs[p]) :
    LET found == {f.span : f \in {x \in d.findings : x.rule = r.id}}
        owed  == {s \in SpansOf(d.doc) : Offence(d, r, s)}
    IN  /\ found \subseteq owed
        /\ r.id \notin d.unevaluated =>
             owed \cap (r.patterns \cup Asked(options.prefilter, r)) \subseteq found

(* A span the first version was found to have, gone from the second and     *)
(* back in the third, is reported even when no rule looks for it any more.  *)
RemovedSpansAreWatched ==
  stage = "watched" =>
    \A f \in decisions[1].findings :
      (f.span \notin SpansOf(decisions[2].doc) /\ f.span \in SpansOf(doc)) =>
        \E g \in regressions : g.fingerprint = ContentFingerprint(f) /\ f.span \in doc[g.line].spans

(* recursive.ts: the evaluator "remaps snippet-local line numbers back to   *)
(* document-global lines": a finding's line is one that has its span.       *)
FindingsAreOnTheirLines ==
  \A d \in ToSet(decisions) : \A f \in d.findings :
    f.line \in DOMAIN d.doc /\ f.span \in d.doc[f.line].spans
=============================================================================

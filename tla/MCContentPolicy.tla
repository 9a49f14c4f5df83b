--------------------------- MODULE MCContentPolicy ---------------------------
(***************************************************************************)
(* ContentPolicy on texts of three lines, short and long, with one or two  *)
(* forbidden spans: enough for blocks that merge, blocks that are cut, an  *)
(* overlap, a second level, and a budget that runs out at either level.    *)
(***************************************************************************)
EXTENDS ContentPolicy

CONSTANTS leak, hint, words, prompts, lost

Rule(id, action, patterns, prompt) ==
  [id |-> id, action |-> action, patterns |-> patterns, prompt |-> prompt]
Line(size, spans) == [size |-> size, spans |-> spans]

MCPacks == words   :> <<Rule("leaks", "fail", {leak}, {})>>
        @@ prompts :> <<Rule("hints", "warn", {}, {hint}), Rule("any", "fail", {leak}, {leak, hint})>>

(* A pack nobody ships, an allow-list, and a profile that drops a pack. *)
MCProfiles == {[packs |-> <<words, lost, prompts, prompts>>, allow |-> {}],
               [packs |-> <<words>>, allow |-> {}],
               [packs |-> <<prompts>>, allow |-> {leak}]}

MCLines == {Line(0, {}), Line(1, {}), Line(1, {leak}), Line(1, {hint}), Line(4, {hint})}
MCEdits == MCLines \ {Line(1, {})}
MCDocs == {<<first, second, third>> : first \in MCLines, second \in MCEdits, third \in MCEdits}

(* What createRulePackPrefilter makes of the packs, which have a pattern for *)
(* the leaks only, and none.                                                *)
MCPrefilters == {{leak}, NoPrefilter}
=============================================================================

SPECIFICATION PolicySpec
CONSTANTS
  leak = leak
  hint = hint
  words = words
  prompts = prompts
  lost = lost
  Packs <- MCPacks
  Profiles <- MCProfiles
  Docs <- MCDocs
  Lines <- MCEdits
  NoPrefilter = NoPrefilter
  Prefilters <- MCPrefilters
  Budgets = {1, 9}
  MaxLeafChars = 3
  MaxDepth = 2
  OverlapLines = 2
INVARIANTS
  FindingsAreOnTheirLines
CHECK_DEADLOCK FALSE

SPECIFICATION GateSpec
CONSTANTS
  MaxHead = 2
  Places = {"p1", "p2"}
  Severities = {"critical", "moderate"}
  MCMissing = MCMissing
  MCInvalid = MCInvalid
  MissingFile = MCMissing
  InvalidFile = MCInvalid
  NoFile = NoFile
  Inputs <- MCInputs
  Leftovers <- MCLeftovers
  leak = leak
  hint = hint
  words = words
  prompts = prompts
  lost = lost
  Packs <- MCPacks
  Profiles <- MCProfiles
  Docs <- MCDocs
  Lines <- MCEdits
  NoPrefilter = NoPrefilter
  Prefilters <- MCPrefilters
  Budgets = {1, 9}
  MaxLeafChars = 3
  MaxDepth = 2
  OverlapLines = 2
INVARIANTS
  PassIsEarned
  FailingFindingBlocks
  FailHasACulprit
  MissesAreAdmitted
  RemovedSpansAreWatched
CHECK_DEADLOCK FALSE

SPECIFICATION Spec
CONSTANTS
  MaxHead = 2
  Places = {"p1", "p2"}
  Severities = {"critical", "moderate"}
  MCMissing = MCMissing
  MCInvalid = MCInvalid
  MissingFile = MCMissing
  InvalidFile = MCInvalid
  NoFile = NoFile
  Inputs <- MCInputs
  Leftovers <- MCLeftovers
INVARIANT DefiniteViolationsAreGated
CHECK_DEADLOCK FALSE

SPECIFICATION EvidenceSpec
CONSTANTS
  c1 = c1
  c2 = c2
  c3 = c3
  k1 = k1
  k2 = k2
  b1 = b1
  b2 = b2
  None = None
  Call = {c1, c2, c3}
  Key = {k1, k2}
  Known = {k1, k2}
  KeyOf <- MCKeyOf
  Body = {b1, b2}
  Random = {1, 2, 3}
  MaxTime = 1
  DayLength = 1
  Inputs <- MCInputs
  h1 = h1
  h2 = h2
  NoRoot = NoRoot
  Preimage = {h1, h2}
  MaxLeaves = 7
INVARIANTS
  ChainVerifies
  OneEntryPerId
  AckedIsStored
  LossIsDetected
  EveryLeafIsProvable
  ProofBindsItsLeaf
  OldProofsAreRefused
  ManifestBindsLeaves
PROPERTIES
  DaySealedByLaterEntry
  RejectedOnlyWhenOvertaken
  ImplementsEvidenceLog
  AppendReturns
CHECK_DEADLOCK FALSE

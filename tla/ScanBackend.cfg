SPECIFICATION Spec
CONSTANTS
  s1 = s1
  s2 = s2
  p1 = p1
  p2 = p2
  p3 = p3
  Scan = {s1, s2}
  Attempt = {p1, p2, p3}
  Scripts <- MCScripts
  MaxSeq = 0
INVARIANTS
  AckedCompleteHasScorecard
  ForwardedAfterRecorded
PROPERTIES
  ImplementsScanLifecycle
SYMMETRY Permuting
CHECK_DEADLOCK FALSE

SPECIFICATION EngineSpec
CONSTANTS
  x1 = x1
  x2 = x2
  x3 = x3
  d1 = d1
  d2 = d2
  l1 = l1
  l2 = l2
  Analyzer = {x1, x2, x3}
  Domain = {d1, d2}
  DomainOf <- MCDomainOf
  Elements = 1
  Listener = {l1, l2}
  Throwing = {l2}
  Replay = Replay
  Nobody = Nobody
  c1 = c1
  c2 = c2
  m1 = m1
  NoReport = NoReport
  Call <- MCCalls
  Jobs <- MCJobs
  Slot = {m1}
  SlotOf <- MCSlotOf
INVARIANTS
  HeardInOrder
  ReturnedReplayIsWhole
  DisposedExactlyOnce
  FailureIsIsolated
  FindingsAreOfTheirSite
  CrossSiteIsTrue
  ExitCodeIsOfLastPages
PROPERTIES
  ScanEnds
CHECK_DEADLOCK FALSE

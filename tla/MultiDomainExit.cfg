SPECIFICATION ScanSpec
CONSTANTS
  c1 = c1
  c2 = c2
  m1 = m1
  NoReport = NoReport
  Call <- MCCalls
  Jobs <- MCJobs
  Slot = {m1}
  SlotOf <- MCSlotOf
INVARIANTS
  CleanExitMeansNoFindings
CHECK_DEADLOCK FALSE

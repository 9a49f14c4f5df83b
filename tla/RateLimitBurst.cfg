SPECIFICATION LimiterSpec
CONSTANTS
  r1 = r1
  r2 = r2
  r3 = r3
  r4 = r4
  a1 = a1
  h1 = h1
  Nil = Nil
  Request = {r1, r2, r3, r4}
  Ip = {a1}
  Host = {h1}
  Limit <- MCDefaultBurst
  Window <- MCWindow
  Slack = 1
  Second = 2
  MaxTime = 5
  MaxOverlap = 2
INVARIANTS
  BurstIsHeld
SYMMETRY Permuting
CHECK_DEADLOCK FALSE

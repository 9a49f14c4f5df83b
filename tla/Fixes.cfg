SPECIFICATION FixSpec
CONSTANTS
  e1 = e1
  e2 = e2
  v1 = v1
  v2 = v2
  i1 = i1
  r1 = r1
  r2 = r2
  f1 = f1
  f2 = f2
  s1 = s1
  s2 = s2
  NoFile = NoFile
  MaxClusterLines = 2
  MaxClusters = 3
  Event = {e1, e2, v1, v2}
  Deliveries <- MCDeliveries
  GitHubEvent = {e1, e2}
  Commentable = {e1, e2}
  InstallationOf <- MCInstallationOf
  HeadShaOf <- MCHeadShaOf
  FindingsOf <- MCFindingsOf
  MaxPrsPerEvent = 2
  LastDay = 1
  MaxRestarts = 1
  Rules = {r1, r2}
  Files = {f1, f2}
  MaxFindings = 3
  LastLineNo = 4
INVARIANTS
  OvershootIsBounded
  LedgerCountsRealPrs
  PrHasItsCommit
  EveryClusterAccounted
  EachFindingInOneCluster
  ClusterCoversItsFindings
CHECK_DEADLOCK FALSE

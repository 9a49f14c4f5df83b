SPECIFICATION Spec
CONSTANTS
  p1 = p1
  p2 = p2
  d1 = d1
  PullRequestEvent = {p1, p2}
  DeploymentEvent = {d1}
  HeadOf <- MCHeadOf
  Diff <- MCDiff
  Threshold = 60
  PageSize = 6
  EnableThresholdBlock = TRUE
INVARIANT FailsOnlyAboveThreshold
CHECK_DEADLOCK FALSE

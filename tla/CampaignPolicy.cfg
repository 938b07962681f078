SPECIFICATION BatchFairSpec
CONSTANTS
  p1 = p1
  p2 = p2
  p3 = p3
  i1 = i1
  i2 = i2
  Projects = {p1, p2, p3}
  Rank <- ThreeProjects
  Invocations = {i1, i2}
  Flags <- CanaryFirst
  MaxConcurrent = 2
  Timeout = 1
  MayOverlap = FALSE
  Endings = {"pr-opened", "needs-human"}
  MaxClears = 1
INVARIANTS BatchIsAccounted OneHandledRun
PROPERTIES EveryBatchEnds
CHECK_DEADLOCK FALSE

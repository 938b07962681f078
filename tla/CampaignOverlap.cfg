SPECIFICATION BatchSpec
CONSTANTS
  p1 = p1
  p2 = p2
  p3 = p3
  i1 = i1
  i2 = i2
  Projects = {p1, p2}
  Rank <- TwoProjects
  Invocations = {i1, i2}
  Flags <- AnyFlags
  MaxConcurrent = 1
  Timeout = 1
  MayOverlap = TRUE
  Endings = {"pr-opened", "failed", "needs-human"}
  MaxClears = 0
INVARIANTS OneHandledRun
CHECK_DEADLOCK FALSE

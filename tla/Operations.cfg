SPECIFICATION Spec
CONSTANTS
  Operators = {"op"}
  Ci = "ci"
  MaxRuns = 4
  Shell = "sh"
  Children = {"c1", "c2"}
  Audits = {"a1", "a2"}
  Findings = {"f1", "f2"}
  Projects = {"p", "q"}
  ProjectOf <- TheProject
  MaxShifts = 2
  Files = {"kept", "dropped"}
  Pyproject = "pyproject.toml"
  Contents = {"old", "new"}
  Commits = {1, 2, 3}
  Trunk = {1, 2}
  Snapshot <- TheTrees
  Mode <- TheMode
  MaxChanges = 3
INVARIANTS DeployVerdictIsTrue ResultsAreTrue
PROPERTIES DigestsAreTrue ExitsAreTrue WaitsEnd
CHECK_DEADLOCK FALSE

SPECIFICATION FairSpec
CONSTANTS
  c1 = c1
  c2 = c2
  lint = lint
  test = test
  Passes = {p1, p2}
  Tasks = {lint, test}
  Unmarkable <- OneOrNone
  PageLimit = 4
  Commits = {c1, c2}
  Red <- RedGates
  NoHead = NoHead
  NoKey = NoKey
  MaxIssues = 6
  MaxFaults = 1
  MaxMoves = 2
INVARIANTS OneIssuePerFinding
PROPERTIES WritesAreTrue IssuesFollowGates
CHECK_DEADLOCK FALSE

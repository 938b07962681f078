SPECIFICATION Spec
CONSTANTS
  main = main
  feat = feat
  Sessions = {s1}
  Branches = {main, feat}
  Trunk = main
  Detached = detached
  IssueOf = {feat}
  Issues = {feat}
  Wrappers = {"push_branch.sh", "monitor_pr.sh", "create_issue.sh"}
  Unreviewed = {"NONE", "REVIEW_REQUIRED"}
  Verbs = {"check", "push", "promote", "finish", "create", "raw"}
  MaxRetries = 1
  MaxCommits = 2
  MaxFaults = 1
  MaxCommands = 1
INVARIANTS AllowedIsEarned
PROPERTIES PushIsTrue TrunkMovesByMerge
CHECK_DEADLOCK FALSE

SPECIFICATION FairSpec
CONSTANTS
  Runs = {r1}
  Operators = {o1}
  NoRecord = NoRecord
  MaxFaults = 1
  LauncherMayDie = TRUE
INVARIANTS NoFalseSuccess EvidenceKept
PROPERTIES OnlyStaleUpdatesRegress EventuallySettled
CHECK_DEADLOCK FALSE

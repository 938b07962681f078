SPECIFICATION Spec
CONSTANTS
  Runs = {r1}
  Operators = {o1}
  NoRecord = NoRecord
  MaxFaults = 0
  LauncherMayDie = FALSE
INVARIANTS NoAbandonedPr
CHECK_DEADLOCK FALSE

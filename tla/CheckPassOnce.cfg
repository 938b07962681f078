SPECIFICATION Spec
CONSTANTS
  Passes = {p1, p2}
  Trees = {good, bad, worse}
  Good = {good}
  NoHead = NoHead
  NoResult = NoResult
SYMMETRY Symmetry
INVARIANTS StampedPassIsTrue ReportIsCurrent
CHECK_DEADLOCK FALSE

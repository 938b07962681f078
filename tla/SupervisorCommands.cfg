SPECIFICATION FairSpec
CONSTANTS
  operator = operator
  watch = watch
  Commands = {operator, watch}
  Verbs <- Everyone
  MaxStarts = 2
  MaxFaults = 1
INVARIANTS DeathsAreReal OneAtATimeIsExact
PROPERTIES DeathSurfaces
CHECK_DEADLOCK FALSE

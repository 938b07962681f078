SPECIFICATION FairSpec
CONSTANTS
  api = api
  web = web
  legacy = legacy
  lint = lint
  Projects = {api, web, legacy}
  Tasks = {lint}
  Order <- Fleet
  Worlds <- Starts
  Declared <- Modes
  RunMode = "fix"
  Limit = 1
  Clicked = {api}
  Pass = pass
  MaxSlots = 2
  MaxFaults = 1
INVARIANTS WorkIsKept LandedIsVerified ReportIsHonest
PROPERTIES RetryIsNeverRefused ActionsSettle
CHECK_DEADLOCK FALSE

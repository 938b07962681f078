SPECIFICATION JudgeSpec
CONSTANTS
  Questions = {"discovery", "probes", "heartbeat", "watch", "view", "origins", "descriptor", "tests", "estate", "meter"}
  N = 3
  MrCountCap = 1
  Interval = 2
  MaxClock = 9
  Passes = {p1, p2}
  MaxEntries = 3
  MaxTurns = 1
  MaxMishaps = 1
  Manifested = {"f"}
  Hooks = {"h", "k"}
  Versions = {1, 2}
  Blocks = {"b", "c"}
  SchemaFields = {"f"}
  Seams = {"s", "t"}
  MaxVersion = 2
  Understood = 2
  ContractVersion = 1
  ContractVersionMax = 2
  Suites = {x, y}
  MaxFailed = 1
  Names = {"api", "web"}
  Regions = {"eu", "us"}
  MaxLive = 2
  MeteredRuns = {r1, r2}
  MaxPieces = 3
  MaxSize = 3
  TailBytes = 1
  MaxBytes = 2
SYMMETRY Symmetry
INVARIANTS FleetIsTrue ProbesAreTrue SilenceIsTold WatchIsTrue ViewIsTrue OriginsAreTrue ReadingsAreTrue RedIsNeverGreen
CHECK_DEADLOCK FALSE

CONSTANTS
  worker = worker
  runner = runner
  a = a
  b = b
  NoRecord = NoRecord
  Loaders = {worker, runner}
  Records = {a}
  Kind = "warehouse"
  Limit = 2
  MaxFiles = 3
  MaxVersion = 1
  MaxTrouble = 2
  MaxFaulty = 1
SPECIFICATION FairSpec
CHECK_DEADLOCK FALSE
INVARIANTS
  HeldByOne
PROPERTIES
  EveryFileEnds

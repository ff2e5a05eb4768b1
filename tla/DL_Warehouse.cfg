CONSTANTS
  worker = worker
  runner = runner
  a = a
  b = b
  NoRecord = NoRecord
  Loaders = {worker}
  Records = {a, b}
  Kind = "warehouse"
  Limit = 2
  MaxFiles = 3
  MaxVersion = 2
  MaxTrouble = 1
  MaxFaulty = 1
SPECIFICATION Spec
CHECK_DEADLOCK FALSE
INVARIANTS
  InOrder
PROPERTIES
  OlderOnlyAfterTrouble

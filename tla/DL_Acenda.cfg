CONSTANTS
  worker = worker
  runner = runner
  a = a
  b = b
  NoRecord = NoRecord
  Loaders = {worker}
  Records = {a, b}
  Kind = "acenda"
  Limit = 2
  MaxFiles = 2
  MaxVersion = 2
  MaxTrouble = 2
  MaxFaulty = 2
SPECIFICATION Spec
CHECK_DEADLOCK FALSE
INVARIANTS
  IInv
  DoneIsApplied
PROPERTIES
  MovesForward

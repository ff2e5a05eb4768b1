CONSTANTS
  w1 = w1
  w2 = w2
  a = a
  b = b
  l1 = l1
  Keys = {a}
  Workers = {w1}
  Lines = {l1}
  Values = {1, 2}
  Source <- OneProductiv
  NoLine = NoLine
  NoShipment = NoShipment
  NoHash = NoHash
  NoJob = NoJob
SPECIFICATION Spec
INVARIANTS
  SentMatchesSource

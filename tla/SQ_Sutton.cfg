CONSTANTS
  w1 = w1
  w2 = w2
  a = a
  b = b
  l1 = l1
  Keys = {a}
  Workers = {w1, w2}
  Lines = {}
  Values = {1, 2}
  Source <- OneSutton
  NoLine = NoLine
  NoShipment = NoShipment
  NoHash = NoHash
  NoJob = NoJob
SPECIFICATION FairSpec

INVARIANTS
  SentMatchesSource
PROPERTIES
  RunEndsOrWaits

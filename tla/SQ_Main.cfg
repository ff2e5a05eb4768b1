CONSTANTS
  w1 = w1
  w2 = w2
  a = a
  b = b
  l1 = l1
  Keys = {a, b}
  Workers = {w1, w2}
  Lines = {l1}
  Values = {1}
  Source <- Mixed
  NoLine = NoLine
  NoShipment = NoShipment
  NoHash = NoHash
  NoJob = NoJob
SPECIFICATION Spec
SYMMETRY WorkerSymmetry
INVARIANTS
  IInv
  SentIsBacked
  ErrorExplainsHold
  OnlyInterruptionsStrand
PROPERTIES
  PostSpec

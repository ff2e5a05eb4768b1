SPECIFICATION FairSpec
CONSTANTS
  o1 = o1
  o2 = o2
  l1 = l1
  l2 = l2
  l3 = l3
  Clock = clock
  Orders = {o1, o2}
  Lines = {l1, l2, l3}
  OrderOf <- MCOrderOf
  MayBeBad = {o2}
  MaxAttempts = 2
  MaxDuplicates = 2
  MaxTrouble = 2
  MaxCrashes = 1
INVARIANTS
  IInv
  LinesMoveTogether
  CrashNeverDuplicates
PROPERTIES
  RunEnds
CHECK_DEADLOCK FALSE

SPECIFICATION Spec
CONSTANTS
  o1 = o1
  o2 = o2
  l1 = l1
  l2 = l2
  l3 = l3
  Clock = clock
  Orders = {o1, o2}
  Lines = {l1, l2, l3}
  OrderOf <- MCOrderOf
  MayBeBad = {}
  MaxAttempts = 2
  MaxDuplicates = 2
  MaxTrouble = 1
  MaxCrashes = 0
INVARIANTS
  PostedOnce
CHECK_DEADLOCK FALSE

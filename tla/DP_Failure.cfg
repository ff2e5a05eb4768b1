SPECIFICATION Spec
CONSTANTS
  Count = 1
  Newest = 3
  HeadOf <- MCHeadOf
  Bare = {2}
  OddRows = {}
  StrayRows = {}
  OddLimit = 0
  Named = {}
INVARIANTS
  FailureRollsBack
CHECK_DEADLOCK FALSE

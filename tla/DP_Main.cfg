SPECIFICATION Spec
CONSTANTS
  Count = 2
  Newest = 3
  HeadOf <- MCHeadOf
  Bare = {2}
  OddRows <- MCOddRows
  StrayRows <- MCStrayRows
  OddLimit = 1
  Named <- MCNamed
INVARIANTS
  Inv
  StuckOnlyByRows
  ReportIsTrue
  FitAtStart
PROPERTIES
  RowsKept
CHECK_DEADLOCK FALSE

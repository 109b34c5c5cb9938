SPECIFICATION FairSpec
CONSTANTS
  Lossy = FALSE
  Total = 1
  MaxResends = 2
  MaxLate = 1
  NoCount = NoCount
  Idle = Idle
  Unread = Unread
CHECK_DEADLOCK FALSE
INVARIANTS
  NextInLine
  SuccessLands
PROPERTIES
  ProgressMonotonic
  RunAndAgentEnd

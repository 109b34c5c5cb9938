SPECIFICATION Spec
CONSTANTS
  Lossy = TRUE
  Total = 1
  MaxResends = 1
  MaxLate = 1
  NoCount = NoCount
  Idle = Idle
  Unread = Unread
CHECK_DEADLOCK FALSE
INVARIANTS
  CompletedReportHasProof

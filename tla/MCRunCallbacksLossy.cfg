SPECIFICATION Spec
CONSTANTS
  Lossy = TRUE
  Total = 1
  MaxResends = 0
  MaxLate = 1
  NoCount = NoCount
  Idle = Idle
  Unread = Unread
CHECK_DEADLOCK FALSE
INVARIANTS
  OutcomeAgrees
PROPERTIES
  Refines
  ProofBeforeVerifiedCompletion

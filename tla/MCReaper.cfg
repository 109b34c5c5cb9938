SPECIFICATION FairSpec
CONSTANTS
  Run = {1, 2}
  Tick = {t1, t2}
  NoDeadline = NoDeadline
  Budget <- MCBudget
  ClaimLimit = 2
  SweepLimit = 1
  MaxOverdue = 1
  MaxReports = 2
  MaxCrashes = 1
INVARIANTS
  AtMostOneInvocation
PROPERTIES
  Refines
  ReapedOnlyWhenOverdue
  EventuallyTerminal

SPECIFICATION FairSpec
CONSTANTS
  Preset = {"brief", "full"}
  ScopeOf <- MCScopeOf
  Person = {p1}
  Tick = {t1, t2}
  MonthLength = 2
  Straddling = FALSE
  MaxTime = 3
  MaxSaves = 2
  MaxCrashes = 1
  None = None
INVARIANTS
  OneRunPerIntent
  AnswerCoversRequest
  OneClaimPerMonth
  ClaimLeavesATrace
PROPERTIES
  DueIsClaimed
CHECK_DEADLOCK FALSE

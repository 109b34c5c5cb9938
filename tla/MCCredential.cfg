SPECIFICATION Spec
CONSTANTS
  r1 = r1
  r2 = r2
  r3 = r3
  p1 = p1
  arm = arm
  metrics = metrics
  Call <- Calls
  LoopCall = {p1}
  Scope = {arm, metrics}
  ScopeOf <- ScopeOfCalls
  Workers = 3
INVARIANTS
  HangsOnlyStarved
PROPERTIES
  BurstCollapses
  EndsUnlessStarved
CHECK_DEADLOCK FALSE

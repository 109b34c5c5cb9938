SPECIFICATION Spec
CONSTANTS
  Turn = {t1, t2}
  Act = {a1, a2}
  Scope = {s1, s2}
  MaxBucket = 1
  MaxDeletions = 1
  None = None
SYMMETRY Symmetric
INVARIANTS
  OrphansAreLate
  OneCloses
CHECK_DEADLOCK FALSE

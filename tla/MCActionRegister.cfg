SPECIFICATION Spec
CONSTANTS
  Key = {k1, k2}
  Run = {r1, r2, r3}
  Person = {p1}
  None = None
SYMMETRY Symmetric
INVARIANTS
  OnEvidence
  FoundIsNotResolved
CHECK_DEADLOCK FALSE

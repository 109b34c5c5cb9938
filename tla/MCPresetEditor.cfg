SPECIFICATION Spec
CONSTANTS
  Tab = {t1, t2}
  Call = {c1, c2}
  MaxEdits = 1
  MaxPublishes = 1
  None = None
SYMMETRY Symmetric
INVARIANTS
  VersionsDiffer
PROPERTIES
  OverwrittenOnlyAfterPublishing
CHECK_DEADLOCK FALSE

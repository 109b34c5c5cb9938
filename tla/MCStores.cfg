SPECIFICATION Spec
CONSTANTS
  Null = Null
  User = {u1, u2, u3}
  Founder = u1
  Role = {"owner", "admin"}
  Invitation = {i1, i2}
  Session = {s1, s2}
  Email = {e1, e2, e3}
  MaxContacts = 2
  Adder = {a1, a2}
  Sender = {d1}
  Visitor = {v1, v2}
  Message = {m1, m2}
  Limit = 1
  Admin = {b1, b2}
  MaxLosses = 2
  Writer = {w1, w2}
  Lister = {l1}
  TTL = 1
  MaxClock = 3
  MaxChanges = 1
  MaxFailures = 0
  Distinct = TRUE
  Verifier = {w1, w2, w3}
  MaxGrants = 2
  MaxRefusals = 2
  Job = {1, 2}
  Scan = {1}
  Mortal = TRUE
  MaxEvents = 2
INVARIANTS
  TeamIsSound
  MailIsTrue
  ConnectorIsSound
  CompleteIsTrue
PROPERTIES
  SavedReachesTheTeam
  FixedRoleActivates
  RunningEnds
CHECK_DEADLOCK FALSE

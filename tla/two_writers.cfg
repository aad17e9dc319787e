SPECIFICATION Spec
CONSTANTS
  c1 = c1
  c2 = c2
  r = r
  a = a
  s1 = s1
  s2 = s2
  None = None
  Client <- TwoClients
  Entity <- OneItem
  Parent <- Attached
  Role <- Roles
  Session <- TwoSessions
  Overlap = TRUE
  BatchLimit = 100
  MaxEdits = 3
  MaxFaults = 0
INVARIANTS
  VersionsLinear

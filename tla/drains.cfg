SPECIFICATION FairSpec
CONSTANTS
  c1 = c1
  c2 = c2
  r = r
  a = a
  s1 = s1
  s2 = s2
  None = None
  Client <- TwoClients
  Entity <- ItemAndChild
  Parent <- Attached
  Role <- Roles
  Session <- TwoSessions
  Overlap = TRUE
  BatchLimit = 100
  MaxEdits = 2
  MaxFaults = 1
INVARIANTS
  NoReceiptDeadlock
PROPERTIES
  EventuallySettled

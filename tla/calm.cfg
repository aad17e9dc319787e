SPECIFICATION Spec
CONSTANTS
  c1 = c1
  c2 = c2
  r = r
  a = a
  s1 = s1
  s2 = s2
  None = None
  Client <- TwoClients
  Entity <- ItemAndChild
  Parent <- Attached
  Role <- Roles
  Session <- OneSession
  Overlap = FALSE
  BatchLimit = 1
  MaxEdits = 4
  MaxFaults = 0
INVARIANTS
  PendingShown
  SeenIsShown
  DiscardIsNoOp
PROPERTIES
  NoSilentDrop

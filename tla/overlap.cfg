SPECIFICATION Spec
CONSTANTS
  c1 = c1
  c2 = c2
  r = r
  a = a
  s1 = s1
  s2 = s2
  None = None
  Client <- TwoClients
  Entity <- OneItem
  Parent <- Attached
  Role <- Members
  Session <- TwoSessions
  Overlap = TRUE
  BatchLimit = 100
  MaxEdits = 3
  MaxFaults = 1
SYMMETRY Alike
INVARIANTS
  TypeOK
  OneEntryPerEntity
  AtMostOnce
  BlockedWasRefused
  
PROPERTIES
  SyncDropsOnlyDecided

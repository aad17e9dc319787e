SPECIFICATION FairSpec
CONSTANTS
  u1 = u1
  d1 = d1
  s1 = s1
  s2 = s2
  None = None
  User <- OneUser
  Device <- OneDevice
  Key <- OneDevice
  Owner <- OwnerOf
  Session <- TwoSessions
  Sample <- Shapes
  Classes <- Needed
  MinLength = 8
  Limit = 1
  Window = 1
  AccessTtl = 0
  RefreshTtl = 3
  ResetTtl = 2
  MaxTime = 2
  MaxOps = 3
  MaxFaults = 1
CHECK_DEADLOCK FALSE
INVARIANTS
  TypeOK
  WindowBound
  OneLiveHeir
  LiveUnderPassword
  DeactivatedHoldsNone
  ResetOnce
  HoldsNewest
  ExecutedOnce
PROPERTIES
  CallsReturn

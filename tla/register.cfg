SPECIFICATION Spec
CONSTANTS
  u1 = u1
  u2 = u2
  r1 = r1
  o1 = o1
  a1 = a1
  s1 = s1
  s2 = s2
  c1 = c1
  None = None
  User <- TwoUsers
  Item <- TwoItems
  Type <- TypeOf
  Action <- OneAction
  Session <- TwoSessions
  Change <- OneChange
  RetentionDays = 1
  Drafts <- SomeDrafts
  Patches <- SomePatches
  Wishes <- Days0
  Roles <- TwoRoles
  Founder = u1
  MaxOps = 2
CHECK_DEADLOCK FALSE
INVARIANTS
  TypeOK
  KeepsAdmin
  RetryCounted
  ListsHideDeleted
  ScoreTrue
PROPERTIES
  OnlyPermitted
  EditsInTurn
  

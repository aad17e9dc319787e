SPECIFICATION FairSpec
CONSTANTS
  r1 = r1
  r2 = r2
  p1 = p1
  p2 = p2
  p3 = p3
  None = None
  Local = Local
  Row <- TwoRows
  Type <- Risks
  Remote <- ThreeIds
  Chosen <- OneCode
  MaxOps = 2
  MaxFaults = 1
INVARIANTS
  TypeOK
  EntriesFollowRows
  OneProjectMade
PROPERTIES
  TypedIsKept
  ComesTogether

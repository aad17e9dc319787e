SPECIFICATION Spec
CONSTANTS
  r1 = r1
  r2 = r2
  p1 = p1
  p2 = p2
  p3 = p3
  None = None
  Local = Local
  Row <- TwoRows
  Type <- Risks
  Remote <- ThreeIds
  Chosen <- NoCodes
  MaxOps = 1
  MaxFaults = 1
INVARIANT InAProject

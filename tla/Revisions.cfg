SPECIFICATION Spec
CONSTANTS
  r1 = r1
  r2 = r2
  m1 = m1
  m2 = m2
  m3 = m3
  m4 = m4
  q1 = q1
  q2 = q2
  q3 = q3
  None = None
  First = r1
  Revision <- TwoRevisions
  Model <- FourModels
  Seeded <- SeededOne
  Kinds <- BothKinds
  Names <- ZeroOne
  Request <- ThreeRequests
  Ops <- AllOps
  MaxElements = 2
  Transactions = FALSE
SYMMETRY Symmetry
CHECK_DEADLOCK FALSE
INVARIANTS OwnLinks LinksResolve NothingLost
PROPERTIES LateOnlyUnlinks DuplicateIsExact

SPECIFICATION Spec
CONSTANTS
  t1 = t1
  t2 = t2
  d1 = d1
  q1 = q1
  q2 = q2
  None = None
  Request <- OneRequest
  Plan <- ThreePlans
  ProductOf <- TwoTagPlans
  MaxRequests = 2
  MaxTroubles = 0
SYMMETRY Symmetry
CHECK_DEADLOCK FALSE
INVARIANT PaidIsSubscribed

SPECIFICATION Spec
CONSTANTS
  t1 = t1
  t2 = t2
  d1 = d1
  q1 = q1
  q2 = q2
  None = None
  Request <- TwoRequests
  Plan <- ThreePlans
  ProductOf <- TwoTagPlans
  MaxRequests = 3
  MaxTroubles = 1
SYMMETRY Symmetry
CHECK_DEADLOCK FALSE
INVARIANTS PaidIsEnabled EnabledIsPaid OneSubscription OrgKnowsSubscription
 

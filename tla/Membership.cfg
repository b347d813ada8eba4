SPECIFICATION Spec
CONSTANTS
  e1 = e1
  e2 = e2
  q1 = q1
  q2 = q2
  None = None
  Email <- TwoEmails
  Request <- TwoRequests
  MaxOrgs = 2
  MaxRequests = 3
  Grants = {TRUE}
SYMMETRY Symmetry
CHECK_DEADLOCK FALSE
INVARIANTS OwnerIsAdmin RolesResolve OneRoleEach
PROPERTIES HandsChangeByTransfer

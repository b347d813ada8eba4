SPECIFICATION Spec
CONSTANTS
    None = None
    Env = {e1, e2}
    Domain = {shop}
    Rev = {r1, r2}
    Key = {k}
    Request = {p1, p2}
    MaxRequests = 3
    MaxEdits = 1
    MaxFail = 1
SYMMETRY Symmetry
CHECK_DEADLOCK FALSE
INVARIANTS PublishedIsFinal OneOwner CompletedAgrees
PROPERTIES NothingUndone

CONSTANTS
  o1 = o1
  c1 = c1  c2 = c2
  m1 = m1  m2 = m2
  Calls = 5
  Other = {o1}
  Child = {c1, c2}
  Model = {m1, m2}
  None = None
  Limit = 1
  MaxTurn = 1
  Host <- MCHost
SPECIFICATION Spec
SYMMETRY Symmetric
CHECK_DEADLOCK FALSE
INVARIANTS TypeOK ReviewIsReal GrantIsOneShot
PROPERTIES RepairsFollowReviews RepairKeepsRoute

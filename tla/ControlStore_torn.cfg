CONSTANTS
  panel = panel  mcp = mcp
  t1 = t1  t2 = t2
  e1 = e1  e2 = e2
  x = x  y = y
  Proc = {panel, mcp}
  Tab = {t1}
  PanelOf <- OneTab
  Endpoint = {e1, e2}
  Text = {x}
  Default = x
  Unpinned = Unpinned
  None = None
  Absent = Absent
  Free = Free
  MaxAttempts = 2
  MayCrash = TRUE
  MayFail = FALSE
SPECIFICATION Spec
SYMMETRY SymmetricRoutes
INVARIANT StoredRouteIsReviewed

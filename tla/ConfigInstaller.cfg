CONSTANTS
  panel = panel  cli = cli
  v1 = v1  v2 = v2
  t1 = t1  t2 = t2
  q = q
  Proc = {panel, cli}
  Version = {v1, v2}
  PackageOf <- TwoPackages
  Text = {t1, t2}
  Plain = t1
  Other = {q}
  Own = Own
  Stock = Stock
  Nothing = Nothing
  Missing = Missing
  None = None
  Free = Free
  MaxBegun = 3
  MaxEdits = 2
  MayRace = FALSE
  MayCrash = TRUE
  MayFail = TRUE
SPECIFICATION Spec
CHECK_DEADLOCK FALSE
INVARIANTS TypeOK UserEditsSurvive OwnershipIsRecorded
PROPERTY ReplacedIsBackedUp

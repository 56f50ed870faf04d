SPECIFICATION Spec
CONSTANTS
  m1 = m1
  m2 = m2
  m3 = m3
  p = p
  q = q
  Model = {m1, m2, m3}
  Provider = {p, q}
  PlanProvider = {q}
  ProviderOf <- MCProviderOf
  TTL = 2
  None = None
  Invalid = Invalid
  Fail = Fail
  Curated <- MCCurated
  Quality <- MCQuality
  IdOrder <- MCIdOrder
  Publications <- MCPublications
  Listings <- MCListings
  Settings <- MCSettings
  Tasks <- MCTasks
  MaxClock = 2
  MaxRefreshes = 3
INVARIANTS
  TypeOK
  FreeIsEarned
  PlannedModelIsReported
  BindingNamesRoute
  SnapshotIsServed
CHECK_DEADLOCK FALSE

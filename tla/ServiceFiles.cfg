SPECIFICATION FairSpec
CONSTANTS
  p1 = p1
  p2 = p2
  m1 = m1
  m2 = m2
  m3 = m3
  Proc = {p1, p2}
  Model = {m1, m2, m3}
  Known = {m1, m2}
  Preferred <- MCPreferred
  Eligible = {m2}
  None = None
  Refused = Refused
  Documents <- MCDocuments
  Checkable = {m1, m3}
  Odd = {m3}
  Unreadable = Unreadable
  MAX_RESULTS = 2
  MaxChecks <- MCMaxChecks
INVARIANTS OriginalIsKept IntentIsKept ResultsStay
PROPERTY ChecksEnd
CHECK_DEADLOCK FALSE

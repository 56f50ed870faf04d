CONSTANTS
  a = a  b = b  c = c
  p = p  q = q  r = r
  Caller = {a, b, c}
  Pid = {p, q, r}
  NoDir = NoDir
  NoOwner = NoOwner
  Malformed = Malformed
  PidOf <- OnePerProcess
  MayCrash = TRUE
  MayStall = FALSE
  Leftover = FALSE
SPECIFICATION Spec
INVARIANTS MutualExclusion HeldIsRecorded
PROPERTIES ReapsOnlyDead ImplementsMutex

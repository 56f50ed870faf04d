CONSTANTS
  a = a  b = b  c = c
  p = p  q = q  r = r
  Caller = {a, b, c}
  Pid = {p, q, r}
  NoDir = NoDir
  NoOwner = NoOwner
  Malformed = Malformed
  PidOf <- OnePerProcess
  MayCrash = FALSE
  MayStall = FALSE
  Leftover = TRUE
SPECIFICATION Spec
INVARIANT MutualExclusion

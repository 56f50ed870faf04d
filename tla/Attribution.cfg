CONSTANTS
  q1 = q1  q2 = q2
  m1 = m1  m2 = m2
  Queue = {q1, q2}
  Message = {m1, m2}
  QueueOf <- OneEach
  None = None
  MaxStep <- TwoAndOne
  Deliveries = 1
  Limit = 1
  MaxRecords = 2
  MaxPending = 1
  MaxFailures = 1
  MayLeave = {q1}
  MayEnd = {q2}
SPECIFICATION Spec
INVARIANTS TypeOK FailuresAreCountedOnce CompleteMeansRecorded RowsAreAccountedFor IdleIsSaved
CHECK_DEADLOCK FALSE

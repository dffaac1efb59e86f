CONSTANTS
  None = None
  Client = {c1, c2}
  Task = {t1}
  Queue = {q1, q2}
  Strategy = {"skip", "replace"}
  MaxGen = 2
  MaxList = 2
  ChunkSize = 1
  MaxRetries = 1
  Items = 2
  Resume = TRUE
SPECIFICATION LiveSpec
CHECK_DEADLOCK FALSE
INVARIANTS TypeOK NeverStranded UniqueUnlessOvertaken ResumesWhereItStopped
PROPERTY WrittenIsRun

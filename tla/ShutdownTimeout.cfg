CONSTANTS
  None = None
  j1 = j1  j2 = j2  j3 = j3
  Job = {j1, j2, j3}
  Backlog <- ThreeJobs
  Batched = {j1, j3}
  Invalid = {}
  Batcher = {b1}
  Size = 2
  Concurrency = 2
  MaxErrors = 0
SPECIFICATION StuckSpec
PROPERTY TimeoutEndsShutdown
CHECK_DEADLOCK FALSE

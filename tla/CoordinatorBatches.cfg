CONSTANTS
  None = None
  j1 = j1  j2 = j2  j3 = j3
  Job = {j1, j2, j3}
  Backlog <- ThreeJobs
  Batched = {j1, j3}
  Invalid = {j3}
  Batcher = {b1, b2}
  Size = 2
  Concurrency = 2
  MaxErrors = 1
SPECIFICATION LiveSpec
INVARIANT NothingVanishes
PROPERTIES CleanShutdown HeldIsReleased ShutdownEnds
CHECK_DEADLOCK FALSE

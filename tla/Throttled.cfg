CONSTANTS
  None = None
  j1 = j1  j2 = j2  j3 = j3  j4 = j4  j5 = j5
  Dispatcher = {d1, d2}
  Job = {j1, j2, j3, j4, j5}
  Backlog <- FiveJobs
  Cost <- MixedCost
  Limit = 1
  Window = 2
  Second = 2
  FallbackWait = 1
  MaxDelay = 1
  MaxErrors = 1
SPECIFICATION LiveSpec
INVARIANT WindowRespected
PROPERTY EveryJobSent
CHECK_DEADLOCK FALSE

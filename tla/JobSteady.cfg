CONSTANTS
  j1 = j1  j2 = j2  p1 = p1  p2 = p2  w1 = w1  w2 = w2
  None = None
  Job = {j1, j2}
  Proc = {p1, p2}
  Worker = {w1, w2}
  Host <- OnePermitEach
  Scheduled = {j2}
  Resurrectable = {j1}
  MaxRetries = 1
  PopLimit = 1
  DeadLimit = 1
  InitialProcs = {p1, p2}
  Faults <- BothCrash
  MaxFaults = 2
SPECIFICATION Spec
INVARIANTS TypeOK SingleExecution NothingLeftBehind RetriesBounded OnlyDeadResurrected
PROPERTY ImplementsService
CHECK_DEADLOCK FALSE

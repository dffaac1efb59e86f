CONSTANTS
  j1 = j1  j2 = j2  p1 = p1  p2 = p2  w1 = w1  w2 = w2
  None = None
  Job = {j1}
  Proc = {p1, p2}
  Worker = {w1, w2}
  Host <- BothPermitsOnFirst
  Scheduled = {}
  Resurrectable = {j1}
  MaxRetries = 1
  PopLimit = 1
  DeadLimit = 1
  InitialProcs = {p1, p2}
  Faults <- FirstSuffersAll
  MaxFaults = 3
SPECIFICATION Spec
PROPERTY LostOnlyInTransit
SYMMETRY Interchangeable

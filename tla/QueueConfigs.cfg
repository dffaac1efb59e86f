CONSTANTS
  None = None
  Caller = {c1}
  Permit = {x1}
  Config <- Applicable
  Admin = {a1, a2}
  Base = "tenant"
  Child = "tenant#1"
  Default = 1
  Limits = {1, 2}
  Wholes <- PausedAtTwo
  MaxCalls = 2
  MaxFailures = 1
SPECIFICATION ConfigLiveSpec
CHECK_DEADLOCK FALSE
INVARIANTS TypeOK ActiveCountsPermits NoLostWakeup DashboardShowsEffective ChangeLostOnlyByOverlap
PROPERTIES ConfigReachesQueue WaiterServed

CONSTANTS
    j1 = j1
    j2 = j2
    r1 = r1
    r2 = r2
    d1 = d1
    p1 = p1
    p2 = p2
    a1 = a1
    a2 = a2
    None = None
    Job = {j1, j2, r1, r2, d1}
    Occurrence = {1, 2}
    Proc = {p1, p2}
    Admin = {a1, a2}
    Delay <- MCDelay
    Retried = {r1, r2}
    Killed = {d1}
    Looper = {p1}
    ExpireAge = 1
    Lookahead = 1
    DeadLimit = 2
    Plans <- MCPlans
    MaxTime = 2
    MaxCalls = 2
    MaxFaults = 1
    Visitor = {v1}
    PageSize = 1
SPECIFICATION DashboardSpec
INVARIANTS JobKept RevivedOnce CronRunsOnce NothingHidden
PROPERTIES OrphansExpire CronEnqueued

CONSTANTS
    None = None
    p1 = p1
    w1 = w1
    Queue <- MCQueue
    Worker = {w1}
    Upper <- MCUpper
    BucketMax = 1
    DefaultMinutes = 1
    MaxMinutes = 2
    RateMinutes = 2
    MinuteLength = 1
    Proc = {p1}
    Result <- MCResult
    Tolerance = 2
    ExitWhen = 3
    Retention = 2
    MaxLength = 1
    MaxTime = 2
    Budget <- MCBudget
SPECIFICATION FairSpec
INVARIANTS CountsKept WindowComplete
PROPERTIES RowsAddUp LengthsSettle CollectorEnds

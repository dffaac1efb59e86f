CONSTANTS
    a = a
    b = b
    w = w
    Name = {a, b, w}
    Key <- MCKeys
    Args = {"{}", "more"}
    Empty = "{}"
    None = None
    WorkerConfig <- MCWorkers
    QueueConfig <- MCQueues
    Matches <- MCMatches
    MaxCalls = 3
    MaxJobs = 2
    MaxFaults = 1
SPECIFICATION LiveSpec
INVARIANTS RegistryConsistent RunAsSent
PROPERTY FormsRun

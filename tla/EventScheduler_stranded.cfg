SPECIFICATION FairSpec
CONSTANTS
    a = a
    b = b
    c = c
    w = w
    Tasks = {a, b, c}
    Callers = {w}
    Priority <- MCPriority
    TimedTasks = {a, b, c}
    ConcurrencyLimit = 1
    MaxQueueSize = 1
    MaxRetries = 1
    EnableMetrics = FALSE
PROPERTIES
    AcceptedIsSettled
\* All tasks may be settled and all callers answered: the system may stop.
CHECK_DEADLOCK FALSE

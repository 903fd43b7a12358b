SPECIFICATION FairSpec
CONSTANTS
    a = a
    b = b
    c = c
    w = w
    Tasks = {a, c}
    Callers = {w}
    Priority <- MCPriority
    TimedTasks = {a, c}
    ConcurrencyLimit = 1
    MaxQueueSize = 2
    MaxRetries = 2
    EnableMetrics = TRUE
INVARIANTS
    SlotsAccounted
PROPERTIES
    AcceptedIsSettled
    CallersReturn
\* All tasks may be settled and all callers answered: the system may stop.
CHECK_DEADLOCK FALSE

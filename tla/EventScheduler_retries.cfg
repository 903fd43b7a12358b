SPECIFICATION Spec
CONSTANTS
    a = a
    b = b
    c = c
    w = w
    Tasks = {a, b, c}
    Callers = {w}
    Priority <- MCPriority
    TimedTasks = {a, b, c}
    ConcurrencyLimit = 1
    MaxQueueSize = 2
    MaxRetries = 1
    EnableMetrics = FALSE
INVARIANTS
    TasksAccounted
    WithinLimits
PROPERTIES
    NoOvertaking
    DrainedMeansSettled
    NothingStartsAfterDispose
\* All tasks may be settled and all callers answered: the system may stop.
CHECK_DEADLOCK FALSE

SPECIFICATION Spec
CONSTANTS
    e1 = e1
    e2 = e2
    e3 = e3
    l1 = l1
    l2 = l2
    p1 = p1
    p2 = p2
    f1 = f1
    None = None
    Events = {e1, e2, e3}
    Listeners = {l1, l2}
    Once = {l2}
    Throwing = {l1}
    Processors = {p1, p2}
    Flushers = {f1}
    Drainers = {}
    BufferSize = 2
    MaxPauses = 2
    MayDispose = TRUE
    Name <- MCName
    Priority <- MCPriority
    ListensTo <- MCListensTo
    FlushOf <- MCFlushOf
INVARIANTS
    EventsAccounted
    OnceIsOnce
\* The user may have made all calls: the system may stop.
CHECK_DEADLOCK FALSE

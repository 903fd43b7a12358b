SPECIFICATION WaitSpec
CONSTANTS
    e1 = e1
    e2 = e2
    e3 = e3
    l1 = l1
    l2 = l2
    p1 = p1
    p2 = p2
    d1 = d1
    None = None
    Events = {e1, e2, e3}
    Listeners = {l1}
    Once = {}
    Throwing = {l1}
    Processors = {p1, p2}
    Flushers = {}
    Drainers = {d1}
    BufferSize = 2
    MaxPauses = 2
    MayDispose = FALSE
    Name <- MCTwoNames
    Priority <- MCPriority
    ListensTo <- MCListensTo
    FlushOf <- MCFlushOf
    Callers = {"c", "d", "e"}
    InitialCapacity = 1
    MaxCapacity = 2
    MinFree = 1
    AutoExpand = TRUE
    AsyncFactory = TRUE
    KeepsHeap = TRUE
    MaxMade = 4
    MaxResizes = 2
INVARIANTS
    OneProcessor
    PoolAgrees
PROPERTIES
    DrainCompletes
    DrainReturns
    WaitersServed
\* The user may have made all calls: the system may stop.
CHECK_DEADLOCK FALSE

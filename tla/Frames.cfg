SPECIFICATION Spec
CONSTANTS
    o1 = o1
    o2 = o2
    o3 = o3
    r1 = r1
    r2 = r2
    Observers = {o1, o2, o3}
    Rank <- ObserverRank
    Once = {o2}
    Debounced = {o3}
    Notifications = {"n", "m"}
    MaxConcurrent = 1
    MaxWalks = 2
    MaxCalls = 1
    NoOne = "none"
    Actors = {n1, n2, n3}
    NoActor = NoActor
    MaxChanges = 8
    Settings <- FrameSettings
    Renders = {r1, r2}
    PoolCapacity = 16
    MaxTextures = 8
    None = None
    Systems = {"old", "new", "other"}
    IdOf <- SystemId
    Priority <- SystemPriority
    FixedDelta = 2
    MaxDelta = 5
    MaxSubSteps = 2
    RetryAttempts = 1
    MaxElapsed = 6
    MaxOperations = 4
    \* A batch of three is heapified, and inserted one by one into a fuller heap.
    NodePriorities = {1, 2}
    Order = "max"
    MaxHandles = 6
    MaxBatch = 3
INVARIANTS
    ObserversAgree
    LoopAgrees
    HierarchyAgrees
    WorldIsCurrent
    TexturesAgree
    FramesHold
PROPERTIES
    OnlyRegisteredRun
    ImplementsQueuedWork
\* The subject and the loop may have been disposed of: the system may stop.
CHECK_DEADLOCK FALSE

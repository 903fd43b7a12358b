SPECIFICATION Spec
CONSTANTS
    Position = Position
    Manager = Manager
    a1 = a1
    a2 = a2
    None = None
    Components = {Position, Manager}
    InitialRegistry = {Manager}
    Singletons = {Manager}
    Preloaded = {Position}
    Queries <- MCQueries
    Reactive <- MCReactive
    MaxEntities = 3
    Actors = {a1, a2}
    MaxBatchDepth = 1
    WithoutActors = TRUE
    DestroyUnderActor = FALSE
SYMMETRY MCSymmetry
INVARIANTS
    StorageConsistent
    CacheIsComplete
    QueriesExact
PROPERTIES
    ImplementsEntityTable
    ReactiveFollows
\* The world may have been cleared: the system may stop.
CHECK_DEADLOCK FALSE

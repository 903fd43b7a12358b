SPECIFICATION Spec
CONSTANTS
    g1 = g1
    g2 = g2
    g3 = g3
    d1 = d1
    d2 = d2
    Getters = {g1, g2, g3}
    Disposers = {d1, d2}
    RetryCount = 1
    MaxInits = 2
    c1 = c1
    c2 = c2
    w1 = w1
    Chunks = {c1, c2}
    Waiters = {w1}
    MaxAnimators = 2
    Imports = {"i"}
    Sources = {"raw", "cooked"}
    FirstSource = "raw"
    Importers = {"any", "cooked"}
    ImporterRank <- ImporterRanks
    Tier <- Tiers
    Stages = {"cook", "check"}
    StageRank <- StageRanks
    PhasesOf <- StagePhases
    Takes <- StageTakes
    MaxAttempts = 2
    Retried = {"other"}
    Contexts = {"game", "menu"}
    Actions = {"jump", "pick"}
    Controls = {"space", "a"}
    Users = {"ann", "bob"}
    Gamepads = {"pad"}
    Devices = {"keyboard", "pad"}
    DeviceOf <- Key
    Definitions <- InputDefinitions
    UserDefinitions <- InputUsers
    Lists <- NoBindings
    ContextPriorities = {2}
    RebindingRequests <- InputRequests
    InitialContexts <- FirstContexts
    InitialUsers <- FirstUsers
    MaxConfigured = 2
    MaxSessions = 3
    p1 = p1
    p2 = p2
    Plays = {p1, p2}
    Ids = {"source"}
    StartSuspended = TRUE
    MaxObjects = 2
    MaxDecodes = 2
    MaxMeanings = 2
\* The plays are interchangeable.
SYMMETRY PlaySymmetry
INVARIANTS
    OneInitialisation
    DisposedOfOnce
    StreamingAgrees
    ImportsAgree
    AudioAgrees
    InputAgrees
    TapsAreReleases
PROPERTIES
    StopsAreHeard
\* Every service may have been disposed of: the system may stop.
CHECK_DEADLOCK FALSE

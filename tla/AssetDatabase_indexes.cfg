SPECIFICATION Spec
CONSTANTS
    a = a
    b = b
    j = j
    k = k
    l = l
    src = src
    i1 = i1
    None = None
    Ids = {a, b}
    Keys = {j, k, l}
    Identities = {src}
    MaxBatch = 2
    DisjointBatches = TRUE
    Imports = {i1}
    FailingData = {4}
    MaxData = 4
    MaxRevision = 2
    MaxPending = 1
    MayMerge = FALSE
    Writes <- MCWrites
    ImportOf <- MCImportOf
INVARIANTS
    DatabaseAgrees
    DataDisposedOnce
    ClosedSnapshotRestores
PROPERTIES
    KeysAreKept
\* A disposed database does nothing: the system may stop.
CHECK_DEADLOCK FALSE

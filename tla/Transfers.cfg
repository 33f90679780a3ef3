SPECIFICATION FairSpec
CONSTANTS
    a = a
    b = b
    None = None
    Files = {f1}
    Caches = {c1}
    Labs = {lab}
    Jobs = {job}
    Objects = {a, b}
    Narinfos = {a}
    Manifests <- MCManifests
    InputBytes = 2
    MaxStops = 1
    MaxFaults = 1
INVARIANTS Inv BudgetHolds
PROPERTIES InputIsProtected RemovalEnds
CHECK_DEADLOCK FALSE

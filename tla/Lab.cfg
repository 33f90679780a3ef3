SPECIFICATION FairSpec
CONSTANTS
    a = a
    b = b
    c1 = c1
    c2 = c2
    None = None
    Router = router
    Clients = {a, b}
    Calls = {c1, c2}
    Entries = {e1}
    Lease = 2
    BootLease = 1
    MaxBoots = 2
    Parallel = 2
    Workloads <- MCWorkloads
INVARIANTS Inv LeaseIsConservative ReleasedIsGone PowerIsObserved
PROPERTIES ReleaseCompletes
CHECK_DEADLOCK FALSE

\* Two jobs, two cgroup roots, one host reboot, failing writes.
SPECIFICATION FairSpec
CONSTANTS
    t1 = t1
    t2 = t2
    Tasks = {t1, t2}
    Roots = {r1, r2}
    None = None
    MaxProcs = 2
    MaxBoots = 1
    DiskFaults = TRUE
INVARIANTS IInv ReleasedIsEmpty Exclusive
PROPERTIES SealHolds ImplementsLedger ObservedIsReleased

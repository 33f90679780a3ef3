\* Liveness under fairness: one job, failing writes, crashes and reboots.
SPECIFICATION FairSpec
CONSTANTS
    t1 = t1
    t2 = t2
    Tasks = {t1}
    None = None
    SaveFaults = TRUE
PROPERTIES CleanupCompletes

\* A lab and a Nix job with one restart and nobody to call a recovery.
SPECIFICATION FairSpec
CONSTANTS
    l1 = l1
    j1 = j1
    j2 = j2
    Labs = {l1}
    Jobs = {j1}
    None = None
    SaveFaults = TRUE
    LockTimeouts = FALSE
    Crashes = 1
    Operators = {}
    Uploads = {}
INVARIANTS Inv
PROPERTIES QueueProgress
CHECK_DEADLOCK FALSE

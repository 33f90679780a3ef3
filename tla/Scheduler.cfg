\* A lab and a Nix job: crash, lost and late calls, lab_cleanup and nix_job_recover.
SPECIFICATION Spec
CONSTANTS
    l1 = l1
    j1 = j1
    j2 = j2
    Labs = {l1}
    Jobs = {j1}
    None = None
    SaveFaults = FALSE
    LockTimeouts = TRUE
    Crashes = 1
    Operators = {l1, j1}
    Uploads = {l1, j1}
INVARIANTS Inv
PROPERTIES ResultIsFinal
CHECK_DEADLOCK FALSE

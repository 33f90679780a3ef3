\* Two jobs, any number of crashes and reboots, failing writes.
SPECIFICATION Spec
CONSTANTS
    t1 = t1
    t2 = t2
    Tasks = {t1, t2}
    None = None
    SaveFaults = TRUE
SYMMETRY Symmetry
INVARIANTS IInv CleanupIsReal FreeSlot
PROPERTIES CleanIsFinal

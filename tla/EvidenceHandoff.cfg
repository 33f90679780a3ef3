\* Crashes, failing writes, and requests that outlive their caller.
SPECIFICATION FairSpec
CONSTANTS
    log = log
    output = output
    Files = {log, output}
    Attempts = 3
    Indexings = 3
    Crashes = 2
    Recoveries = 1
    SaveFaults = TRUE
    Late = TRUE
INVARIANTS Inv CompleteIsHandedOver
PROPERTIES EvidenceSettles
CHECK_DEADLOCK FALSE

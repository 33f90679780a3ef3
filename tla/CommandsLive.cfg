SPECIFICATION FairSpec
CONSTANTS
    MaxPackets = 1
    MaxOutput = 1
    ReadLimit = 1
    Workloads <- LiveWorkloads
PROPERTIES CancelIsPursued InputArrives
CHECK_DEADLOCK FALSE

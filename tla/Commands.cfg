SPECIFICATION Spec
CONSTANTS
    MaxPackets = 2
    MaxOutput = 2
    ReadLimit = 1
    Workloads <- SafetyWorkloads
INVARIANTS Inv StoppedIsReal RetainedIsOutput
PROPERTIES SettledIsFinal
CHECK_DEADLOCK FALSE

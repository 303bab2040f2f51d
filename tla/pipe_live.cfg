CONSTANTS
    ChirpsPerFrame = 4
    NumTx = 2
    NumRx = 1
    Bins = 2
    NumFrames = 3
    IndexMod = 2
    CounterMod = 5
    Preemptive = FALSE
    Overrun = TRUE
    Faults = {"uart"}
SPECIFICATION FairSpec
PROPERTIES EveryCaptureLeaves
CHECK_DEADLOCK FALSE

CONSTANTS
    ChirpsPerFrame = 4
    NumTx = 2
    NumRx = 1
    Bins = 2
    NumFrames = 1
    IndexMod = 256
    CounterMod = 5
    Preemptive = TRUE
    Overrun = FALSE
    Faults = {}
SPECIFICATION Spec
INVARIANT SendsDocumentedCell
CHECK_DEADLOCK FALSE

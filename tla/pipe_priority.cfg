CONSTANTS
    ChirpsPerFrame = 8
    NumTx = 2
    NumRx = 3
    Bins = 3
    NumFrames = 6
    IndexMod = 3
    CounterMod = 5
    Preemptive = TRUE
    Overrun = FALSE
    Faults = {}
SPECIFICATION FairSpec
INVARIANTS SensorStartsArmed InterruptsCounted WholeFrameCaptured PacketHasEveryBin
PROPERTIES EveryFrameDelivered
CHECK_DEADLOCK FALSE

CONSTANTS
    ChirpsPerFrame = 4
    NumTx = 2
    NumRx = 1
    Bins = 2
    NumFrames = 3
    IndexMod = 2
    CounterMod = 5
    Preemptive = FALSE
    Overrun = TRUE
    Faults = {"window", "dpu", "mimo", "irq", "trigger", "process", "uart", "sensor"}
SPECIFICATION Spec
INVARIANTS TypeOK NoLostPost PacketIsOneSnapshot SendsTheConfiguredCube
PROPERTIES CubeFrozenWhileSent ImplementsFrameStream
CHECK_DEADLOCK FALSE

CONSTANTS
    RxMasks = {{0}, {1, 2}, {0, 1, 2}}
    TxMasks = {{}, {0}, {1}, {0, 1}}
    SampleCounts = {8, 128}
    Faults = {"init", "hwa", "dpu", "rf", "trim", "open", "profile", "chirp",
              "config", "flash", "magic", "factoryCalib", "start"}
SPECIFICATION Spec
INVARIANTS TypeOK DpcBase CalibrationFitsProfile
CHECK_DEADLOCK FALSE

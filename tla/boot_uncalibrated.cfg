CONSTANTS
    RxMasks = {{0, 1, 2}}
    TxMasks = {{0, 1}}
    SampleCounts = {128}
    Faults = {"flash"}
SPECIFICATION Spec
INVARIANT StartsCalibrated
CHECK_DEADLOCK FALSE

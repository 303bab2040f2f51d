CONSTANTS
    RxMasks = {{0, 1, 2}}
    TxMasks = {{0, 1}}
    SampleCounts = {128}
    Faults = {}
SPECIFICATION Spec
INVARIANT AdcChannelsDisjoint
CHECK_DEADLOCK FALSE

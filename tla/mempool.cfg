CONSTANTS
    PoolAddr = 6
    PoolSize = 11
    AddrMod = 64
    Sizes = {2, 3, 4}
    Aligns = {1, 4}
SPECIFICATION Spec
INVARIANTS TypeOK BlocksInPool BlocksDisjoint BlocksAligned UsageCoversBlocks
PROPERTY HighWaterMark
CHECK_DEADLOCK FALSE

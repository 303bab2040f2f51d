CONSTANTS
    CoreAddr = 1001
    CoreSize = 28672
    L3Addr = 4096
    L3Size = 425984
    AddrMod = 1073741824
    Absent = Absent
    Files <- MCFiles
    OldHeaders <- MCOldHeaders
    HandHeaders <- MCHandHeaders
    SampleCounts = {100, 128}
SPECIFICATION Spec
INVARIANT BinsAreHalfTheFft
CHECK_DEADLOCK FALSE

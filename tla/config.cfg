CONSTANTS
    CoreAddr = 1001
    CoreSize = 28672
    L3Addr = 4096
    L3Size = 425984
    AddrMod = 1073741824
    Absent = Absent
    Files <- MCFiles
    OldHeaders <- MCOldHeaders
    HandHeaders <- MCHandHeaders
    SampleCounts = {16, 62, 64, 100, 128, 256, 512, 1024, 16384}
SPECIFICATION Spec
INVARIANTS TypeOK HeadersComplete FirmwareRunsTheFile RxChannelsApart CubeNullOnlyWhenTooBig UartReadsInCube PlotterNeverMixesPackets
PROPERTY OverwritesOnlyWhenAllowed
CHECK_DEADLOCK FALSE

CONSTANTS
    PayloadLens = {2, 4, 6, 8}
    DataLen = 4
    PayloadBytes <- MarkerPayload
    LineCap = 4
    MaxLoss = 4
    LongPauses = TRUE
    AnyStart = TRUE
SPECIFICATION FairSpec
INVARIANT TypeOK
PROPERTIES FramesAreWhole MismatchShowsNothing StaysInStep RecoversInPauses
CHECK_DEADLOCK FALSE

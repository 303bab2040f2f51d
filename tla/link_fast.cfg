CONSTANTS
    PayloadLens = {4}
    DataLen = 4
    PayloadBytes <- PlainPayload
    LineCap = 4
    MaxLoss = 0
    LongPauses = FALSE
    AnyStart = TRUE
SPECIFICATION FairSpec
PROPERTY KeepsReading
CHECK_DEADLOCK FALSE

CONSTANTS
    MaxPings = 2
    Connection = {s1, s2, s3}
    Nobody = nobody
    ResponseLength = 3
    MaxTuples = 2
    MaxLosses = 2
SPECIFICATION Spec
INVARIANTS
    StreamsTypeOK
    FramesInOrder
    CleanUnlessSplit
    DeliveredGenuine
    TuplesInOrder
CHECK_DEADLOCK FALSE

CONSTANTS
    Conn = {c1, c2}
    None = None
    MaxBroadcasts = 1
    MaxCrashes = 1
SPECIFICATION FairSpec
INVARIANTS
    TypeOK
    StoppedIsDisconnected
    RestoresWhatRan
    ReceiverIsRegistered
    StoppedHasNoRetry
PROPERTIES
    NeverOverwritesConnection
    RetryIsAttempted
    ResumesAfterCrash

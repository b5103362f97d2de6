CONSTANTS
    Conn = {c1}
    None = None
    MaxBroadcasts = 1
    MaxCrashes = 0
SPECIFICATION FairestSpec
PROPERTY KeepsConnectionActive

CONSTANTS
    Note = {n1, n2, n3}
    Big = {}
    Socket = {s1, s2}
    None = None
    CacheLength = 3
    MaxFaults = 0
SPECIFICATION Spec
PROPERTY ResendsFollowing
CHECK_DEADLOCK FALSE

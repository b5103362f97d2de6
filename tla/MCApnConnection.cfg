CONSTANTS
    Note = {n1, n2, n3, n4, n5, n6}
    Big = {n6}
    Socket = {s1, s2, s3, s4}
    None = None
    CacheLength = 3
    MaxFaults = 3
SYMMETRY ApnSymmetry
SPECIFICATION Spec
INVARIANTS TypeOK OwnSocket WireOrder NothingLost
PROPERTY HeldMayFail
CHECK_DEADLOCK FALSE

CONSTANTS
    Node = {n1, n2}
    Count = 2
    MaxId = 5
    MaxChanges = 1
    MaxFailures = 1
    LoginName = {u1, u2}
    Password = {p1, p2}
    Browser = {b1, b2}
    Device = {d1}
    NoOne = NoOne
    MaxIds = 3
    MaxGivenUp = 2
SYMMETRY Symmetry
SPECIFICATION SiteSpec
INVARIANTS
    SiteTypeOK
    EachOnce
    NothingMissed
    NewestFirst
    PagesMissNothing
    SessionIsProven
    RegisteredForUser
CHECK_DEADLOCK FALSE

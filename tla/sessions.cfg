SPECIFICATION Spec
CONSTANTS
    Users = {u1, u2}
    Ids = {s1, s2, s3}
    Callers = {c1, c2}
    NoUser = NoUser
    NoId = NoId
    Timeout = 2
    MaxConcurrentPerUser = 2
    MaxLag = 1
    MaxTime = 4
SYMMETRY Symmetry
INVARIANTS CapRespected LastSeenLag
PROPERTIES SlidingTimeout RefusedOnlyAtCap NoRevival

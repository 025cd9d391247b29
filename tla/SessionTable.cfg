SPECIFICATION Spec
CONSTANTS
    a = a
    b = b
    NMax = 2
    Tokens <- OneToken
    Requests <- Requested
    CtxCap = 3
    IdleS = 1
    MaxId = 3
    MaxTime = 2
    NeedHello = TRUE
    ResetMayFail = TRUE
    Absent = Absent
INVARIANTS
    Fits
PROPERTIES
    RecentSurvive

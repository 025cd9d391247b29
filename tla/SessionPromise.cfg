SPECIFICATION Spec
CONSTANTS
    a = a
    b = b
    NMax = 2
    Tokens <- TwoTokens
    Requests <- Requested
    CtxCap = 3
    IdleS = 0
    MaxId = 3
    MaxTime = 1
    NeedHello = TRUE
    ResetMayFail = FALSE
    Absent = Absent
SYMMETRY Symmetric
INVARIANTS
    HistoryIsCache
PROPERTIES
    KeepsPromise

SPECIFICATION Spec
CONSTANTS
    Messages = {m, n}
    Options = {warm, cold}
    MaxMessages = 2
    NChats = 2
    MaxIds = 3
    MaxStarts = 2
    MaxTime = 1
INVARIANTS
    TypeOK
    RetryHidesEviction
PROPERTIES
    AnswersRequest
    SendsOnlyTheRest
CHECK_DEADLOCK FALSE
